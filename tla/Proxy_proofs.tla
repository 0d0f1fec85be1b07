----------------------------- MODULE Proxy_proofs -----------------------------
(***************************************************************************)
(* Proofs about Proxy, for any scripts of the peers, any capacities and    *)
(* any calls of bp_ctrl_ that fail.                                        *)
(*                                                                         *)
(* IInv (in HttpHandler_proofs) is inductive: each callback of a socket or *)
(* of the cache is a chain of methods, and each method in it leaves a good *)
(* connection (Left) from which the next one goes on.  Between them, while *)
(* bytes are dealt with, weaker conditions hold, one for each use of the   *)
(* cache: Legs, Early, Writes and Reads.                                   *)
(***************************************************************************)
EXTENDS HttpHandler_proofs, FiniteSetTheorems, SequenceTheorems,
        WellFoundedInduction

-----------------------------------------------------------------------------
(* Recursive functions over intervals: what TransFed and RespFed compute.  *)

\* The order of the numbers, as a relation.
Below == OpToRel(<, Nat)

\* A set of numbers has a least one.
LEMMA Least ==
    ASSUME NEW S \in SUBSET Nat, S # {}
    PROVE  \E m \in S : \A x \in S : m <= x
<1>1. IsWellFoundedOn(Below, Nat)
  BY NatLessThanWellFounded, Zenon DEF Below
<1>2. \A x, y \in Nat : x < y => <<x, y>> \in Below
  <2>1. ASSUME NEW x \in Nat, NEW y \in Nat, x < y PROVE <<x, y>> \in Below
    <3>1. <<x, y>> \in Nat \X Nat /\ <<x, y>>[1] < <<x, y>>[2]
      BY <2>1
    <3> QED
      BY <3>1, Zenon DEF Below, OpToRel
  <2> QED
    BY <2>1
<1>3. PICK m \in S : \A x \in S : ~(<<x, m>> \in Below)
  BY <1>1, WFMin
<1>4. ASSUME NEW x \in S PROVE m <= x
  <2>1. m \in Nat /\ x \in Nat
    OBVIOUS
  <2>2. ~(x < m)
    BY <1>2, <1>3, <2>1, Zenon
  <2> QED
    BY <2>1, <2>2
<1> QED
  BY <1>4

\* What holds of the first value and is kept by each step holds of the last.
LEMMA Upward ==
    ASSUME NEW m \in Nat, NEW n \in Nat, m <= n, NEW S,
           m \in S, \A i \in (m + 1)..n : i - 1 \in S => i \in S
    PROVE  n \in S
<1> DEFINE B == {i \in m..n : i \notin S}
<1>1. SUFFICES ASSUME B # {}
               PROVE  FALSE
  OBVIOUS
<1>2. PICK l \in B : \A x \in B : l <= x
  <2>1. B \in SUBSET Nat
    OBVIOUS
  <2> QED
    BY <1>1, <2>1, Least
<1>3. l \in (m + 1)..n
  BY <1>2
<1>4. l - 1 \in m..n /\ ~(l <= l - 1)
  BY <1>3
<1>5. l - 1 \in S
  BY <1>2, <1>4
<1> QED
  BY <1>2, <1>3, <1>5

\* A recursive function over an interval.
Computed(f, m, n, a, G) ==
    f = [i \in m..n |-> IF i = m THEN a ELSE G[<<f[i - 1], i>>]]
\* Steps that stay in a set.
Within(G, V, m, n) == \A v \in V, i \in (m + 1)..n : G[<<v, i>>] \in V

\* Such a function exists and stays in the set.
LEMMA Recursive ==
    ASSUME NEW m \in Nat, NEW n \in Nat, m <= n, NEW V, NEW a \in V, NEW G,
           Within(G, V, m, n)
    PROVE  \E f \in [m..n -> V] : Computed(f, m, n, a, G)
<1> USE DEF Within
<1> DEFINE Upto(f, k) == /\ f \in [m..k -> V] /\ f[m] = a
                         /\ \A i \in (m + 1)..k : f[i] = G[<<f[i - 1], i>>]
           S == {k \in m..n : \E f : Upto(f, k)}
<1>1. m \in S
  <2> DEFINE f == [i \in m..m |-> a]
  <2>1. m \in m..m /\ \A i \in m..m : i = m
    OBVIOUS
  <2>2. Upto(f, m)
    BY <2>1
  <2> QED
    BY <2>2
<1>2. ASSUME NEW i \in (m + 1)..n, i - 1 \in S
      PROVE  i \in S
  <2>1. PICK f : Upto(f, i - 1)
    BY <1>2
  <2> DEFINE v == G[<<f[i - 1], i>>]
             g == [j \in m..i |-> IF j = i THEN v ELSE f[j]]
  <2>2. /\ i - 1 \in m..(i - 1) /\ i \in Nat /\ i - 1 \in Nat /\ m # i /\ m \in m..i
        /\ \A j \in m..i : j # i => j \in m..(i - 1)
        /\ \A j \in (m + 1)..i : j # i => /\ j - 1 \in m..i /\ j - 1 # i
                                          /\ j \in (m + 1)..(i - 1) /\ j \in m..i
        /\ i \in m..i /\ i - 1 # i /\ i - 1 \in m..i /\ i \in m..n
    OBVIOUS
  <2>3. v \in V
    BY <2>1, <2>2
  <2> HIDE DEF v
  <2>4. g \in [m..i -> V]
    BY <2>1, <2>2, <2>3
  <2>5. g[m] = a
    BY <2>1, <2>2
  <2>6. ASSUME NEW j \in (m + 1)..i
        PROVE  g[j] = G[<<g[j - 1], j>>]
    <3>1. CASE j = i
      <4>1. g[j] = v /\ g[j - 1] = f[i - 1]
        BY <2>2, <3>1
      <4> QED
        BY <3>1, <4>1 DEF v
    <3>2. CASE j # i
      <4>1. g[j] = f[j] /\ g[j - 1] = f[j - 1]
        BY <2>2, <3>2
      <4> QED
        BY <2>1, <2>2, <3>2, <4>1
    <3> QED
      BY <3>1, <3>2
  <2> HIDE DEF g
  <2>7. Upto(g, i)
    BY <2>4, <2>5, <2>6
  <2> QED
    BY <2>2, <2>7
<1> HIDE DEF S
<1>3. n \in S
  BY <1>1, <1>2, Upward
<1>4. PICK f : Upto(f, n)
  BY <1>3 DEF S
<1> DEFINE h == [i \in m..n |-> IF i = m THEN a ELSE G[<<f[i - 1], i>>]]
<1>5. f = h
  <2>1. f = [i \in m..n |-> f[i]]
    BY <1>4
  <2>2. ASSUME NEW i \in m..n
        PROVE  f[i] = IF i = m THEN a ELSE G[<<f[i - 1], i>>]
    <3>1. i # m => i \in (m + 1)..n
      OBVIOUS
    <3> QED
      BY <1>4, <3>1
  <2>3. h = [i \in m..n |-> f[i]]
    BY <2>2
  <2> QED
    BY <2>1, <2>3
<1> QED
  BY <1>4, <1>5 DEF Computed

-----------------------------------------------------------------------------
(* The requests' units, counted over the transactions.                     *)

\* The sums of the first i requests.
Sums(f, ts) == /\ f \in [0 .. Len(ts) -> Nat] /\ f[0] = 0
               /\ \A i \in 1 .. Len(ts) : f[i] = f[i - 1] + ts[i].req

\* ReqUnits is the last of them.
LEMMA UnitsSum ==
    ASSUME NEW ts \in Seq(Trans)
    PROVE  \E f : Sums(f, ts) /\ ReqUnits(ts) = f[Len(ts)]
<1> DEFINE n == Len(ts)
           V == Nat
           G == [p \in Nat \X (1 .. n) |-> p[1] + ts[p[2]].req]
           Def(f) == [i \in 0 .. n |-> IF i = 0 THEN 0 ELSE f[i - 1] + ts[i].req]
<1>1. n \in Nat /\ 0 <= n /\ 0 \in Nat /\ 0 + 1 = 1
  OBVIOUS
<1>2. \A i \in 1 .. n : ts[i].req \in Nat
  <2>1. \A i \in 1 .. n : ts[i] \in Trans
    OBVIOUS
  <2> QED
    BY <2>1 DEF Trans
<1>3. ASSUME NEW v \in V, NEW i \in 1 .. n
      PROVE  G[<<v, i>>] = v + ts[i].req
  <2>1. <<v, i>> \in Nat \X (1 .. n) /\ <<v, i>>[1] = v /\ <<v, i>>[2] = i
    OBVIOUS
  <2> QED
    BY <2>1
<1>4. \A v \in V, i \in 1 .. n : v + ts[i].req \in V
  BY <1>2
<1>5. ReqUnits(ts) = (CHOOSE f : f = Def(f))[n]
  BY DEF ReqUnits
<1> HIDE DEF n, G
<1>6. PICK g \in [0 .. n -> V] : Computed(g, 0, n, 0, G)
  <2>1. Within(G, V, 0, n)
    BY <1>1, <1>3, <1>4 DEF Within
  <2> QED
    BY <1>1, <2>1, Recursive
<1>7. g = Def(g)
  <2>1. ASSUME NEW i \in 0 .. n, i # 0
        PROVE  G[<<g[i - 1], i>>] = g[i - 1] + ts[i].req
    <3>1. i \in 1 .. n /\ i - 1 \in 0 .. n
      BY <1>1, <2>1
    <3> QED
      BY <1>3, <3>1
  <2>2. [i \in 0 .. n |-> IF i = 0 THEN 0 ELSE G[<<g[i - 1], i>>]] = Def(g)
    BY <2>1
  <2> QED
    BY <1>6, <2>2 DEF Computed
<1> DEFINE f == CHOOSE f : f = Def(f)
<1>8. f = Def(f)
  BY <1>7
<1> HIDE DEF f
<1>9. /\ DOMAIN f = 0 .. n /\ f[0] = 0
      /\ \A i \in 1 .. n : f[i] = f[i - 1] + ts[i].req
  <2>1. DOMAIN f = 0 .. n /\ \A i \in 0 .. n :
            f[i] = IF i = 0 THEN 0 ELSE f[i - 1] + ts[i].req
    BY <1>8
  <2>2. 0 \in 0 .. n /\ \A i \in 1 .. n : i \in 0 .. n /\ i # 0
    BY <1>1
  <2> QED
    BY <2>1, <2>2
<1>10. ASSUME NEW k \in 0 .. n
       PROVE  f[k] \in Nat
  <2> DEFINE S == {i \in 0 .. n : f[i] \in Nat}
  <2>1. 0 \in S
    BY <1>1, <1>9
  <2>2. ASSUME NEW i \in 1 .. k, i - 1 \in S
        PROVE  i \in S
    <3>1. i \in 1 .. n /\ i \in 0 .. n
      BY <1>1, <2>2
    <3>2. f[i] = f[i - 1] + ts[i].req /\ f[i - 1] \in Nat /\ ts[i].req \in Nat
      BY <1>2, <1>9, <2>2, <3>1
    <3>3. f[i] \in Nat
      BY <3>2
    <3> QED
      BY <3>1, <3>3
  <2> HIDE DEF S
  <2>3. k \in Nat /\ 0 <= k /\ 0 + 1 = 1
    BY <1>1
  <2>4. k \in S
    BY <1>1, <2>1, <2>2, <2>3, Upward
  <2> QED
    BY <2>4 DEF S
<1>11. f \in [0 .. n -> Nat]
  <2>1. f = [i \in 0 .. n |-> f[i]]
    BY <1>8
  <2> QED
    BY <1>10, <2>1
<1> QED
  BY <1>5, <1>9, <1>11 DEF Sums, n, f

\* Sums of the same requests.
LEMMA SumsSame ==
    ASSUME NEW ts, NEW us, NEW f, NEW g, Sums(f, ts), Sums(g, us), NEW n \in Nat,
           n <= Len(ts), n <= Len(us), Len(ts) \in Nat, Len(us) \in Nat,
           \A k \in 1 .. n : us[k].req = ts[k].req
    PROVE  f[n] = g[n]
<1> DEFINE S == {i \in 0 .. n : f[i] = g[i]}
<1>1. 0 \in S
  BY DEF Sums
<1>2. ASSUME NEW i \in 1 .. n, i - 1 \in S
      PROVE  i \in S
  <2>1. i \in 1 .. Len(ts) /\ i \in 1 .. Len(us) /\ i \in 0 .. n
    OBVIOUS
  <2> QED
    BY <1>2, <2>1 DEF Sums
<1> HIDE DEF S
<1>3. 0 \in Nat /\ 0 + 1 = 1 /\ 0 <= n
  OBVIOUS
<1>4. n \in S
  BY <1>1, <1>2, <1>3, Upward
<1> QED
  BY <1>4 DEF S

\* The units of the same requests.
LEMMA UnitsSame ==
    ASSUME NEW ts \in Seq(Trans), NEW us \in Seq(Trans), Len(us) = Len(ts),
           \A k \in DOMAIN ts : us[k].req = ts[k].req
    PROVE  ReqUnits(us) = ReqUnits(ts)
<1>1. PICK f : Sums(f, ts) /\ ReqUnits(ts) = f[Len(ts)]
  BY UnitsSum
<1>2. PICK g : Sums(g, us) /\ ReqUnits(us) = g[Len(us)]
  BY UnitsSum
<1>3. Len(ts) \in Nat /\ DOMAIN ts = 1 .. Len(ts)
  OBVIOUS
<1> QED
  BY <1>1, <1>2, <1>3, SumsSame

\* The units when only the last request differs, or there is one more.
LEMMA UnitsLast ==
    ASSUME NEW ts \in Seq(Trans), NEW us \in Seq(Trans), us # <<>>,
           \A k \in 1 .. (Len(us) - 1) : us[k].req = ts[k].req
    PROVE  /\ Len(us) = Len(ts) =>
                ReqUnits(us) = ReqUnits(ts) - ts[Len(us)].req + us[Len(us)].req
           /\ Len(us) = Len(ts) + 1 => ReqUnits(us) = ReqUnits(ts) + us[Len(us)].req
<1>1. PICK f : Sums(f, ts) /\ ReqUnits(ts) = f[Len(ts)]
  BY UnitsSum
<1>2. PICK g : Sums(g, us) /\ ReqUnits(us) = g[Len(us)]
  BY UnitsSum
<1> DEFINE n == Len(us)
<1>3. Len(ts) \in Nat /\ n \in Nat /\ n >= 1
  OBVIOUS
<1>4. g[n] = g[n - 1] + us[n].req /\ g[n - 1] \in Nat /\ us[n].req \in Nat
  <2>1. n \in 1 .. n /\ n - 1 \in 0 .. n
    BY <1>3
  <2>2. us[n] \in Trans
    BY <1>3
  <2> QED
    BY <1>2, <2>1, <2>2 DEF Sums, Trans
<1>5. ASSUME n = Len(ts)
      PROVE  ReqUnits(us) = ReqUnits(ts) - ts[n].req + us[n].req
  <2>1. f[n] = f[n - 1] + ts[n].req /\ f[n - 1] \in Nat /\ ts[n].req \in Nat
    <3>1. n \in 1 .. Len(ts) /\ n - 1 \in 0 .. Len(ts)
      BY <1>3, <1>5
    <3>2. ts[n] \in Trans
      BY <1>3, <1>5
    <3> QED
      BY <1>1, <3>1, <3>2 DEF Sums, Trans
  <2>2. n - 1 \in Nat /\ n - 1 <= Len(ts) /\ n - 1 <= Len(us)
    BY <1>3, <1>5
  <2>3. f[n - 1] = g[n - 1]
    BY <1>1, <1>2, <1>3, <2>2, SumsSame
  <2> HIDE DEF n
  <2> QED
    BY <1>1, <1>2, <1>4, <1>5, <2>1, <2>3 DEF n
<1>6. ASSUME n = Len(ts) + 1
      PROVE  ReqUnits(us) = ReqUnits(ts) + us[n].req
  <2>1. n - 1 \in Nat /\ n - 1 <= Len(ts) /\ n - 1 <= Len(us) /\ n - 1 = Len(ts)
    BY <1>3, <1>6
  <2>2. f[n - 1] = g[n - 1]
    BY <1>1, <1>2, <1>3, <2>1, SumsSame
  <2> QED
    BY <1>1, <1>2, <1>4, <2>1, <2>2
<1> QED
  BY <1>5, <1>6

\* The first request and the others.
LEMMA UnitsHead ==
    ASSUME NEW ts \in Seq(Trans), ts # <<>>
    PROVE  /\ ReqUnits(ts) = ts[1].req + ReqUnits(Tail(ts))
           /\ ReqUnits(Tail(ts)) \in Nat /\ ts[1].req \in Nat
<1> DEFINE us == Tail(ts)
           n == Len(us)
<1>1. /\ us \in Seq(Trans) /\ n \in Nat /\ Len(ts) = n + 1
      /\ \A k \in 1 .. n : us[k] = ts[k + 1]
  OBVIOUS
<1>2. ts[1].req \in Nat
  <2>1. ts[1] \in Trans
    OBVIOUS
  <2> QED
    BY <2>1 DEF Trans
<1> HIDE DEF us, n
<1>3. PICK f : Sums(f, ts) /\ ReqUnits(ts) = f[n + 1]
  BY <1>1, UnitsSum
<1>4. PICK g : Sums(g, us) /\ ReqUnits(us) = g[n]
  BY <1>1, UnitsSum DEF n
<1> DEFINE S == {i \in 0 .. n : f[i + 1] = ts[1].req + g[i]}
<1>5. 0 \in S
  <2>1. 1 \in 1 .. Len(ts) /\ 0 \in 0 .. n
    BY <1>1
  <2>2. f[1] = f[1 - 1] + ts[1].req /\ f[0] = 0 /\ g[0] = 0 /\ 1 - 1 = 0 /\ 0 + 1 = 1
    BY <1>3, <1>4, <2>1 DEF Sums
  <2> QED
    BY <1>2, <2>1, <2>2
<1>6. ASSUME NEW i \in 1 .. n, i - 1 \in S
      PROVE  i \in S
  <2>1. /\ i + 1 \in 1 .. Len(ts) /\ i \in 1 .. Len(us) /\ i \in 0 .. n
        /\ (i + 1) - 1 = i /\ (i - 1) + 1 = i /\ i - 1 \in 0 .. Len(us)
    BY <1>1 DEF n
  <2>2. f[i + 1] = f[i] + ts[i + 1].req /\ g[i] = g[i - 1] + us[i].req
    BY <1>3, <1>4, <2>1 DEF Sums
  <2>3. us[i] = ts[i + 1] /\ f[i] = ts[1].req + g[i - 1]
    BY <1>1, <1>6, <2>1
  <2>4. g[i - 1] \in Nat /\ us[i].req \in Nat
    <3>1. us[i] \in Trans
      BY <1>1, <2>1
    <3> QED
      BY <1>4, <2>1, <3>1 DEF Sums, Trans
  <2>5. f[i + 1] = ts[1].req + g[i]
    BY <1>2, <2>2, <2>3, <2>4
  <2> QED
    BY <2>1, <2>5
<1> HIDE DEF S
<1>7. 0 \in Nat /\ 0 + 1 = 1 /\ 0 <= n
  BY <1>1
<1>8. n \in S
  BY <1>1, <1>5, <1>6, <1>7, Upward
<1>9. g[n] \in Nat
  BY <1>1, <1>4 DEF Sums, n
<1> QED
  BY <1>2, <1>3, <1>4, <1>8, <1>9 DEF S, us

\* The units of the later requests.
LEMMA LaterIs ==
    ASSUME NEW ts \in Seq(Trans)
    PROVE  /\ Later(ts) \in Nat
           /\ ts = <<>> => Later(ts) = 0 /\ ReqUnits(ts) = 0
           /\ ts # <<>> => ReqUnits(ts) = ts[1].req + Later(ts) /\ ts[1].req \in Nat
           /\ ts # <<>> => Later(ts) = Later(Tail(ts)) +
                    (IF Tail(ts) # <<>> THEN Tail(ts)[1].req ELSE 0)
<1>1. CASE ts = <<>>
  <2>1. PICK f : Sums(f, ts) /\ ReqUnits(ts) = f[Len(ts)]
    BY UnitsSum
  <2> QED
    BY <1>1, <2>1 DEF Later, Sums
<1>2. CASE ts # <<>>
  <2>1. ReqUnits(ts) = ts[1].req + Later(ts) /\ Later(ts) \in Nat /\ ts[1].req \in Nat
    BY <1>2, UnitsHead DEF Later
  <2>2. Tail(ts) \in Seq(Trans)
    BY <1>2
  <2>3. CASE Tail(ts) = <<>>
    <3>1. PICK f : Sums(f, Tail(ts)) /\ ReqUnits(Tail(ts)) = f[Len(Tail(ts))]
      BY <2>2, UnitsSum
    <3>2. ReqUnits(Tail(ts)) = 0
      BY <2>3, <3>1 DEF Sums
    <3> QED
      BY <1>2, <2>1, <2>3, <3>2 DEF Later
  <2>4. CASE Tail(ts) # <<>>
    <3>1. ReqUnits(Tail(ts)) = Tail(ts)[1].req + ReqUnits(Tail(Tail(ts)))
          /\ ReqUnits(Tail(Tail(ts))) \in Nat /\ Tail(ts)[1].req \in Nat
      BY <2>2, <2>4, UnitsHead
    <3> QED
      BY <1>2, <2>1, <2>4, <3>1 DEF Later
  <2> QED
    BY <1>2, <2>1, <2>3, <2>4
<1> QED
  BY <1>1, <1>2

\* They are the same when the later requests are.
LEMMA LaterSame ==
    ASSUME NEW ts \in Seq(Trans), NEW us \in Seq(Trans), Len(us) = Len(ts),
           \A k \in DOMAIN ts : k # 1 => us[k].req = ts[k].req
    PROVE  Later(us) = Later(ts)
<1>1. CASE ts = <<>>
  BY <1>1 DEF Later
<1>2. CASE ts # <<>>
  <2>1. us # <<>> /\ Len(Tail(us)) = Len(Tail(ts)) /\ Tail(us) \in Seq(Trans)
        /\ Tail(ts) \in Seq(Trans)
    BY <1>2
  <2>2. ASSUME NEW k \in DOMAIN Tail(ts)
        PROVE  Tail(us)[k].req = Tail(ts)[k].req
    <3>1. k + 1 \in DOMAIN ts /\ k + 1 # 1 /\ Tail(us)[k] = us[k + 1]
          /\ Tail(ts)[k] = ts[k + 1]
      BY <1>2, <2>1
    <3> QED
      BY <3>1
  <2>3. ReqUnits(Tail(us)) = ReqUnits(Tail(ts))
    BY <2>1, <2>2, UnitsSame
  <2> QED
    BY <1>2, <2>1, <2>3 DEF Later
<1> QED
  BY <1>1, <1>2

-----------------------------------------------------------------------------
(* Steps of the sockets and of the two streams' ends.                      *)

\* The states that say a stream has ended.
Eofs == {"org_recv_eof", "cln_recv_eof"}

\* The first transaction goes on; a complete request stays as it is.
FirstKept(s, t) ==
    /\ s.trans # <<>> =>
        /\ t.trans # <<>>
        /\ ReqCompleted(s.trans[1]) => t.trans[1] = s.trans[1]
        /\ s.trans[1].at > 0 => t.trans[1].at = s.trans[1].at
        /\ s.trans[1].tunnel => t.trans[1].tunnel
    /\ t.trans # <<>> /\ t.trans[1].at > 0 =>
        s.trans # <<>> /\ s.trans[1].at = t.trans[1].at

\* A step of the client's side: the ends of the streams, requests.
LEMMA GoodMoved ==
    ASSUME NEW s, Good(s), Up(s.sm), NEW t, NEW X, NEW F, Does(s, t, X, F),
           X \cap (Marks \ Eofs) = {},
           F \subseteq {"trans", "client_rdr", "client_recv", "origin_pending",
                        "client_pending", "flags"},
           \/ t.flags = s.flags
           \/ /\ s.csm \in Waiting
              /\ t.flags = (s.flags \ {"bpctrl_added"}) \cup {"pend_tunnel"},
           \A x \in Eofs : x \in s.sm => x \in t.sm,
           ShutC(t.sm) => ShutC(s.sm) \/ "org_recv_eof" \in t.sm,
           ShutO(t.sm) => ShutO(s.sm) \/ "cln_recv_eof" \in t.sm,
           s.tunnel => t.client_rdr = 0,
           ~s.tunnel => Place(t) /\ FirstKept(s, t) /\ Ledger(t)
    PROVE  Good(t) /\ Online(t)
<1>1. /\ t.csm = s.csm /\ t.cache_op = s.cache_op
      /\ t.strm = s.strm /\ t.tunnel = s.tunnel /\ t.obj_at = s.obj_at
      /\ t.obj_len = s.obj_len /\ t.cache_offs = s.cache_offs
      /\ t.origin_recv = s.origin_recv /\ t.origin_rdr = s.origin_rdr
      /\ t.org_cache_rdr = s.org_cache_rdr
      /\ t.wrote = s.wrote /\ t.writing = s.writing /\ t.handle = s.handle
  BY DEF Does, Keep, Fields
<1>2. \A x \in Marks \ Eofs : x \in t.sm <=> x \in s.sm
  BY DEF Does, Only
<1>3. Mach(t) /\ Up(t.sm)
  BY <1>2 DEF Does, Up, Marks, Eofs
<1>4. Steps(t)
  BY <1>1, <1>2, <1>3 DEF Good, Steps, Marks, Eofs
<1>5. Served(t)
  BY <1>1 DEF Good, Served
<1>6. t.tunnel => /\ t.cache_op = "none" /\ t.wrote = <<>> /\ t.csm = "cache_closed"
                  /\ t.client_rdr = 0 /\ t.origin_rdr = 0
  BY <1>1 DEF Good
<1>7. ASSUME ~t.tunnel
      PROVE  Hand(t)
  <2>1. Hand(s) /\ Place(t) /\ FirstKept(s, t) /\ Ledger(t)
    BY <1>1, <1>7 DEF Good
  <2>10. /\ t.csm = "cache_idle_wr" \/ "pend_tunnel" \notin t.flags => t.flags = s.flags
         /\ \A x : x \notin {"bpctrl_added", "pend_tunnel"} =>
                (x \in t.flags <=> x \in s.flags)
         /\ "pend_tunnel" \in s.flags => "pend_tunnel" \in t.flags
         /\ "pend_tunnel" \in t.flags => "pend_tunnel" \in s.flags \/ t.csm \in Waiting
    BY <1>1 DEF Waiting
  <2>2. OpFits(t)
    BY <1>1, <2>1 DEF Hand, OpFits
  <2>3. Paused(t)
    BY <1>1, <1>2, <2>1, <2>10 DEF Hand, Paused, Marks, Eofs
  <2>4. Cached(t)
    BY <1>1, <2>1, <2>10 DEF Hand, Cached, FirstKept, Eofs, Caching, Waiting
  <2>5. Asked(t)
    <3>1. s.csm \in {"cache_open_rd", "cache_compare", "cache_read"}
            => t.trans[1] = s.trans[1]
      BY <2>1 DEF Hand, Cached, FirstKept, Caching, Waiting
    <3> QED
      BY <1>1, <2>1, <3>1 DEF Hand, Asked, Eofs
  <2>6. Bytes(t)
    <3>1. s.csm \in Waiting \cup {"cache_idle_wr"} => t.trans[1] = s.trans[1]
      BY <2>1 DEF Hand, Cached, FirstKept, Caching, Waiting
    <3>2. s.wrote # <<>> =>
            /\ s.trans # <<>> /\ s.trans[1].at > 0 /\ t.trans[1].at = s.trans[1].at
      <4>1. s.wrote # <<>> => s.trans # <<>> /\ s.trans[1].at > 0
        BY <2>1 DEF Hand, Bytes, Wrote, Cached
      <4> QED
        BY <2>1, <4>1 DEF FirstKept
    <3>3. \A i \in DOMAIN s.wrote : s.wrote # <<>>
      OBVIOUS
    <3> QED
      BY <1>1, <2>1, <2>10, <3>1, <3>2, <3>3 DEF Hand, Bytes, Wrote
  <2>7. Entry(t)
    <3>1. s.csm \in Deciding => t.trans[1] = s.trans[1]
      BY <2>1 DEF Hand, Cached, FirstKept, Caching, Waiting, Deciding
    <3> QED
      BY <1>1, <1>2, <2>1, <2>10, <3>1 DEF Hand, Entry, FirstKept, Marks, Eofs
  <2>8. Waits(t)
    <3>1. s.csm \in {"cache_write", "cache_idle_wr"} => t.trans[1] = s.trans[1]
      BY <2>1 DEF Hand, Cached, FirstKept, Caching, Waiting
    <3> QED
      BY <1>1, <2>1, <2>10, <3>1 DEF Hand, Waits, FirstKept
  <2> QED
    BY <2>1, <2>2, <2>3, <2>4, <2>5, <2>6, <2>7, <2>8 DEF Hand
<1>8. Good(t)
  BY <1>3, <1>4, <1>5, <1>6, <1>7 DEF Good
<1> QED
  BY <1>3, <1>8, GoodOnline

\* The end of an operation.
Ends(s, op) == [s EXCEPT !.ops[op] = "none",
                         !.cln_room = IF op = "cln_recv" THEN 0 ELSE @,
                         !.org_room = IF op = "org_recv" THEN 0 ELSE @]

\* Nothing else changes.
LEMMA EndsDoes ==
    ASSUME NEW s, Mach(s), NEW op \in Ops
    PROVE  LET t == Ends(s, op) IN
           /\ Does(s, t, {}, {}) /\ t.sm = s.sm /\ t.bug = s.bug
           /\ t.ops = [s.ops EXCEPT ![op] = "none"]
<1> DEFINE v == [s.ops EXCEPT ![op] = "none"]
           c == IF op = "cln_recv" THEN 0 ELSE s.cln_room
           o == IF op = "org_recv" THEN 0 ELSE s.org_room
           t == [s EXCEPT !.ops = v, !.cln_room = c, !.org_room = o]
<1>1. s \in Conns /\ s.ops \in [Ops -> {"none", "live", "dead"}]
      /\ s.cln_room \in Int /\ s.org_room \in Int
  BY DEF Mach, Conns
<1>2. v \in [Ops -> {"none", "live", "dead"}] /\ c \in Int /\ o \in Int
  BY <1>1
<1>3. Ends(s, op) = t
  BY <1>1 DEF Ends, Conns
<1>4. \A p \in Ops : v[p] # "none" => s.ops[p] # "none"
  BY <1>1
<1>5. v["org_recv"] # "none" => o = s.org_room
  BY <1>1 DEF Ops
<1> HIDE DEF v, c, o
<1>6. t \in Conns
  BY <1>1, <1>2 DEF Conns
<1>7. t.sm = s.sm /\ t.ops = v /\ t.org_room = o /\ t.bug = s.bug
      /\ t.cln_sending = s.cln_sending /\ t.org_sending = s.org_sending
  BY <1>1 DEF Conns
<1>8. Keep(s, t, {})
  BY <1>1 DEF Conns, Keep, Fields
<1> HIDE DEF t
<1>9. OpsOk(t) /\ Counts(t)
  <2>1. /\ t.client_pending = s.client_pending /\ t.origin_pending = s.origin_pending
        /\ t.client_rbuf_rdr = s.client_rbuf_rdr /\ t.origin_rbuf_rdr = s.origin_rbuf_rdr
        /\ t.client_recv = s.client_recv /\ t.origin_recv = s.origin_recv
        /\ t.org_cache_rdr = s.org_cache_rdr
    BY <1>8 DEF Keep, Fields
  <2>2. OpsOk(t)
    BY <1>4, <1>5, <1>7, <2>1 DEF Mach, OpsOk, Ops
  <2> QED
    BY <2>1, <2>2 DEF Mach, Counts
<1>10. Does(s, t, {}, {})
  BY <1>6, <1>7, <1>8, <1>9 DEF Does, Mach, Only
<1> QED
  BY <1>3, <1>7, <1>10 DEF v

\* Marks and sockets that are closed.
LEMMA PortsDoes ==
    ASSUME NEW s, Mach(s)
    PROVE  /\ Does(s, MarkHalfClosed(s), {}, {}) /\ MarkHalfClosed(s).sm = s.sm
           /\ MarkHalfClosed(s).ops = s.ops
           /\ Does(s, CloseCln(s), {}, {}) /\ CloseCln(s).sm = s.sm
           /\ CloseCln(s).ops = s.ops
           /\ Does(s, CloseOrg(s), {}, {}) /\ CloseOrg(s).sm = s.sm
           /\ CloseOrg(s).ops = s.ops
<1>1. s \in Conns
  BY DEF Mach
<1>2. /\ Does(s, MarkHalfClosed(s), {}, {}) /\ MarkHalfClosed(s).sm = s.sm
      /\ MarkHalfClosed(s).ops = s.ops
  <2> DEFINE t == [s EXCEPT !.half_closed = TRUE]
  <2>1. t \in Conns
    BY <1>1 DEF Conns
  <2>2. t.sm = s.sm /\ t.ops = s.ops /\ Given(t) = Given(s) /\ t.bug = s.bug
    BY <1>1 DEF Conns, Given
  <2>3. Keep(s, t, {})
    BY <1>1 DEF Conns, Keep, Fields
  <2>4. MarkHalfClosed(s) = t
    BY DEF MarkHalfClosed
  <2> HIDE DEF t
  <2> QED
    BY <2>1, <2>2, <2>3, <2>4, Updated DEF CountF
<1>3. /\ Does(s, CloseCln(s), {}, {}) /\ CloseCln(s).sm = s.sm
      /\ CloseCln(s).ops = s.ops
  <2> DEFINE t == [s EXCEPT !.cln_open = FALSE]
  <2>1. t \in Conns
    BY <1>1 DEF Conns
  <2>2. t.sm = s.sm /\ t.ops = s.ops /\ Given(t) = Given(s) /\ t.bug = s.bug
    BY <1>1 DEF Conns, Given
  <2>3. Keep(s, t, {})
    BY <1>1 DEF Conns, Keep, Fields
  <2>4. CloseCln(s) = t
    BY DEF CloseCln
  <2> HIDE DEF t
  <2> QED
    BY <2>1, <2>2, <2>3, <2>4, Updated DEF CountF
<1>4. /\ Does(s, CloseOrg(s), {}, {}) /\ CloseOrg(s).sm = s.sm
      /\ CloseOrg(s).ops = s.ops
  <2> DEFINE t == [s EXCEPT !.org_open = FALSE]
  <2>1. t \in Conns
    BY <1>1 DEF Conns
  <2>2. t.sm = s.sm /\ t.ops = s.ops /\ Given(t) = Given(s) /\ t.bug = s.bug
    BY <1>1 DEF Conns, Given
  <2>3. Keep(s, t, {})
    BY <1>1 DEF Conns, Keep, Fields
  <2>4. CloseOrg(s) = t
    BY DEF CloseOrg
  <2> HIDE DEF t
  <2> QED
    BY <2>1, <2>2, <2>3, <2>4, Updated DEF CountF
<1> QED
  BY <1>2, <1>3, <1>4

\* The step leaves a good connection, and the origin's bytes.
Kept(s, t) == Good(t) /\ t.bug = s.bug /\ t.origin_recv = s.origin_recv

\* A step of the connection that does so keeps the invariant.
LEMMA Lands ==
    ASSUME IInv, NEW t, Becomes(t), Good(conn) => Kept(conn, t)
    PROVE  IInv'
<1>1. conn' = t /\ Good(conn) /\ Kept(conn, t)
  BY DEF Becomes, IInv
<1>2. t.bug = {} /\ Good(t)
  BY <1>1 DEF IInv, Kept
<1>3. Intact(t)
  BY <1>1 DEF IInv, Kept, Intact
<1> QED
  BY <1>1, <1>2, <1>3 DEF IInv

\* A step that the invariant does not see, but for what is sent and to be sent.
LEMMA GoodSent ==
    ASSUME NEW s, Good(s), NEW t, NEW F, Does(s, t, {}, F),
           F \subseteq {"client_rbuf_rdr", "origin_rbuf_rdr", "client_pending",
                        "origin_pending"},
           ~s.tunnel => ToOrigin(t) = ToOrigin(s) /\ ToClient(t) = ToClient(s)
    PROVE  Kept(s, t) /\ (Online(s) => Online(t))
<1>1. /\ t.csm = s.csm /\ t.cache_op = s.cache_op /\ t.trans = s.trans
      /\ t.strm = s.strm /\ t.tunnel = s.tunnel /\ t.obj_at = s.obj_at
      /\ t.obj_len = s.obj_len /\ t.cache_offs = s.cache_offs
      /\ t.origin_recv = s.origin_recv /\ t.origin_rdr = s.origin_rdr
      /\ t.org_cache_rdr = s.org_cache_rdr /\ t.client_rdr = s.client_rdr
      /\ t.client_recv = s.client_recv /\ t.cln_script = s.cln_script
      /\ t.flags = s.flags /\ t.wrote = s.wrote /\ t.writing = s.writing
      /\ t.handle = s.handle
  BY DEF Does, Keep, Fields
<1>2. \A x : x \in t.sm <=> x \in s.sm
  BY DEF Does, Only
<1>3. Mach(t) /\ t.bug = s.bug
  BY DEF Does
<1>4. Steps(t)
  BY <1>1, <1>2 DEF Good, Steps, Up, ShutC, ShutO
<1>5. Served(t)
  BY <1>1 DEF Good, Served
<1>6. t.tunnel => /\ t.cache_op = "none" /\ t.wrote = <<>> /\ t.csm = "cache_closed"
                  /\ t.client_rdr = 0 /\ t.origin_rdr = 0
  BY <1>1 DEF Good
<1>7. ASSUME ~t.tunnel
      PROVE  Hand(t)
  <2>1. Hand(s)
    BY <1>1, <1>7 DEF Good
  <2>2. OpFits(t)
    BY <1>1, <2>1 DEF Hand, OpFits
  <2>3. Paused(t)
    BY <1>1, <1>2, <2>1 DEF Hand, Paused
  <2>4. Cached(t)
    BY <1>1, <1>2, <2>1 DEF Hand, Cached
  <2>5. Asked(t)
    BY <1>1, <1>2, <2>1 DEF Hand, Asked
  <2>6. Place(t)
    BY <1>1, <2>1 DEF Hand, Place
  <2>7. Bytes(t)
    BY <1>1, <2>1 DEF Hand, Bytes, Wrote
  <2>8. Entry(t)
    BY <1>1, <1>2, <2>1 DEF Hand, Entry
  <2>9. Waits(t)
    BY <1>1, <2>1 DEF Hand, Waits
  <2>10. Ledger(t)
    BY <1>1, <1>2, <1>7, <2>1 DEF Hand, Ledger
  <2> QED
    BY <2>2, <2>3, <2>4, <2>5, <2>6, <2>7, <2>8, <2>9, <2>10 DEF Hand
<1>8. Good(t)
  BY <1>3, <1>4, <1>5, <1>6, <1>7 DEF Good
<1>9. Online(s) => Online(t)
  BY <1>2, <1>3 DEF Online, Up
<1> QED
  BY <1>1, <1>3, <1>8, <1>9 DEF Kept

\* A step that the invariant does not see.
LEMMA GoodSame ==
    ASSUME NEW s, Good(s), NEW t, Does(s, t, {}, {})
    PROVE  Kept(s, t) /\ (Online(s) => Online(t))
<1>1. ToOrigin(t) = ToOrigin(s) /\ ToClient(t) = ToClient(s)
  BY DEF Does, Keep, Fields, ToOrigin, ToClient
<1> QED
  BY <1>1, GoodSent

\* An operation of a connection that is not yet connected has not been started.
LEMMA UpFor ==
    ASSUME NEW s, Good(s),
           NEW op \in {"org_recv", "org_send", "cln_recv", "cln_send"},
           s.ops[op] # "none"
    PROVE  op \in s.sm /\ Up(s.sm) /\ Online(s)
<1>1. op \in s.sm
  BY DEF Good, Mach, OpsOk
<1>2. Up(s.sm)
  <2>1. CASE op = "org_recv"
    BY <1>1, <2>1 DEF Good, Mach, Sm, One, In, ORecv, Up
  <2>2. CASE op = "org_send"
    <3>1. "org_send_start" \notin s.sm /\ "org_send_conn" \notin s.sm
      BY <1>1, <2>2 DEF Good, Mach, Sm, One, In, OSend
    <3> QED
      BY <3>1 DEF Good, Steps, Up
  <2>3. CASE op = "cln_recv"
    <3>1. "cln_recv_idle" \notin s.sm
      BY <1>1, <2>3 DEF Good, Mach, Sm, One, In, CRecv
    <3> QED
      BY <3>1 DEF Good, Steps
  <2>4. CASE op = "cln_send"
    <3>1. "cln_send_idle" \notin s.sm
      BY <1>1, <2>4 DEF Good, Mach, Sm, One, In, CSend
    <3> QED
      BY <3>1 DEF Good, Steps
  <2> QED
    BY <2>1, <2>2, <2>3, <2>4
<1> QED
  BY <1>1, <1>2, GoodOnline

\* The end of an operation, before its callback does anything.
LEMMA CompletedKept ==
    ASSUME NEW s, Good(s), NEW op \in Ops
    PROVE  LET t == Ends(s, op) IN
           /\ Kept(s, t) /\ Does(s, t, {}, {}) /\ t.sm = s.sm /\ t.ops[op] = "none"
           /\ t.bug = s.bug /\ \A o \in Ops \ {op} : t.ops[o] = s.ops[o]
<1>1. s.ops \in [Ops -> {"none", "live", "dead"}]
  BY DEF Good, Mach, Conns
<1>2. LET t == Ends(s, op) IN
      /\ Does(s, t, {}, {}) /\ t.sm = s.sm /\ t.bug = s.bug
      /\ t.ops = [s.ops EXCEPT ![op] = "none"]
  BY EndsDoes DEF Good
<1> QED
  BY <1>1, <1>2, GoodSame

\* An operation that ends because its socket was closed.
LEMMA StepAborted ==
    ASSUME IInv, \/ ConnectFails \/ ClnRecvAborted \/ ClnSendAborted
                 \/ OrgRecvAborted \/ OrgSendAborted
    PROVE  IInv'
<1>1. \E op \in Ops : Becomes(Ends(conn, op))
  BY DEF ConnectFails, ClnRecvAborted, ClnSendAborted, OrgRecvAborted,
         OrgSendAborted, Aborted, Completed, Ends, Ops
<1>2. PICK op \in Ops : Becomes(Ends(conn, op))
  BY <1>1
<1>3. Good(conn) => Kept(conn, Ends(conn, op))
  BY CompletedKept
<1> QED
  BY <1>2, <1>3, Lands

\* The check of the half closed connections.
LEMMA StepCheckHalfClosed ==
    ASSUME IInv, CheckHalfClosed
    PROVE  IInv'
<1> DEFINE m == [conn EXCEPT !.moved = FALSE]
           a == CloseCln(conn)
           c == CloseOrg(a)
<1>1. SUFFICES ASSUME Good(conn)
               PROVE  Kept(conn, m) /\ Kept(conn, c)
  BY Lands DEF CheckHalfClosed
<1>2. conn \in Conns /\ Mach(conn)
  BY <1>1 DEF Good, Mach
<1>3. Does(conn, m, {}, {})
  <2>1. m \in Conns
    BY <1>2 DEF Conns
  <2>2. m.sm = conn.sm /\ m.ops = conn.ops /\ Given(m) = Given(conn)
        /\ m.bug = conn.bug
    BY <1>2 DEF Conns, Given
  <2>3. Keep(conn, m, {})
    BY <1>2 DEF Conns, Keep, Fields
  <2> QED
    BY <1>2, <2>1, <2>2, <2>3, Updated DEF CountF
<1>4. Does(conn, a, {}, {})
  BY <1>2, PortsDoes
<1>5. Does(a, c, {}, {})
  BY <1>4, PortsDoes DEF Does
<1>6. Does(conn, c, {}, {})
  BY <1>4, <1>5 DEF Does, Only, Keep
<1> QED
  BY <1>1, <1>3, <1>6, GoodSame

\* Two methods one after the other.
LEMMA LeftBoth ==
    ASSUME NEW s, NEW t, NEW u, Left(s, t), Left(t, u)
    PROVE  Left(s, u)
  BY DEF Left

\* A method keeps the invariant.
LEMMA LeftKept ==
    ASSUME NEW s, NEW t, Left(s, t)
    PROVE  Kept(s, t)
  BY DEF Left, Kept

\* A step of the machine that leaves what the invariant is about.
LEMMA LeftStep ==
    ASSUME NEW s, Good(s), Up(s.sm), NEW t, NEW X, Does(s, t, X, {}),
           X \cap Marks = {}, Quiet(s, t)
    PROVE  Left(s, t)
<1>1. t.flags = s.flags /\ t.origin_recv = s.origin_recv
  BY DEF Does, Keep, Fields
<1>2. Good(t) /\ Online(t)
  BY <1>1, GoodKept
<1> QED
  BY <1>1, <1>2 DEF Left, Does

\* The events that only start an operation or close a side.
LEMMA LeftEvents ==
    ASSUME NEW s, Good(s), Up(s.sm)
    PROVE  /\ Left(s, ProcessEvent(s, "cln_send"))
           /\ Left(s, ProcessEvent(s, "cln_recv"))
           /\ Left(s, ProcessEvent(s, "org_send"))
           /\ Left(s, ProcessEvent(s, "org_recv"))
           /\ Left(s, ProcessEvent(s, "cln_close"))
           /\ Left(s, ProcessEvent(s, "org_close"))
<1> Online(s) /\ Mach(s)
  BY GoodOnline DEF Online
<1>1. Left(s, ProcessEvent(s, "cln_send"))
  <2> DEFINE t == ProcessEvent(s, "cln_send")
             X == {"cln_send", "cln_send_idle"}
  <2>1. Does(s, t, X, {})
    BY EvClnSend
  <2> HIDE DEF t
  <2>2. Quiet(s, t)
    BY <2>1, QuietKept DEF ClnEndX, OrgEndX
  <2>3. X \cap Marks = {}
    BY DEF Marks
  <2> HIDE DEF X
  <2> QED
    BY <2>1, <2>2, <2>3, LeftStep DEF t
<1>2. Left(s, ProcessEvent(s, "cln_recv"))
  <2> DEFINE t == ProcessEvent(s, "cln_recv")
             X == {"cln_recv", "cln_recv_idle"}
  <2>1. Does(s, t, X, {})
    BY EvClnRecv
  <2> HIDE DEF t
  <2>2. Quiet(s, t)
    BY <2>1, QuietKept DEF ClnEndX, OrgEndX
  <2>3. X \cap Marks = {}
    BY DEF Marks
  <2> HIDE DEF X
  <2> QED
    BY <2>1, <2>2, <2>3, LeftStep DEF t
<1>3. Left(s, ProcessEvent(s, "org_send"))
  <2> DEFINE t == ProcessEvent(s, "org_send")
             X == {"org_send", "org_send_idle"}
  <2>1. Does(s, t, X, {})
    BY EvOrgSend DEF Online
  <2> HIDE DEF t
  <2>2. Quiet(s, t)
    BY <2>1, QuietKept DEF ClnEndX, OrgEndX
  <2>3. X \cap Marks = {}
    BY DEF Marks
  <2> HIDE DEF X
  <2> QED
    BY <2>1, <2>2, <2>3, LeftStep DEF t
<1>4. Left(s, ProcessEvent(s, "org_recv"))
  <2> DEFINE t == ProcessEvent(s, "org_recv")
             X == {"org_recv", "org_recv_idle"}
  <2>1. Does(s, t, X, {})
    BY EvOrgRecv
  <2> HIDE DEF t
  <2>2. Quiet(s, t)
    BY <2>1, QuietKept DEF ClnEndX, OrgEndX
  <2>3. X \cap Marks = {}
    BY DEF Marks
  <2> HIDE DEF X
  <2> QED
    BY <2>1, <2>2, <2>3, LeftStep DEF t
<1>5. Left(s, ProcessEvent(s, "cln_close"))
  <2> DEFINE t == ProcessEvent(s, "cln_close")
             X == ClnEndX
  <2>1. Does(s, t, X, {}) /\ (ShutC(t.sm) => ShutC(s.sm))
    BY EvClnClose DEF ClnEndX
  <2> HIDE DEF t
  <2>2. Quiet(s, t)
    BY <2>1 DEF Quiet, Does, Only, ShutO, ClnEndX
  <2>3. X \cap Marks = {}
    BY DEF Marks, ClnEndX
  <2> HIDE DEF X
  <2> QED
    BY <2>1, <2>2, <2>3, LeftStep DEF t
<1>6. Left(s, ProcessEvent(s, "org_close"))
  <2> DEFINE t == ProcessEvent(s, "org_close")
             X == OrgEndX
  <2>1. Does(s, t, X, {}) /\ (ShutO(t.sm) => ShutO(s.sm))
    BY EvOrgClose DEF OrgEndX
  <2> HIDE DEF t
  <2>2. Quiet(s, t)
    BY <2>1 DEF Quiet, Does, Only, ShutC, OrgEndX
  <2>3. X \cap Marks = {}
    BY DEF Marks, OrgEndX
  <2> HIDE DEF X
  <2> QED
    BY <2>1, <2>2, <2>3, LeftStep DEF t
<1> QED
  BY <1>1, <1>2, <1>3, <1>4, <1>5, <1>6

\* Nothing the invariant is about is done.
LEMMA LeftSame ==
    ASSUME NEW s, Good(s), Up(s.sm), NEW t, Does(s, t, {}, {})
    PROVE  Left(s, t)
<1>1. Kept(s, t) /\ Online(t)
  BY GoodSame, GoodOnline
<1> QED
  BY <1>1 DEF Kept, Left

\* on_cln_sent.
LEMMA StepClnSent ==
    ASSUME IInv, ClnSent
    PROVE  IInv'
<1> DEFINE e == Ends(conn, "cln_send")
           c == Check(e, conn.client_pending >= conn.cln_sending, "client sent")
           x == conn.client_pending - conn.cln_sending
           y == conn.origin_rbuf_rdr + conn.cln_sending
           z == 0
           d == [e EXCEPT !.client_pending = x, !.origin_rbuf_rdr = y, !.cln_sending = z]
           v == [c EXCEPT !.client_pending = @ - conn.cln_sending,
                          !.origin_rbuf_rdr = @ + conn.cln_sending,
                          !.cln_sending = 0]
           f == ProcessEvent(v, "cln_sent_data")
           g == ProcessEvent(f, "cln_send")
           t == ProcessEvent(g, "org_recv")
<1>1. Becomes(t) /\ conn.ops["cln_send"] # "none"
  BY DEF ClnSent, Completed, Ends, ProcessEvents
<1>2. SUFFICES ASSUME Good(conn)
               PROVE  Kept(conn, t)
  BY <1>1, Lands
<1>3. "cln_send" \in conn.sm /\ Up(conn.sm)
  BY <1>1, <1>2, UpFor
<1>4. /\ Left(conn, e) /\ e.sm = conn.sm /\ e.ops["cln_send"] = "none"
      /\ Does(conn, e, {}, {})
  <2>1. Does(conn, e, {}, {}) /\ e.sm = conn.sm /\ e.ops["cln_send"] = "none"
    BY <1>2, CompletedKept DEF Ops
  <2> QED
    BY <1>2, <1>3, <2>1, LeftSame
<1>5. /\ conn \in Conns /\ e \in Conns /\ Mach(e) /\ Good(e) /\ Up(e.sm)
      /\ conn.client_pending \in Int /\ conn.origin_rbuf_rdr \in Int /\ conn.cln_sending \in Int
      /\ 0 <= conn.cln_sending /\ conn.cln_sending <= conn.client_pending
  <2>1. conn \in Conns /\ OpsOk(conn) /\ Mach(e) /\ Good(e) /\ Up(e.sm)
    BY <1>2, <1>4 DEF Left, Good, Online, Mach
  <2>2. conn.client_pending \in Int /\ conn.origin_rbuf_rdr \in Int /\ conn.cln_sending \in Int
    BY <2>1 DEF Conns
  <2> QED
    BY <1>1, <2>1, <2>2 DEF OpsOk, Mach
<1>6. e.client_pending = conn.client_pending /\ e.origin_rbuf_rdr = conn.origin_rbuf_rdr
  BY <1>4 DEF Does, Keep, Fields
<1> HIDE DEF e
<1>7. c = e
  BY <1>5 DEF Check
<1>14. v = d
  BY <1>5, <1>6, <1>7 DEF Conns
<1> HIDE DEF v, c
<1>15. z \in Int /\ x \in Int /\ y \in Int /\ 0 <= x /\ x + y = conn.client_pending + conn.origin_rbuf_rdr
       /\ y >= conn.origin_rbuf_rdr
  BY <1>5
<1> HIDE DEF x, y, z
<1>8. /\ d \in Conns /\ d.sm = e.sm /\ d.ops = e.ops /\ d.bug = e.bug
      /\ d.client_pending = x /\ d.origin_rbuf_rdr = y /\ d.org_room = e.org_room
      /\ d.org_sending = e.org_sending /\ Keep(e, d, {"client_pending", "origin_rbuf_rdr"})
  <2>1. d \in Conns
    BY <1>5, <1>15 DEF Conns
  <2>2. /\ d.sm = e.sm /\ d.ops = e.ops /\ d.bug = e.bug
        /\ d.client_pending = x /\ d.origin_rbuf_rdr = y /\ d.org_room = e.org_room
        /\ d.org_sending = e.org_sending
    BY <1>5 DEF Conns
  <2>3. Keep(e, d, {"client_pending", "origin_rbuf_rdr"})
    BY <1>5 DEF Conns, Keep, Fields
  <2> QED
    BY <2>1, <2>2, <2>3
<1> HIDE DEF d
<1>9. Left(e, d) /\ Does(e, d, {}, {"client_pending", "origin_rbuf_rdr"})
  <2> DEFINE F == {"client_pending", "origin_rbuf_rdr"}
  <2>1. /\ d.client_recv = e.client_recv /\ d.origin_recv = e.origin_recv
        /\ d.org_cache_rdr = e.org_cache_rdr
        /\ d.origin_pending = e.origin_pending
        /\ d.client_rbuf_rdr = e.client_rbuf_rdr
    BY <1>8 DEF Keep, Fields
  <2>2. OpsOk(d)
    BY <1>4, <1>5, <1>8, <2>1 DEF Mach, OpsOk
  <2>3. Counts(d)
    BY <1>5, <1>6, <1>8, <1>15, <2>1 DEF Mach, Counts
  <2>4. Does(e, d, {}, F)
    BY <1>5, <1>8, <2>2, <2>3 DEF Does, Mach, Only
  <2>5. ToOrigin(d) = ToOrigin(e) /\ ToClient(d) = ToClient(e)
    BY <1>5, <1>6, <1>8, <1>15, <2>1 DEF ToOrigin, ToClient
  <2>6. Kept(e, d) /\ (Online(e) => Online(d))
    BY <1>5, <2>4, <2>5, GoodSent
  <2> QED
    BY <1>5, <2>4, <2>6, GoodOnline DEF Kept, Left
<1>10. Good(d) /\ Mach(d) /\ Up(d.sm) /\ "cln_send" \in d.sm
       /\ d.ops["cln_send"] = "none"
  BY <1>3, <1>4, <1>8, <1>9 DEF Left, Good, Online
<1>11. Left(d, f)
  <2> DEFINE X == {"cln_closed", "cln_pend_close", "cln_pend_shut", "cln_send",
                   "cln_send_idle", "cln_send_shut"}
  <2>1. Does(d, f, X, {}) /\ (ShutC(f.sm) => ShutC(d.sm))
    BY <1>10, <1>14, EvClnSentData
  <2> HIDE DEF f
  <2>2. Quiet(d, f)
    BY <2>1 DEF Quiet, Does, Only, ShutO
  <2>3. X \cap Marks = {}
    BY DEF Marks
  <2> HIDE DEF X
  <2> QED
    BY <1>10, <2>1, <2>2, <2>3, LeftStep
<1> HIDE DEF f
<1>12. Left(f, g)
  BY <1>11, LeftEvents DEF Left, Online
<1> HIDE DEF g
<1>13. Left(g, t)
  BY <1>12, LeftEvents DEF Left, Online
<1> HIDE DEF t
<1> QED
  BY <1>4, <1>9, <1>11, <1>12, <1>13 DEF Left, Kept

\* on_org_sent.
LEMMA StepOrgSent ==
    ASSUME IInv, OrgSent
    PROVE  IInv'
<1> DEFINE e == Ends(conn, "org_send")
           c == Check(e, conn.origin_pending >= conn.org_sending, "origin sent")
           x == conn.origin_pending - conn.org_sending
           y == conn.client_rbuf_rdr + conn.org_sending
           z == 0
           d == [e EXCEPT !.origin_pending = x, !.client_rbuf_rdr = y, !.org_sending = z]
           v == [c EXCEPT !.origin_pending = @ - conn.org_sending,
                          !.client_rbuf_rdr = @ + conn.org_sending,
                          !.org_sending = 0]
           f == ProcessEvent(v, "org_sent_data")
           g == ProcessEvent(f, "org_send")
           t == ProcessEvent(g, "cln_recv")
<1>1. Becomes(t) /\ conn.ops["org_send"] # "none"
  BY DEF OrgSent, Completed, Ends, ProcessEvents
<1>2. SUFFICES ASSUME Good(conn)
               PROVE  Kept(conn, t)
  BY <1>1, Lands
<1>3. "org_send" \in conn.sm /\ Up(conn.sm)
  BY <1>1, <1>2, UpFor
<1>4. /\ Left(conn, e) /\ e.sm = conn.sm /\ e.ops["org_send"] = "none"
      /\ Does(conn, e, {}, {})
  <2>1. Does(conn, e, {}, {}) /\ e.sm = conn.sm /\ e.ops["org_send"] = "none"
    BY <1>2, CompletedKept DEF Ops
  <2> QED
    BY <1>2, <1>3, <2>1, LeftSame
<1>5. /\ conn \in Conns /\ e \in Conns /\ Mach(e) /\ Good(e) /\ Up(e.sm)
      /\ conn.origin_pending \in Int /\ conn.client_rbuf_rdr \in Int /\ conn.org_sending \in Int
      /\ 0 <= conn.org_sending /\ conn.org_sending <= conn.origin_pending
  <2>1. conn \in Conns /\ OpsOk(conn) /\ Mach(e) /\ Good(e) /\ Up(e.sm)
    BY <1>2, <1>4 DEF Left, Good, Online, Mach
  <2>2. conn.origin_pending \in Int /\ conn.client_rbuf_rdr \in Int /\ conn.org_sending \in Int
    BY <2>1 DEF Conns
  <2> QED
    BY <1>1, <2>1, <2>2 DEF OpsOk, Mach
<1>6. e.origin_pending = conn.origin_pending /\ e.client_rbuf_rdr = conn.client_rbuf_rdr
  BY <1>4 DEF Does, Keep, Fields
<1> HIDE DEF e
<1>7. c = e
  BY <1>5 DEF Check
<1>14. v = d
  BY <1>5, <1>6, <1>7 DEF Conns
<1> HIDE DEF v, c
<1>15. z \in Int /\ x \in Int /\ y \in Int /\ 0 <= x /\ x + y = conn.origin_pending + conn.client_rbuf_rdr
       /\ y >= conn.client_rbuf_rdr
  BY <1>5
<1> HIDE DEF x, y, z
<1>8. /\ d \in Conns /\ d.sm = e.sm /\ d.ops = e.ops /\ d.bug = e.bug
      /\ d.origin_pending = x /\ d.client_rbuf_rdr = y /\ d.org_room = e.org_room
      /\ d.cln_sending = e.cln_sending /\ Keep(e, d, {"origin_pending", "client_rbuf_rdr"})
  <2>1. d \in Conns
    BY <1>5, <1>15 DEF Conns
  <2>2. /\ d.sm = e.sm /\ d.ops = e.ops /\ d.bug = e.bug
        /\ d.origin_pending = x /\ d.client_rbuf_rdr = y /\ d.org_room = e.org_room
        /\ d.cln_sending = e.cln_sending
    BY <1>5 DEF Conns
  <2>3. Keep(e, d, {"origin_pending", "client_rbuf_rdr"})
    BY <1>5 DEF Conns, Keep, Fields
  <2> QED
    BY <2>1, <2>2, <2>3
<1> HIDE DEF d
<1>9. Left(e, d) /\ Does(e, d, {}, {"origin_pending", "client_rbuf_rdr"})
  <2> DEFINE F == {"origin_pending", "client_rbuf_rdr"}
  <2>1. /\ d.client_recv = e.client_recv /\ d.origin_recv = e.origin_recv
        /\ d.org_cache_rdr = e.org_cache_rdr
        /\ d.client_pending = e.client_pending
        /\ d.origin_rbuf_rdr = e.origin_rbuf_rdr
    BY <1>8 DEF Keep, Fields
  <2>2. OpsOk(d)
    BY <1>4, <1>5, <1>8, <2>1 DEF Mach, OpsOk
  <2>3. Counts(d)
    BY <1>5, <1>6, <1>8, <1>15, <2>1 DEF Mach, Counts
  <2>4. Does(e, d, {}, F)
    BY <1>5, <1>8, <2>2, <2>3 DEF Does, Mach, Only
  <2>5. ToOrigin(d) = ToOrigin(e) /\ ToClient(d) = ToClient(e)
    BY <1>5, <1>6, <1>8, <1>15, <2>1 DEF ToOrigin, ToClient
  <2>6. Kept(e, d) /\ (Online(e) => Online(d))
    BY <1>5, <2>4, <2>5, GoodSent
  <2> QED
    BY <1>5, <2>4, <2>6, GoodOnline DEF Kept, Left
<1>10. Good(d) /\ Mach(d) /\ Up(d.sm) /\ "org_send" \in d.sm
       /\ d.ops["org_send"] = "none"
  BY <1>3, <1>4, <1>8, <1>9 DEF Left, Good, Online
<1>11. Left(d, f)
  <2> DEFINE X == {"org_closed", "org_pend_close", "org_pend_shut", "org_send",
                   "org_send_idle", "org_send_shut"}
  <2>1. Does(d, f, X, {}) /\ (ShutO(f.sm) => ShutO(d.sm))
    BY <1>10, <1>14, EvOrgSentData
  <2> HIDE DEF f
  <2>2. Quiet(d, f)
    BY <2>1 DEF Quiet, Does, Only, ShutC
  <2>3. X \cap Marks = {}
    BY DEF Marks
  <2> HIDE DEF X
  <2> QED
    BY <1>10, <2>1, <2>2, <2>3, LeftStep
<1> HIDE DEF f
<1>12. Left(f, g)
  BY <1>11, LeftEvents DEF Left, Online
<1> HIDE DEF g
<1>13. Left(g, t)
  BY <1>12, LeftEvents DEF Left, Online
<1> HIDE DEF t
<1> QED
  BY <1>4, <1>9, <1>11, <1>12, <1>13 DEF Left, Kept

\* The end of an operation of a connection that is connected.
LEMMA EndsLeft ==
    ASSUME NEW s, Good(s),
           NEW op \in {"org_recv", "org_send", "cln_recv", "cln_send"},
           s.ops[op] # "none"
    PROVE  LET t == Ends(s, op) IN
           /\ Left(s, t) /\ Does(s, t, {}, {}) /\ t.sm = s.sm
           /\ op \in t.sm /\ t.ops[op] = "none" /\ Mach(t) /\ Up(t.sm)
<1> DEFINE t == Ends(s, op)
<1>1. op \in s.sm /\ Up(s.sm)
  BY UpFor
<1>2. Does(s, t, {}, {}) /\ t.sm = s.sm /\ t.ops[op] = "none"
  BY CompletedKept DEF Ops
<1> HIDE DEF t
<1>3. Left(s, t)
  BY <1>1, <1>2, LeftSame
<1> QED
  BY <1>1, <1>2, <1>3 DEF Does, t

\* A side is broken: the other one is closed.
LEMMA BreaksLeft ==
    ASSUME NEW s, Good(s), Up(s.sm)
    PROVE  Left(s, ClnBreak(s)) /\ Left(s, OrgBreak(s))
<1>1. CASE s.tunnel
  BY <1>1, LeftEvents DEF ClnBreak, OrgBreak
<1>2. CASE ~s.tunnel
  BY <1>2, GoodTunnels DEF ClnBreak, OrgBreak
<1> QED
  BY <1>1, <1>2

\* A socket is closed, or the connection marked.
LEMMA PortsLeft ==
    ASSUME NEW s, Good(s), Up(s.sm)
    PROVE  /\ Left(s, CloseCln(s)) /\ Left(s, CloseOrg(s))
           /\ Left(s, MarkHalfClosed(s))
<1>1. Mach(s)
  BY DEF Good
<1> QED
  BY <1>1, PortsDoes, LeftSame

\* What a method leaves is good and connected.
LEMMA LeftUp ==
    ASSUME NEW s, NEW t, Left(s, t)
    PROVE  Good(t) /\ Up(t.sm) /\ Mach(t)
  BY DEF Left, Good, Online

\* The client's socket failed.
LEMMA StepClnBroken ==
    ASSUME IInv, ClnRecvErr \/ ClnSendErr
    PROVE  IInv'
<1>1. \E op \in {"cln_recv", "cln_send"}, ev \in {"cln_recv_err", "cln_sent_err"} :
        (op = "cln_recv" <=> ev = "cln_recv_err") /\ ClnBroken(op, ev)
  BY DEF ClnRecvErr, ClnSendErr
<1>2. PICK op \in {"cln_recv", "cln_send"}, ev \in {"cln_recv_err", "cln_sent_err"} :
        (op = "cln_recv" <=> ev = "cln_recv_err") /\ ClnBroken(op, ev)
  BY <1>1
<1> DEFINE e == Ends(conn, op)
           f == ProcessEvent(e, ev)
           g == CloseCln(f)
           h == MarkHalfClosed(g)
           t == ClnBreak(h)
<1>3. Becomes(t) /\ conn.ops[op] # "none"
  BY <1>2 DEF ClnBroken, Completed, Ends
<1>4. SUFFICES ASSUME Good(conn)
               PROVE  Kept(conn, t)
  BY <1>3, Lands
<1>5. Left(conn, e) /\ Mach(e) /\ op \in e.sm /\ e.ops[op] = "none"
  BY <1>3, <1>4, EndsLeft
<1> HIDE DEF e
<1>6. Left(e, f)
  <2>1. CASE op = "cln_recv"
    <3> DEFINE X == {"cln_recv", "cln_recv_err"}
    <3>1. Does(e, f, X, {})
      BY <1>2, <1>5, <2>1, EvClnRecvErr
    <3> HIDE DEF f
    <3>2. Quiet(e, f) /\ X \cap Marks = {}
      BY <3>1 DEF Quiet, Does, Only, ShutO, ShutC, Marks
    <3> HIDE DEF X
    <3> QED
      BY <1>5, <3>1, <3>2, LeftUp, LeftStep
  <2>2. CASE op = "cln_send"
    <3> DEFINE X == {"cln_send", "cln_send_err"}
    <3>1. Does(e, f, X, {})
      BY <1>2, <1>5, <2>2, EvClnSentErr
    <3> HIDE DEF f
    <3>2. Quiet(e, f) /\ X \cap Marks = {}
      BY <3>1 DEF Quiet, Does, Only, ShutO, ShutC, Marks
    <3> HIDE DEF X
    <3> QED
      BY <1>5, <3>1, <3>2, LeftUp, LeftStep
  <2> QED
    BY <2>1, <2>2
<1> HIDE DEF f
<1>7. Left(f, g)
  BY <1>6, LeftUp, PortsLeft
<1> HIDE DEF g
<1>8. Left(g, h)
  BY <1>7, LeftUp, PortsLeft
<1> HIDE DEF h
<1>9. Left(h, t)
  BY <1>8, LeftUp, BreaksLeft
<1> HIDE DEF t
<1> QED
  BY <1>5, <1>6, <1>7, <1>8, <1>9 DEF Left, Kept

\* The origin's socket failed.
LEMMA StepOrgBroken ==
    ASSUME IInv, OrgRecvErr \/ OrgSendErr
    PROVE  IInv'
<1>1. \E op \in {"org_recv", "org_send"}, ev \in {"org_recv_err", "org_sent_err"} :
        (op = "org_recv" <=> ev = "org_recv_err") /\ OrgBroken(op, ev)
  BY DEF OrgRecvErr, OrgSendErr
<1>2. PICK op \in {"org_recv", "org_send"}, ev \in {"org_recv_err", "org_sent_err"} :
        (op = "org_recv" <=> ev = "org_recv_err") /\ OrgBroken(op, ev)
  BY <1>1
<1> DEFINE e == Ends(conn, op)
           f == ProcessEvent(e, ev)
           g == CloseOrg(f)
           h == MarkHalfClosed(g)
           t == OrgBreak(h)
<1>3. Becomes(t) /\ conn.ops[op] # "none"
  BY <1>2 DEF OrgBroken, Completed, Ends
<1>4. SUFFICES ASSUME Good(conn)
               PROVE  Kept(conn, t)
  BY <1>3, Lands
<1>5. Left(conn, e) /\ Mach(e) /\ op \in e.sm /\ e.ops[op] = "none"
  BY <1>3, <1>4, EndsLeft
<1> HIDE DEF e
<1>6. Left(e, f)
  <2>1. CASE op = "org_recv"
    <3> DEFINE X == {"org_recv", "org_recv_err"}
    <3>1. Does(e, f, X, {})
      BY <1>2, <1>5, <2>1, EvOrgRecvErr
    <3> HIDE DEF f
    <3>2. Quiet(e, f) /\ X \cap Marks = {}
      BY <3>1 DEF Quiet, Does, Only, ShutO, ShutC, Marks
    <3> HIDE DEF X
    <3> QED
      BY <1>5, <3>1, <3>2, LeftUp, LeftStep
  <2>2. CASE op = "org_send"
    <3> DEFINE X == {"org_send", "org_send_err"}
    <3>1. Does(e, f, X, {})
      BY <1>2, <1>5, <2>2, EvOrgSentErr
    <3> HIDE DEF f
    <3>2. Quiet(e, f) /\ X \cap Marks = {}
      BY <3>1 DEF Quiet, Does, Only, ShutO, ShutC, Marks
    <3> HIDE DEF X
    <3> QED
      BY <1>5, <3>1, <3>2, LeftUp, LeftStep
  <2> QED
    BY <2>1, <2>2
<1> HIDE DEF f
<1>7. Left(f, g)
  BY <1>6, LeftUp, PortsLeft
<1> HIDE DEF g
<1>8. Left(g, h)
  BY <1>7, LeftUp, PortsLeft
<1> HIDE DEF h
<1>9. Left(h, t)
  BY <1>8, LeftUp, BreaksLeft
<1> HIDE DEF t
<1> QED
  BY <1>5, <1>6, <1>7, <1>8, <1>9 DEF Left, Kept

\* A step of the connection before anything is received.
LEMMA GoodSteps ==
    ASSUME NEW s, Good(s), NEW t, NEW X, NEW F, Does(s, t, X, F),
           X \cap {"org_recv_paused", "org_recv_eof", "cln_recv_eof"} = {}, F \subseteq {"flags"},
           t.flags \in {s.flags, s.flags \cup {"bpctrl_added"}},
           "org_recv_start" \notin t.sm =>
                "org_recv_start" \notin s.sm \/ "bpctrl_added" \in t.flags,
           Steps(t)
    PROVE  Good(t)
<1>1. /\ t.csm = s.csm /\ t.cache_op = s.cache_op /\ t.trans = s.trans
      /\ t.strm = s.strm /\ t.tunnel = s.tunnel /\ t.obj_at = s.obj_at
      /\ t.obj_len = s.obj_len /\ t.cache_offs = s.cache_offs
      /\ t.origin_recv = s.origin_recv /\ t.origin_rdr = s.origin_rdr
      /\ t.org_cache_rdr = s.org_cache_rdr /\ t.client_rdr = s.client_rdr
      /\ t.client_recv = s.client_recv /\ t.cln_script = s.cln_script
      /\ t.wrote = s.wrote /\ t.writing = s.writing /\ t.handle = s.handle
      /\ t.client_rbuf_rdr = s.client_rbuf_rdr /\ t.origin_rbuf_rdr = s.origin_rbuf_rdr
      /\ t.client_pending = s.client_pending /\ t.origin_pending = s.origin_pending
  BY DEF Does, Keep, Fields
<1>2. \A x \in {"org_recv_paused", "org_recv_eof", "cln_recv_eof"} : x \in t.sm <=> x \in s.sm
  BY DEF Does, Only
<1>3. Mach(t)
  BY DEF Does
<1>5. Served(t)
  BY <1>1 DEF Good, Served
<1>6. t.tunnel => /\ t.cache_op = "none" /\ t.wrote = <<>> /\ t.csm = "cache_closed"
                  /\ t.client_rdr = 0 /\ t.origin_rdr = 0
  BY <1>1 DEF Good
<1>7. ASSUME ~t.tunnel
      PROVE  Hand(t)
  <2>1. Hand(s)
    BY <1>1, <1>7 DEF Good
  <2>2. OpFits(t)
    BY <1>1, <2>1 DEF Hand, OpFits
  <2>3. Paused(t)
    BY <1>1, <1>2, <2>1 DEF Hand, Paused
  <2>4. Cached(t)
    BY <1>1, <1>2, <2>1 DEF Hand, Cached
  <2>5. Asked(t)
    BY <1>1, <1>2, <2>1 DEF Hand, Asked
  <2>6. Place(t)
    BY <1>1, <2>1 DEF Hand, Place
  <2>7. Bytes(t)
    BY <1>1, <2>1 DEF Hand, Bytes, Wrote
  <2>8. Entry(t)
    BY <1>1, <2>1 DEF Hand, Entry
  <2>9. Waits(t)
    BY <1>1, <2>1 DEF Hand, Waits
  <2>10. Ledger(t)
    BY <1>1, <1>2, <2>1 DEF Hand, Ledger, ToOrigin, ToClient
  <2> QED
    BY <2>2, <2>3, <2>4, <2>5, <2>6, <2>7, <2>8, <2>9, <2>10 DEF Hand
<1> QED
  BY <1>3, <1>5, <1>6, <1>7 DEF Good

\* on_org_connected.
LEMMA StepConnected ==
    ASSUME IInv, Connected
    PROVE  IInv'
<1> DEFINE e == Ends(conn, "connect")
           f == ProcessEvent(e, "org_connected")
           g == ProcessEvent(f, "cln_recv")
           t == ProcessEvent(g, "org_recv")
<1>1. Becomes(t) /\ conn.ops["connect"] # "none"
  BY DEF Connected, Completed, Ends, ProcessEvents
<1>2. SUFFICES ASSUME Good(conn)
               PROVE  Kept(conn, t)
  BY <1>1, Lands
<1>3. "org_recv_conn" \in conn.sm
  BY <1>1, <1>2 DEF Good, Mach, OpsOk
<1>4. /\ Kept(conn, e) /\ Does(conn, e, {}, {}) /\ e.sm = conn.sm
      /\ e.ops["connect"] = "none"
  BY <1>2, CompletedKept DEF Ops
<1> HIDE DEF e
<1>5. Good(e) /\ Mach(e) /\ "org_recv_conn" \in e.sm /\ Steps(e)
  BY <1>3, <1>4 DEF Kept, Good
<1> DEFINE X == {"org_recv_conn", "org_recv_idle", "org_send_conn", "org_send_idle"}
<1>6. /\ Does(e, f, X, {}) /\ "org_recv_conn" \notin f.sm
      /\ "org_send_conn" \in e.sm => "org_send_conn" \notin f.sm
  BY <1>4, <1>5, EvOrgConnected
<1> HIDE DEF f
<1>7. "org_recv_start" \notin e.sm
  BY <1>5 DEF Mach, Sm, One, In, ORecv
<1>8. Up(f.sm)
  BY <1>6, <1>7 DEF Up, Does, Only
<1>9. Steps(f)
  <2>1. \A x \in {"org_recv_start", "org_send_start"} : x \notin f.sm
    BY <1>5, <1>6, <1>7 DEF Does, Only, Steps
  <2>2. "org_send_conn" \notin f.sm
    BY <1>5, <1>6 DEF Steps
  <2>3. (ShutC(f.sm) => ShutC(e.sm)) /\ (ShutO(f.sm) => ShutO(e.sm))
        /\ \A x \in Eofs : x \in f.sm <=> x \in e.sm
    BY <1>6 DEF Does, Only, ShutO, ShutC, Eofs
  <2> QED
    BY <1>5, <1>6, <1>8, <2>1, <2>2, <2>3 DEF Steps, Eofs
<1>10. Good(f)
  <2>1. X \cap {"org_recv_paused", "org_recv_eof", "cln_recv_eof"} = {}
    OBVIOUS
  <2> HIDE DEF X
  <2>2. f.flags = e.flags
    BY <1>6 DEF Does, Keep, Fields
  <2> QED
    BY <1>5, <1>6, <1>7, <1>9, <2>1, <2>2, GoodSteps
<1>11. Kept(e, f)
  BY <1>6, <1>10 DEF Kept, Does, Keep, Fields
<1>12. Left(f, g)
  BY <1>8, <1>10, LeftEvents
<1> HIDE DEF g
<1>13. Left(g, t)
  BY <1>12, LeftUp, LeftEvents
<1> HIDE DEF t
<1> QED
  BY <1>4, <1>11, <1>12, <1>13 DEF Left, Kept

\* The client is accepted and the origin connected.
LEMMA StepAccept ==
    ASSUME IInv, Accept
    PROVE  IInv'
<1> DEFINE a == Set(conn, "bpctrl_added")
           b == ProcessEvent(a, "org_connect")
           v == [b.ops EXCEPT !["connect"] = "live"]
           t == [b EXCEPT !.ops = v]
<1>1. /\ "org_recv_start" \in conn.sm
      /\ Becomes([ProcessEvent(OnOriginPreConnect(conn), "org_connect") EXCEPT
                    !.ops["connect"] = "live"])
  BY DEF Accept
<1>2. CASE conn.bug # {}
  BY <1>1, <1>2 DEF Becomes
<1>3. ASSUME Good(conn)
      PROVE  Becomes(t) /\ Kept(conn, t)
  <2>1. Mach(conn) /\ "add" \notin conn.bp_fails
    BY <1>3 DEF Good, Mach, Conns
  <2>2. OnOriginPreConnect(conn) = a
    BY <2>1 DEF OnOriginPreConnect
  <2>3. Does(conn, a, {}, {"flags"}) /\ a.flags = conn.flags \cup {"bpctrl_added"}
    BY <2>1, SetEffect DEF Flags
  <2> HIDE DEF a
  <2>4. Mach(a) /\ "org_recv_start" \in a.sm
    BY <1>1, <2>3 DEF Does, Only
  <2> DEFINE X == {"org_recv_conn", "org_recv_start", "org_send_conn",
                   "org_send_start"}
  <2>5. /\ Does(a, b, X, {}) /\ "org_recv_start" \notin b.sm
        /\ "org_recv_conn" \in b.sm
        /\ "org_send_start" \in a.sm => "org_send_conn" \in b.sm /\ "org_send_start" \notin b.sm
    BY <2>4, EvOrgConnect
  <2>6. [ProcessEvent(OnOriginPreConnect(conn), "org_connect") EXCEPT
                    !.ops["connect"] = "live"] = t
    <3>1. b \in Conns
      BY <2>5 DEF Does, Mach
    <3>2. ProcessEvent(OnOriginPreConnect(conn), "org_connect") = b
      BY <2>2
    <3> HIDE DEF b
    <3>3. [b EXCEPT !.ops["connect"] = "live"] = t
      BY <3>1 DEF Conns
    <3> HIDE DEF t
    <3> QED
      BY <3>2, <3>3
  <2> HIDE DEF b
  <2>7. Does(b, t, {}, {}) /\ t.sm = b.sm
    <3>1. b \in Conns /\ Mach(b)
      BY <2>5 DEF Does, Mach
    <3>2. /\ v \in [Ops -> {"none", "live", "dead"}]
          /\ \A op \in Ops \ {"connect"} : v[op] = b.ops[op]
      BY <3>1 DEF Conns
    <3> HIDE DEF v
    <3>3. t \in Conns
      BY <3>1, <3>2 DEF Conns
    <3>4. t.sm = b.sm /\ t.ops = v /\ Given(t) = Given(b) /\ t.bug = b.bug
      BY <3>1 DEF Conns, Given
    <3>5. Keep(b, t, {})
      BY <3>1 DEF Conns, Keep, Fields
    <3> HIDE DEF t
    <3>6. OpsOk(t)
      BY <2>5, <3>1, <3>2, <3>4, <3>5 DEF OpsOk, Mach, Ops, Given, Keep, Fields
    <3>7. Counts(t)
      BY <3>1, <3>5 DEF Counts, Mach, Keep, Fields
    <3> QED
      BY <3>1, <3>3, <3>4, <3>5, <3>6, <3>7 DEF Does, Mach, Only
  <2>8. t.flags = conn.flags \cup {"bpctrl_added"} /\ t.tunnel = conn.tunnel
        /\ t.csm = conn.csm /\ t.origin_recv = conn.origin_recv
    BY <2>3, <2>5, <2>7 DEF Does, Keep, Fields
  <2>9. Does(conn, t, X, {"flags"})
    BY <2>3, <2>5, <2>7 DEF Does, Only, Keep
  <2>10. Steps(t)
    <3>1. Steps(conn) /\ ~Up(conn.sm) /\ "org_send_start" \in conn.sm
      BY <1>1, <1>3 DEF Good, Steps, Up
    <3>2. /\ "org_recv_start" \notin t.sm /\ "org_recv_conn" \in t.sm
          /\ "org_send_conn" \in t.sm /\ "org_send_start" \notin t.sm
      BY <2>3, <2>5, <2>7, <3>1 DEF Does, Only
    <3>3. /\ ShutC(t.sm) => ShutC(conn.sm)
          /\ ShutO(t.sm) => ShutO(conn.sm)
          /\ \A x \in {"org_recv_eof", "cln_recv_eof", "cln_recv_idle", "cln_send_idle"} :
                x \in t.sm <=> x \in conn.sm
      BY <2>9 DEF Does, Only, ShutO, ShutC
    <3> QED
      BY <2>8, <3>1, <3>2, <3>3 DEF Steps
  <2>11. Good(t)
    <3>1. X \cap {"org_recv_paused", "org_recv_eof", "cln_recv_eof"} = {}
      OBVIOUS
    <3> HIDE DEF X, t
    <3> QED
      BY <1>3, <2>8, <2>9, <2>10, <3>1, GoodSteps
  <2> HIDE DEF t
  <2> QED
    BY <1>1, <2>6, <2>8, <2>9, <2>11 DEF Kept, Does
<1>4. CASE conn.bug = {}
  BY <1>3, <1>4, Lands DEF IInv
<1> QED
  BY <1>2, <1>4

-----------------------------------------------------------------------------
(* The ends of the streams.                                                *)

\* The end of a stream is seen or passed on.
LEMMA LeftMoved ==
    ASSUME NEW s, Good(s), Up(s.sm), NEW t, NEW X, Does(s, t, X, {}),
           X \cap (Marks \ Eofs) = {},
           \A x \in Eofs : x \in s.sm => x \in t.sm,
           ShutC(t.sm) => ShutC(s.sm) \/ "org_recv_eof" \in t.sm,
           ShutO(t.sm) => ShutO(s.sm) \/ "cln_recv_eof" \in t.sm
    PROVE  Left(s, t) /\ t.tunnel = s.tunnel /\ t.strm = s.strm
<1>1. /\ t.trans = s.trans /\ t.origin_recv = s.origin_recv
      /\ t.origin_rdr = s.origin_rdr /\ t.client_rdr = s.client_rdr
      /\ t.client_recv = s.client_recv /\ t.cln_script = s.cln_script
      /\ t.tunnel = s.tunnel /\ t.strm = s.strm
      /\ t.flags = s.flags /\ ToOrigin(t) = ToOrigin(s) /\ ToClient(t) = ToClient(s)
  BY DEF Does, Keep, Fields, ToOrigin, ToClient
<1>2. ~s.tunnel => Place(t) /\ FirstKept(s, t) /\ Ledger(t)
  BY <1>1 DEF Good, Hand, Place, FirstKept, Ledger, Eofs
<1>3. s.tunnel => t.client_rdr = 0
  BY <1>1 DEF Good
<1>4. Good(t) /\ Online(t)
  BY <1>1, <1>2, <1>3, GoodMoved
<1> QED
  BY <1>1, <1>4 DEF Left, Does

\* The last transaction is given another value.
LEMMA LastTrans ==
    ASSUME NEW s, Mach(s), s.trans # <<>>, NEW v \in Trans
    PROVE  LET t == [s EXCEPT !.trans[Len(s.trans)] = v] IN
           /\ Does(s, t, {}, {"trans"}) /\ t.sm = s.sm
           /\ Len(t.trans) = Len(s.trans) /\ t.trans # <<>>
           /\ t.trans[Len(s.trans)] = v
           /\ \A k \in DOMAIN s.trans : k # Len(s.trans) => t.trans[k] = s.trans[k]
<1> DEFINE n == Len(s.trans)
           w == [s.trans EXCEPT ![n] = v]
           t == [s EXCEPT !.trans = w]
<1>1. s \in Conns /\ s.trans \in Seq(Trans)
  BY DEF Mach, Conns
<1>2. n \in Nat /\ n >= 1
  BY <1>1
<1>3. w \in Seq(Trans) /\ Len(w) = n /\ w[n] = v
      /\ \A k \in DOMAIN s.trans : k # n => w[k] = s.trans[k]
  BY <1>1, <1>2
<1>4. [s EXCEPT !.trans[Len(s.trans)] = v] = t
  BY <1>1 DEF Conns
<1> HIDE DEF w, n
<1>5. t \in Conns
  BY <1>1, <1>3 DEF Conns
<1>6. /\ t.sm = s.sm /\ t.ops = s.ops /\ Given(t) = Given(s)
      /\ t.bug = s.bug /\ t.trans = w
  BY <1>1 DEF Conns, Given
<1>7. Keep(s, t, {"trans"})
  BY <1>1 DEF Conns, Keep, Fields
<1> HIDE DEF t
<1>8. Does(s, t, {}, {"trans"})
  BY <1>5, <1>6, <1>7, Updated DEF CountF
<1>9. w # <<>>
  BY <1>2, <1>3
<1> QED
  BY <1>3, <1>4, <1>6, <1>8, <1>9 DEF n

\* The types of the transactions.
LEMMA TransTyped ==
    ASSUME NEW s, Mach(s), NEW k \in DOMAIN s.trans
    PROVE  s.trans[k] \in Trans
<1>1. s.trans \in Seq(Trans)
  BY DEF Mach, Conns
<1> QED
  BY <1>1

\* The end of the client's stream, for the request that goes on.
LEMMA ReqEnd ==
    ASSUME NEW t \in Trans
    PROVE  LET u == OnReqEnd(t) IN
           /\ u \in Trans /\ u.req = t.req /\ u.req_state = "complete"
           /\ u.at = t.at /\ u.resp = t.resp /\ u.hdr = t.hdr
           /\ u.len = t.len /\ u.resp_state = t.resp_state
           /\ ReqCompleted(t) => u = t
           /\ t.tunnel => u.tunnel
  BY DEF OnReqEnd, ReqCompleted, Trans

\* The end of the origin's stream, for the response that goes on.
LEMMA RespEnd ==
    ASSUME NEW t \in Trans
    PROVE  LET u == OnRespEnd(t) IN
           /\ u \in Trans /\ u.req = t.req /\ u.at = t.at /\ u.resp = t.resp /\ u.hdr = t.hdr
           /\ u.len = t.len /\ u.resp_state = "complete"
           /\ u.req_state = t.req_state
           /\ t.tunnel => u.tunnel
  BY DEF OnRespEnd, RespCompleted, Trans

\* The last request ends with the client's stream.
LEMMA EndLastReqDoes ==
    ASSUME NEW s, Good(s), Up(s.sm), ~s.tunnel, "cln_recv_eof" \in s.sm
    PROVE  LET t == EndLastReq(s) IN
           Left(s, t) /\ t.sm = s.sm
<1> DEFINE t == EndLastReq(s)
<1>1. CASE s.trans = <<>>
  BY <1>1, LeftSame, SameDoes DEF EndLastReq, Good
<1>2. CASE s.trans # <<>>
  <2> DEFINE n == Len(s.trans)
             v == OnReqEnd(s.trans[n])
             u == [s EXCEPT !.trans[Len(s.trans)] = v]
  <2>1. s \in Conns /\ Mach(s) /\ s.trans \in Seq(Trans)
    BY DEF Good, Mach, Conns
  <2>2. n \in DOMAIN s.trans /\ 1 \in DOMAIN s.trans
    BY <1>2, <2>1
  <2>3. s.trans[n] \in Trans
    BY <2>1, <2>2, TransTyped
  <2>4. /\ v \in Trans /\ v.req = s.trans[n].req /\ v.req_state = "complete"
        /\ v.at = s.trans[n].at /\ v.resp = s.trans[n].resp
        /\ v.hdr = s.trans[n].hdr /\ v.len = s.trans[n].len
        /\ v.resp_state = s.trans[n].resp_state
        /\ ReqCompleted(s.trans[n]) => v = s.trans[n]
        /\ s.trans[n].tunnel => v.tunnel
    BY <2>3, ReqEnd
  <2>5. t = u
    BY <1>2, <2>1 DEF EndLastReq, Conns
  <2> HIDE DEF v, t
  <2>6. /\ Does(s, u, {}, {"trans"}) /\ u.sm = s.sm
        /\ Len(u.trans) = n /\ u.trans # <<>> /\ u.trans[n] = v
        /\ \A k \in DOMAIN s.trans : k # n => u.trans[k] = s.trans[k]
    BY <1>2, <2>1, <2>4, LastTrans
  <2> HIDE DEF u
  <2>7. DOMAIN u.trans = DOMAIN s.trans
    <3>1. u.trans \in Seq(Trans)
      BY <2>6 DEF Does, Mach, Conns
    <3> QED
      BY <2>1, <2>6, <3>1
  <2>8. \A k \in DOMAIN s.trans :
            /\ u.trans[k].at = s.trans[k].at /\ u.trans[k].resp = s.trans[k].resp
            /\ u.trans[k].hdr = s.trans[k].hdr /\ u.trans[k].len = s.trans[k].len
            /\ u.trans[k].resp_state = s.trans[k].resp_state
            /\ u.trans[k].req = s.trans[k].req
            /\ u.trans[k].req_state \in {s.trans[k].req_state, "complete"}
            /\ ReqCompleted(s.trans[k]) => u.trans[k] = s.trans[k]
            /\ s.trans[k].tunnel => u.trans[k].tunnel
    BY <2>4, <2>6
  <2>9. /\ u.origin_recv = s.origin_recv
        /\ u.origin_rdr = s.origin_rdr /\ u.client_rdr = s.client_rdr
        /\ u.client_recv = s.client_recv /\ u.cln_script = s.cln_script
        /\ u.flags = s.flags /\ ToOrigin(u) = ToOrigin(s) /\ ToClient(u) = ToClient(s)
    BY <2>6 DEF Does, Keep, Fields, ToOrigin, ToClient
  <2>10. Place(u)
    BY <1>2, <2>2, <2>7, <2>8, <2>9 DEF Good, Hand, Place, TransOk, RespBody
  <2>11. FirstKept(s, u)
    BY <2>2, <2>6, <2>8 DEF FirstKept
  <2>13. Ledger(u)
    <3>1. u.trans \in Seq(Trans)
      BY <2>6 DEF Does, Mach, Conns
    <3>2. Later(u.trans) = Later(s.trans)
      BY <2>1, <2>6, <2>8, <3>1, LaterSame
    <3> QED
      BY <2>6, <2>7, <2>8, <2>9, <3>2 DEF Good, Hand, Ledger
  <2>12. Good(u) /\ Online(u)
    <3>1. {} \cap (Marks \ Eofs) = {}
      OBVIOUS
    <3> QED
      BY <2>6, <2>9, <2>10, <2>11, <2>13, <3>1, GoodMoved
  <2> QED
    BY <2>5, <2>6, <2>9, <2>12 DEF Left, Does, t
<1> QED
  BY <1>1, <1>2

\* The response ends with the origin's stream.
LEMMA EndLastRespDoes ==
    ASSUME NEW s, Good(s), Up(s.sm), ~s.tunnel, s.strm = "sock",
           "org_recv_eof" \in s.sm
    PROVE  LET t == EndLastResp(s) IN
           Left(s, t) /\ t.sm = s.sm /\ ~t.tunnel
<1> DEFINE t == EndLastResp(s)
<1>1. CASE s.trans = <<>>
  BY <1>1, LeftSame, SameDoes DEF EndLastResp, Good
<1>2. CASE s.trans # <<>>
  <2> DEFINE n == Len(s.trans)
             v == OnRespEnd(s.trans[n])
             u == [s EXCEPT !.trans[Len(s.trans)] = v]
  <2>1. s \in Conns /\ Mach(s) /\ s.trans \in Seq(Trans)
    BY DEF Good, Mach, Conns
  <2>2. n \in DOMAIN s.trans /\ 1 \in DOMAIN s.trans
    BY <1>2, <2>1
  <2>3. s.trans[n] \in Trans
    BY <2>1, <2>2, TransTyped
  <2>4. /\ v \in Trans /\ v.req = s.trans[n].req
        /\ v.at = s.trans[n].at /\ v.resp = s.trans[n].resp
        /\ v.hdr = s.trans[n].hdr /\ v.len = s.trans[n].len
        /\ v.resp_state = "complete" /\ v.req_state = s.trans[n].req_state
        /\ s.trans[n].tunnel => v.tunnel
    BY <2>3, RespEnd
  <2>5. t = u
    BY <1>2, <2>1 DEF EndLastResp, Conns
  <2> HIDE DEF v, t
  <2>6. /\ Does(s, u, {}, {"trans"}) /\ u.sm = s.sm
        /\ Len(u.trans) = n /\ u.trans # <<>> /\ u.trans[n] = v
        /\ \A k \in DOMAIN s.trans : k # n => u.trans[k] = s.trans[k]
    BY <1>2, <2>1, <2>4, LastTrans
  <2> HIDE DEF u
  <2>7. DOMAIN u.trans = DOMAIN s.trans
    <3>1. u.trans \in Seq(Trans)
      BY <2>6 DEF Does, Mach, Conns
    <3> QED
      BY <2>1, <2>6, <3>1
  <2>8. \A k \in DOMAIN s.trans :
            /\ u.trans[k].at = s.trans[k].at /\ u.trans[k].resp = s.trans[k].resp
            /\ u.trans[k].hdr = s.trans[k].hdr /\ u.trans[k].len = s.trans[k].len
            /\ u.trans[k].resp_state \in {s.trans[k].resp_state, "complete"}
            /\ u.trans[k].req_state = s.trans[k].req_state
            /\ u.trans[k].req = s.trans[k].req
            /\ s.trans[k].tunnel => u.trans[k].tunnel
    BY <2>4, <2>6
  <2>9. /\ u.origin_recv = s.origin_recv /\ u.tunnel = s.tunnel
        /\ u.origin_rdr = s.origin_rdr /\ u.client_rdr = s.client_rdr
        /\ u.client_recv = s.client_recv /\ u.cln_script = s.cln_script
        /\ u.csm = s.csm /\ u.strm = s.strm /\ u.flags = s.flags
        /\ u.cache_op = s.cache_op /\ u.wrote = s.wrote /\ u.writing = s.writing
        /\ u.org_cache_rdr = s.org_cache_rdr /\ u.handle = s.handle
        /\ ToOrigin(u) = ToOrigin(s) /\ ToClient(u) = ToClient(s)
    BY <2>6 DEF Does, Keep, Fields, ToOrigin, ToClient
  <2>10. Place(u)
    BY <1>2, <2>2, <2>7, <2>8, <2>9 DEF Good, Hand, Place, TransOk, RespBody
  <2>11. s.csm \in {"wait_body_data", "cache_write", "cache_idle_wr", "cache_closed"}
    <3>1. "org_recv_paused" \notin s.sm
      BY <2>1 DEF Mach, Sm, One, In, ORecv
    <3>2. s.csm \in Csms
      BY <2>1 DEF Conns
    <3>3. s.csm # "cache_read"
      BY DEF Good, Hand, Asked
    <3> QED
      BY <3>1, <3>2, <3>3 DEF Good, Hand, Paused, Deciding, Csms
  <2>12. Cached(u)
    BY <1>2, <2>2, <2>6, <2>8, <2>9 DEF Good, Hand, Cached, Caching, Waiting,
                                      ReqCompleted, RespBody
  <2>13. Asked(u) /\ Served(u)
    BY <2>9, <2>11 DEF Asked, Served
  <2>14. OpFits(u) /\ Paused(u)
    BY <2>6, <2>9 DEF Good, Hand, OpFits, Paused
  <2>18. Bytes(u)
    BY <1>2, <2>2, <2>8, <2>9 DEF Good, Hand, Bytes, Wrote
  <2>19. Entry(u)
    BY <1>2, <2>2, <2>6, <2>8, <2>9, <2>11 DEF Good, Hand, Entry, Deciding
  <2>20. Waits(u)
    <3>1. RespCompleted(s.trans[1]) => RespCompleted(u.trans[1])
      BY <2>2, <2>8 DEF RespCompleted
    <3>2. u.trans[1].at = s.trans[1].at /\ u.trans # <<>>
      BY <2>2, <2>6, <2>8
    <3> QED
      BY <1>2, <2>9, <3>1, <3>2 DEF Good, Hand, Waits
  <2>21. Ledger(u)
    <3>1. u.trans \in Seq(Trans)
      BY <2>6 DEF Does, Mach, Conns
    <3>2. Later(u.trans) = Later(s.trans)
      BY <2>1, <2>6, <2>8, <3>1, LaterSame
    <3>3. u.trans[Len(u.trans)].req_state = s.trans[n].req_state
      BY <2>2, <2>6, <2>8
    <3> QED
      BY <1>2, <2>6, <2>7, <2>8, <2>9, <3>2, <3>3 DEF Good, Hand, Ledger
  <2>15. Steps(u)
    BY <2>6, <2>9 DEF Good, Steps
  <2>16. Good(u)
    BY <2>6, <2>9, <2>10, <2>12, <2>13, <2>14, <2>15, <2>18, <2>19, <2>20, <2>21 DEF Good, Hand, Does
  <2>17. Up(u.sm)
    BY <2>6
  <2> QED
    BY <2>5, <2>6, <2>9, <2>16, <2>17, GoodOnline DEF Left, Does, t
<1> QED
  BY <1>1, <1>2

\* What the end of the client's stream leads to.
LEMMA ClnEofLeft ==
    ASSUME NEW s, Good(s), Up(s.sm), "cln_recv_eof" \in s.sm, ~ShutO(s.sm)
    PROVE  Left(s, ClnEof(s))
<1> DEFINE X == {"org_pend_shut", "org_send_shut", "org_wait_end"}
<1>1. ASSUME NEW r, Good(r), Up(r.sm), "cln_recv_eof" \in r.sm, ~ShutO(r.sm)
      PROVE  Left(r, ProcessEvent(r, "org_send_shut"))
  <2> DEFINE t == ProcessEvent(r, "org_send_shut")
  <2>1. Does(r, t, X, {})
    BY <1>1, EvOrgSendShut DEF Good
  <2> HIDE DEF t
  <2>2. /\ "cln_recv_eof" \in t.sm /\ (ShutC(t.sm) => ShutC(r.sm))
        /\ \A x \in Eofs : x \in r.sm => x \in t.sm
    BY <1>1, <2>1 DEF Does, Only, Eofs, ShutC
  <2>3. X \cap (Marks \ Eofs) = {}
    BY DEF Marks
  <2> HIDE DEF X
  <2> QED
    BY <1>1, <2>1, <2>2, <2>3, LeftMoved DEF t
<1>2. CASE s.tunnel
  BY <1>1, <1>2 DEF ClnEof
<1>3. CASE ~s.tunnel
  <2> DEFINE r == EndLastReq(s)
  <2>1. Left(s, r) /\ r.sm = s.sm
    BY <1>3, EndLastReqDoes
  <2> HIDE DEF r
  <2>2. Left(r, ProcessEvent(r, "org_send_shut"))
    BY <1>1, <2>1, LeftUp
  <2>3. ClnEof(s) = ProcessEvent(r, "org_send_shut")
    BY <1>3 DEF ClnEof, OnClientRecvEof, r
  <2> QED
    BY <2>1, <2>2, <2>3, LeftBoth
<1> QED
  BY <1>2, <1>3

\* What the end of the origin's stream leads to.
LEMMA OrgEofLeft ==
    ASSUME NEW s, Good(s), Up(s.sm), "org_recv_eof" \in s.sm, ~ShutC(s.sm),
           s.strm = "sock"
    PROVE  Left(s, OrgEof(s))
<1> DEFINE X == {"cln_pend_shut", "cln_send_shut", "cln_wait_end"}
<1>1. ASSUME NEW r, Good(r), Up(r.sm), "org_recv_eof" \in r.sm, ~ShutC(r.sm)
      PROVE  LET t == ProcessEvent(r, "cln_send_shut") IN
             Left(r, t) /\ t.tunnel = r.tunnel
  <2> DEFINE t == ProcessEvent(r, "cln_send_shut")
  <2>1. Does(r, t, X, {})
    BY <1>1, EvClnSendShut DEF Good
  <2> HIDE DEF t
  <2>2. /\ "org_recv_eof" \in t.sm /\ (ShutO(t.sm) => ShutO(r.sm))
        /\ \A x \in Eofs : x \in r.sm => x \in t.sm
    BY <1>1, <2>1 DEF Does, Only, Eofs, ShutO
  <2>3. X \cap (Marks \ Eofs) = {}
    BY DEF Marks
  <2> HIDE DEF X
  <2> QED
    BY <1>1, <2>1, <2>2, <2>3, LeftMoved DEF t
<1>2. CASE s.tunnel
  BY <1>1, <1>2 DEF OrgEof
<1>3. CASE ~s.tunnel
  <2> DEFINE r == EndLastResp(s)
             u == ProcessEvent(r, "cln_send_shut")
             t == TryBlindTunnel(u)
  <2>1. Left(s, r) /\ r.sm = s.sm /\ ~r.tunnel
    BY <1>3, EndLastRespDoes
  <2>3. OrgEof(s) = t
    BY <1>3 DEF OrgEof, OnOriginRecvEof
  <2> HIDE DEF r
  <2>2. Left(r, u) /\ ~u.tunnel
    BY <1>1, <2>1, LeftUp
  <2> HIDE DEF u
  <2>4. Left(u, t)
    BY <2>2, LeftUp, GoodTunnels
  <2> HIDE DEF t
  <2> QED
    BY <2>1, <2>2, <2>3, <2>4, LeftBoth
<1> QED
  BY <1>2, <1>3

\* The client's stream ends.
LEMMA StepClnRecvEof ==
    ASSUME IInv, ClnRecvEof
    PROVE  IInv'
<1> DEFINE e == Ends(conn, "cln_recv")
           f == ProcessEvent(e, "cln_recv_eof")
           g == MarkHalfClosed(f)
           t == ClnEof(g)
<1>1. Becomes(t) /\ conn.ops["cln_recv"] # "none"
  BY DEF ClnRecvEof, Completed, Ends
<1>2. SUFFICES ASSUME Good(conn)
               PROVE  Kept(conn, t)
  BY <1>1, Lands
<1>3. /\ Left(conn, e) /\ Mach(e) /\ "cln_recv" \in e.sm
      /\ e.ops["cln_recv"] = "none"
  BY <1>1, <1>2, EndsLeft
<1> HIDE DEF e
<1>4. ~ShutO(e.sm)
  <2>1. "cln_recv_eof" \notin e.sm
    BY <1>3 DEF Mach, Sm, One, In, CRecv
  <2> QED
    BY <1>3, <2>1, LeftUp DEF Good, Steps
<1> DEFINE X == {"cln_recv", "cln_recv_eof"}
<1>5. Does(e, f, X, {}) /\ "cln_recv_eof" \in f.sm
  BY <1>3, EvClnRecvEof
<1> HIDE DEF f
<1>6. Left(e, f) /\ ~ShutO(f.sm)
  <2>1. /\ (ShutO(f.sm) => ShutO(e.sm)) /\ (ShutC(f.sm) => ShutC(e.sm))
        /\ \A x \in Eofs : x \in e.sm => x \in f.sm
    BY <1>5 DEF Does, Only, Eofs, ShutO, ShutC
  <2>2. X \cap (Marks \ Eofs) = {}
    BY DEF Marks, Eofs
  <2> HIDE DEF X
  <2> QED
    BY <1>3, <1>4, <1>5, <2>1, <2>2, LeftMoved, LeftUp
<1>7. Left(f, g) /\ g.sm = f.sm
  BY <1>6, LeftUp, PortsLeft, PortsDoes
<1> HIDE DEF g
<1>8. Left(g, t)
  BY <1>5, <1>6, <1>7, LeftUp, ClnEofLeft
<1> HIDE DEF t
<1> QED
  BY <1>3, <1>6, <1>7, <1>8 DEF Left, Kept

\* The origin's stream ends.
LEMMA StepOrgRecvEof ==
    ASSUME IInv, OrgRecvEof
    PROVE  IInv'
<1> DEFINE e == Ends(conn, "org_recv")
           f == ProcessEvent(e, "org_recv_eof")
           g == MarkHalfClosed(f)
           t == OrgEof(g)
<1>1. Becomes(t) /\ conn.ops["org_recv"] # "none" /\ conn.strm = "sock"
  BY DEF OrgRecvEof, Completed, Ends
<1>2. SUFFICES ASSUME Good(conn)
               PROVE  Kept(conn, t)
  BY <1>1, Lands
<1>3. /\ Left(conn, e) /\ Mach(e) /\ "org_recv" \in e.sm
      /\ e.ops["org_recv"] = "none" /\ Does(conn, e, {}, {})
  BY <1>1, <1>2, EndsLeft
<1> HIDE DEF e
<1>4. ~ShutC(e.sm) /\ e.strm = "sock"
  <2>1. "org_recv_eof" \notin e.sm
    BY <1>3 DEF Mach, Sm, One, In, ORecv
  <2>2. e.strm = "sock"
    BY <1>1, <1>3 DEF Does, Keep, Fields
  <2> QED
    BY <1>3, <2>1, <2>2, LeftUp DEF Good, Steps
<1> DEFINE X == {"org_recv", "org_recv_eof", "org_recv_idle"}
<1>5. Does(e, f, X, {}) /\ "org_recv_eof" \in f.sm
  BY <1>3, EvOrgRecvEof
<1> HIDE DEF f
<1>6. Left(e, f) /\ ~ShutC(f.sm) /\ f.strm = "sock"
  <2>1. /\ (ShutO(f.sm) => ShutO(e.sm)) /\ (ShutC(f.sm) => ShutC(e.sm))
        /\ \A x \in Eofs : x \in e.sm => x \in f.sm
    BY <1>5 DEF Does, Only, Eofs, ShutO, ShutC
  <2>2. X \cap (Marks \ Eofs) = {}
    BY DEF Marks, Eofs
  <2> HIDE DEF X
  <2> QED
    BY <1>3, <1>4, <1>5, <2>1, <2>2, LeftMoved, LeftUp
<1>7. Left(f, g) /\ g.sm = f.sm /\ g.strm = f.strm
  <2>1. Left(f, g) /\ Does(f, g, {}, {}) /\ g.sm = f.sm
    BY <1>6, LeftUp, PortsLeft, PortsDoes
  <2> QED
    BY <2>1 DEF Does, Keep, Fields
<1> HIDE DEF g
<1>8. Left(g, t)
  BY <1>5, <1>6, <1>7, LeftUp, OrgEofLeft
<1> HIDE DEF t
<1> QED
  BY <1>3, <1>6, <1>7, <1>8 DEF Left, Kept

-----------------------------------------------------------------------------
(* The answers of the cache.                                               *)

\* The invariant beside the operation of the cache.
Core(s) == /\ Online(s) /\ Steps(s) /\ Served(s) /\ ~s.tunnel
           /\ Paused(s) /\ Cached(s) /\ Place(s)
           /\ Entry(s) /\ Waits(s) /\ Ledger(s)
Body(s) == Core(s) /\ Asked(s) /\ Bytes(s)

\* The parts of the invariant while there is no tunnel.
LEMMA BodyGood ==
    ASSUME NEW s
    PROVE  /\ Good(s) /\ Up(s.sm) /\ ~s.tunnel => Body(s)
           /\ Body(s) /\ OpFits(s) => Good(s)
<1>1. Good(s) /\ Up(s.sm) => Online(s)
  BY GoodOnline
<1> QED
  BY <1>1 DEF Core, Body, Good, Hand, Online

\* Steps of the operations leave the connection where it stands.
LEMMA LegsSteps ==
    ASSUME NEW s, Online(s), Steps(s), NEW t, NEW X, NEW F, Does(s, t, X, F),
           X \subseteq LegsX
    PROVE  Online(t) /\ Steps(t)
<1>1. Online(t)
  BY OnlineKept DEF TunnelX
<1>2. /\ ShutC(t.sm) => ShutC(s.sm)
      /\ ShutO(t.sm) => ShutO(s.sm)
      /\ \A x \in {"org_recv_start", "org_recv_conn", "org_send_start",
                   "org_send_conn", "org_recv_eof", "cln_recv_eof"} :
            x \in t.sm <=> x \in s.sm
  BY DEF Does, Only, LegsX, ShutC, ShutO
<1> QED
  BY <1>1, <1>2 DEF Steps, Online

\* A tunnel that has been started.
LEMMA TunnelLeft ==
    ASSUME NEW s, Online(s), Steps(s), Served(s), s.cache_op = "none",
           NEW t, Does(s, t, TunnelX, TunnelF), Quiet(s, t), Blind(t),
           t.csm = "cache_closed"
    PROVE  Left(s, t)
<1>4. Online(t)
  BY OnlineKept
<1>5. /\ t.cache_op = s.cache_op /\ t.strm = s.strm /\ t.obj_at = s.obj_at
      /\ t.obj_len = s.obj_len /\ t.cache_offs = s.cache_offs
      /\ t.origin_recv = s.origin_recv
  BY DEF Does, Keep, Fields, TunnelF
<1>6. \A x \in {"org_recv_eof", "cln_recv_eof"} : x \in t.sm <=> x \in s.sm
  BY DEF Does, Only, TunnelX, LegsX, ClnEndX, OrgEndX
<1>7. Steps(t)
  BY <1>4, <1>6 DEF Steps, Quiet, Online, Up
<1>8. Served(t)
  BY <1>5 DEF Served
<1>9. Good(t)
  BY <1>4, <1>5, <1>7, <1>8 DEF Good, Online, Blind
<1> QED
  BY <1>4, <1>5, <1>9 DEF Left, Does

\* What a step of the handler changes beside the transactions.
HandF == {"flags", "org_cache_rdr", "handle", "writing", "wrote", "csm",
          "cache_op", "obj_at", "obj_len", "cache_offs", "strm"}

\* The flags of the states it goes through.
Allowed(s, t) ==
    /\ s.flags \ {"recv_paused", "bpctrl_added"} \subseteq t.flags
    /\ t.flags \subseteq s.flags \cup {"params_set", "trans_completed"}
    /\ t.csm \in Deciding => s.csm \in Deciding /\ t.flags = s.flags
    /\ t.strm = "sock" => /\ s.strm = "sock"
                          /\ "bpctrl_added" \in s.flags => "bpctrl_added" \in t.flags
    /\ "pend_tunnel" \in s.flags => t.csm \in Waiting
    /\ t.csm \in {"cache_write", "cache_idle_wr"} =>
            RespCompleted(s.trans[1]) \/ (s.csm \in Waiting
                /\ ("trans_completed" \in t.flags => "trans_completed" \in s.flags))

\* The handler goes to another state of the response it deals with.
LEMMA Moves ==
    ASSUME NEW s, Core(s), s.csm \in Caching,
           NEW t, NEW X, NEW F, Does(s, t, X, F), X \subseteq LegsX,
           F \subseteq HandF,
           Allowed(s, t),
           t.csm \in Caching \cup {"cache_closed"},
           Paused(t), OpFits(t), Asked(t), Bytes(t), Served(t)
    PROVE  Left(s, t) /\ Body(t)
<1>1. /\ t.trans = s.trans /\ t.origin_recv = s.origin_recv
      /\ t.origin_rdr = s.origin_rdr /\ t.client_rdr = s.client_rdr
      /\ t.client_recv = s.client_recv /\ t.cln_script = s.cln_script
      /\ t.tunnel = s.tunnel /\ ToOrigin(t) = ToOrigin(s) /\ ToClient(t) = ToClient(s)
  BY DEF Does, Keep, Fields, HandF, ToOrigin, ToClient
<1>2. Online(t) /\ Steps(t)
  BY LegsSteps DEF Core
<1>3. Place(t)
  BY <1>1 DEF Core, Place
<1>4. \A x \in {"org_recv_eof", "cln_recv_eof"} : x \in t.sm <=> x \in s.sm
  BY DEF Does, Only, LegsX
<1>5. Cached(t)
  BY <1>1, <1>4 DEF Core, Cached, Caching, Waiting, Allowed
<1>8. Entry(t)
  <2>1. "caching_started" \in t.flags
    BY DEF Core, Cached, Allowed
  <2>2. s.strm = "sock" /\ "pend_tunnel" \notin s.flags => "bpctrl_added" \in s.flags
    BY DEF Core, Entry, Online, Up
  <2>3. t.csm \in Deciding => t.trans[1].resp_state = "open" /\ "params_set" \notin t.flags
    BY <1>1 DEF Core, Entry, Allowed
  <2> QED
    BY <2>1, <2>2, <2>3 DEF Entry, Allowed
<1>9. Waits(t)
  <2>1. "pend_tunnel" \in t.flags => "pend_tunnel" \in s.flags
    BY DEF Allowed
  <2>2. t.csm # "wait_body_data"
    BY DEF Caching, Waiting
  <2>3. t.csm \in Deciding => "trans_completed" \notin t.flags
    BY DEF Core, Waits, Allowed
  <2>4. ASSUME t.csm \in {"cache_write", "cache_idle_wr"}, "trans_completed" \in t.flags,
               "pend_tunnel" \notin t.flags
        PROVE  RespCompleted(t.trans[1])
    <3>1. "pend_tunnel" \notin s.flags
      BY <2>4 DEF Allowed
    <3>2. CASE RespCompleted(s.trans[1])
      BY <1>1, <3>2
    <3>3. CASE ~RespCompleted(s.trans[1])
      <4>1. "trans_completed" \in s.flags /\ s.csm \in Waiting
        BY <2>4, <3>3 DEF Allowed
      <4>2. s.csm = "cache_write"
        BY <4>1 DEF Core, Waits, Waiting, Deciding
      <4> QED
        BY <1>1, <3>1, <4>1, <4>2 DEF Core, Waits
    <3> QED
      BY <3>2, <3>3
  <2> QED
    BY <2>1, <2>2, <2>3, <2>4 DEF Waits, Allowed
<1>10. Ledger(t)
  <2>1. "pend_tunnel" \notin t.flags => "pend_tunnel" \notin s.flags
    BY DEF Allowed
  <2> QED
    BY <1>1, <1>4, <2>1 DEF Core, Ledger
<1>6. Body(t)
  BY <1>1, <1>2, <1>3, <1>5, <1>8, <1>9, <1>10 DEF Core, Body
<1>7. Good(t)
  BY <1>6, BodyGood
<1> QED
  BY <1>1, <1>2, <1>6, <1>7 DEF Left, Does

\* A step that the machine of the handler does not see.
LEMMA CoreSame ==
    ASSUME NEW s, Core(s), NEW t, NEW X, NEW F, Does(s, t, X, F),
           X \subseteq LegsX \ {"org_recv_paused"},
           F \subseteq {"handle", "writing", "wrote", "org_cache_rdr",
                        "cache_op"},
           s.csm # "wait_body_data"
    PROVE  Core(t) /\ t.csm = s.csm /\ t.strm = s.strm /\ t.flags = s.flags
<1>1. /\ t.trans = s.trans /\ t.origin_recv = s.origin_recv
      /\ t.origin_rdr = s.origin_rdr /\ t.client_rdr = s.client_rdr
      /\ t.client_recv = s.client_recv /\ t.cln_script = s.cln_script
      /\ t.tunnel = s.tunnel /\ t.csm = s.csm /\ t.strm = s.strm
      /\ t.obj_at = s.obj_at /\ t.obj_len = s.obj_len /\ t.cache_offs = s.cache_offs
      /\ t.flags = s.flags /\ ToOrigin(t) = ToOrigin(s) /\ ToClient(t) = ToClient(s)
  BY DEF Does, Keep, Fields, ToOrigin, ToClient
<1>2. Online(t) /\ Steps(t)
  BY LegsSteps DEF Core
<1>3. Place(t)
  BY <1>1 DEF Core, Place
<1>4. \A x \in {"org_recv_eof", "org_recv_paused", "cln_recv_eof"} : x \in t.sm <=> x \in s.sm
  BY DEF Does, Only, LegsX
<1>5. Cached(t)
  BY <1>1, <1>4 DEF Core, Cached
<1>6. Paused(t) /\ Served(t)
  BY <1>1, <1>4 DEF Core, Paused, Served
<1>7. Entry(t) /\ Waits(t) /\ Ledger(t)
  BY <1>1, <1>2, <1>4 DEF Core, Entry, Waits, Ledger, Online, Up
<1> QED
  BY <1>1, <1>2, <1>3, <1>5, <1>6, <1>7 DEF Core

\* Only what the cache serves comes from it.
LEMMA NotFromCache ==
    ASSUME NEW s, Body(s), s.csm \notin {"cache_read", "cache_closed"}
    PROVE  s.strm # "cache"
  BY DEF Body, Asked

\* While the cache is asked the response is one to be cached.
LEMMA Keyed ==
    ASSUME NEW s, Core(s), s.csm \in Deciding
    PROVE  HasCacheKey(s.trans[1])
<1>1. Mach(s)
  BY DEF Core, Online
<1>2. /\ s.trans # <<>> /\ s.trans[1].at > 0
      /\ s.trans[1].tunnel => "org_recv_eof" \in s.sm
      /\ s.trans[1].resp_state = "open"
  BY DEF Core, Cached, Entry, Caching, Waiting, Deciding
<1>3. "org_recv_eof" \notin s.sm
  <2>1. "org_recv_paused" \in s.sm
    BY DEF Core, Paused
  <2> QED
    BY <1>1, <2>1 DEF Mach, Sm, One, In, ORecv
<1> QED
  BY <1>2, <1>3 DEF HasCacheKey, RespHdrsCompleted

\* While the cache is asked the response is one to be cached, whose length has not
\* been told.
LEMMA Limits ==
    ASSUME NEW s, Core(s), s.csm \in Deciding, "pend_tunnel" \notin s.flags,
           s.strm # "cache"
    PROVE  Limitable(s) /\ HasCacheKey(s.trans[1])
<1>1. Mach(s) /\ "org_recv_start" \notin s.sm /\ s.strm = "sock"
  BY DEF Core, Online, Up, Mach, Conns
<1>2. /\ s.trans # <<>> /\ s.trans[1].at > 0
      /\ s.trans[1].tunnel => "org_recv_eof" \in s.sm
      /\ s.trans[1].resp_state = "open" /\ "params_set" \notin s.flags
  BY DEF Core, Cached, Entry, Caching, Waiting, Deciding
<1>3. "org_recv_eof" \notin s.sm
  <2>1. "org_recv_paused" \in s.sm
    BY DEF Core, Paused
  <2> QED
    BY <1>1, <2>1 DEF Mach, Sm, One, In, ORecv
<1>4. "bpctrl_added" \in s.flags
  BY <1>1 DEF Core, Entry
<1>5. s.trans[1].len > 0
  <2>1. s.trans[1].len \in Nat /\ RespBody(s.trans[1]) \in Int /\ 1 \in DOMAIN s.trans
    BY <1>1, <1>2, FirstTyped
  <2>2. 0 <= RespBody(s.trans[1]) /\ RespBody(s.trans[1]) < s.trans[1].len
    BY <1>2, <2>1 DEF Core, Place, TransOk
  <2> QED
    BY <2>1, <2>2
<1> QED
  BY <1>2, <1>3, <1>4, <1>5, Keyed DEF Limitable

\* The object is in the cache: it is compared.
LEMMA AnsOpenRdDone ==
    ASSUME NEW s, Body(s), s.csm = "cache_open_rd", "pend_tunnel" \notin s.flags,
           Free(s, "rd")
    PROVE  LET t == HandlerEvent(s, "cache_op_done") IN Left(s, t)
<1> DEFINE t == HandlerEvent(s, "cache_op_done")
<1>1. /\ Does(s, t, {}, {"cache_op", "cache_offs", "csm"}) /\ t.csm = "cache_compare"
      /\ t.cache_op = "compare"
      /\ t.cache_offs = Len(s.origin_recv) - s.org_cache_rdr
  BY DoneOpenRdDoes DEF Core, Body, Online, Asked
<1> HIDE DEF t
<1>2. /\ t.flags = s.flags /\ t.trans = s.trans /\ t.strm = s.strm
      /\ t.obj_at = s.obj_at /\ t.obj_len = s.obj_len
      /\ t.origin_recv = s.origin_recv /\ t.origin_rdr = s.origin_rdr
      /\ t.wrote = s.wrote /\ t.org_cache_rdr = s.org_cache_rdr
      /\ t.handle = s.handle
  BY <1>1 DEF Does, Keep, Fields
<1>8. Bytes(t)
  BY <1>1, <1>2 DEF Body, Bytes, Wrote, Waiting
<1>3. OpFits(t)
  BY <1>1, <1>2 DEF OpFits, Free
<1>4. Paused(t)
  BY <1>1, <1>2 DEF Core, Body, Paused, Deciding, Does, Only
<1>5. Asked(t) /\ Served(t)
  BY <1>1, <1>2 DEF Body, Asked, Served
<1>6. {"cache_op", "cache_offs", "csm"} \subseteq HandF /\ t.csm \in Caching
  BY <1>1 DEF HandF, Caching, Waiting
<1>9. Allowed(s, t)
  BY <1>1, <1>2 DEF Allowed, Deciding, Waiting
<1> QED
  BY <1>1, <1>2, <1>3, <1>4, <1>5, <1>6, <1>8, <1>9, Moves DEF Body, Caching, Waiting, t

\* It isn't: it is opened to be written.
LEMMA AnsOpenRdNext ==
    ASSUME NEW s, Body(s), s.csm = "cache_open_rd", "pend_tunnel" \notin s.flags,
           s.cache_op = "none"
    PROVE  LET t == HandlerEvent(s, "cache_op_next") IN Left(s, t)
<1> DEFINE t == HandlerEvent(s, "cache_op_next")
<1>1. /\ Does(s, t, {}, {"handle", "cache_op", "csm"}) /\ t.csm = "cache_open_wr"
      /\ t.cache_op = "open_wr" /\ t.handle = "none"
  BY NotFromCache, Limits, NextOpenRdDoes DEF Core, Body, Online, Deciding
<1> HIDE DEF t
<1>2. /\ t.flags = s.flags /\ t.strm = s.strm
      /\ t.trans = s.trans /\ t.wrote = s.wrote /\ t.org_cache_rdr = s.org_cache_rdr
      /\ t.origin_recv = s.origin_recv /\ t.origin_rdr = s.origin_rdr
  BY <1>1 DEF Does, Keep, Fields
<1>8. Bytes(t)
  BY <1>1, <1>2 DEF Body, Asked, Bytes, Wrote, Waiting
<1>3. OpFits(t)
  BY <1>1 DEF OpFits
<1>4. Paused(t)
  BY <1>1, <1>2 DEF Core, Body, Paused, Deciding, Does, Only
<1>5. Asked(t) /\ Served(t)
  BY <1>1, <1>2, NotFromCache DEF Asked, Served
<1>6. {"handle", "cache_op", "csm"} \subseteq HandF /\ t.csm \in Caching
  BY <1>1 DEF HandF, Caching, Waiting
<1>9. Allowed(s, t)
  BY <1>1, <1>2 DEF Allowed, Deciding, Waiting
<1> QED
  BY <1>1, <1>2, <1>3, <1>4, <1>5, <1>6, <1>8, <1>9, Moves DEF Body, Caching, Waiting, t

\* It is the same: the cache takes the origin's place.
LEMMA AnsCompareOk ==
    ASSUME NEW s, Body(s), s.csm = "cache_compare", "pend_tunnel" \notin s.flags,
           Free(s, "rd")
    PROVE  LET t == HandlerEvent(s, "compare_ok") IN Left(s, t)
<1> DEFINE t == HandlerEvent(s, "compare_ok")
<1>0. "org_recv_paused" \in s.sm
  BY DEF Core, Body, Paused, Deciding
<1>1. /\ Does(s, t, ResumeX, {"org_cache_rdr", "strm", "flags", "handle", "csm"})
      /\ t.csm = "cache_read"
      /\ t.strm = "cache" /\ "org_recv_paused" \notin t.sm
      /\ t.flags = s.flags \ {"recv_paused", "bpctrl_added"} /\ t.handle = "none"
  BY <1>0, OkCompareDoes DEF Core, Body, Online, Free
<1> HIDE DEF t
<1>2. /\ t.trans = s.trans /\ t.cache_op = s.cache_op
      /\ t.obj_at = s.obj_at /\ t.obj_len = s.obj_len /\ t.cache_offs = s.cache_offs
      /\ t.origin_recv = s.origin_recv /\ t.origin_rdr = s.origin_rdr
      /\ t.wrote = s.wrote
  BY <1>1 DEF Does, Keep, Fields
<1>8. Bytes(t)
  BY <1>1, <1>2 DEF Body, Bytes, Wrote, Waiting
<1>3. OpFits(t)
  BY <1>1, <1>2 DEF OpFits, Free
<1>4. Paused(t)
  BY <1>1 DEF Paused, Deciding
<1>5. Asked(t)
  BY <1>1, <1>2 DEF Body, Asked
<1>7. Served(t)
  <2>1. /\ s.trans # <<>> /\ s.trans[1].at > 0 /\ s.trans[1].resp_state = "open"
        /\ s.obj_len = s.trans[1].len /\ s.origin_rdr = Len(s.origin_recv)
        /\ s.obj_at = s.trans[1].at /\ s.cache_offs = RespBody(s.trans[1])
    BY DEF Core, Body, Cached, Asked, Caching, Waiting
  <2>2. /\ s.trans[1].at \in Nat /\ s.trans[1].len \in Nat
        /\ RespBody(s.trans[1]) \in Int /\ Len(s.trans) >= 1 /\ Len(s.trans) \in Nat
        /\ s.trans \in Seq(Trans)
    BY <2>1, FirstTyped DEF Core, Body, Online
  <2>3. s.trans[1].at + RespBody(s.trans[1]) - 1 = s.origin_rdr
        /\ RespBody(s.trans[1]) < s.trans[1].len
    BY <2>1, <2>2 DEF Core, Body, Place, TransOk
  <2> QED
    BY <1>2, <2>1, <2>2, <2>3 DEF Served
<1>6. {"org_cache_rdr", "strm", "flags", "handle", "csm"} \subseteq HandF
      /\ t.csm \in Caching /\ ResumeX \subseteq LegsX
  BY <1>1 DEF HandF, Caching, Waiting, ResumeX, LegsX
<1>9. Allowed(s, t)
  BY <1>1, <1>2 DEF Allowed, Deciding, Waiting
<1> QED
  BY <1>1, <1>3, <1>4, <1>5, <1>6, <1>7, <1>8, <1>9, Moves DEF Body, Caching, Waiting, t

\* It is another: it is truncated and written.
LEMMA AnsCompareFail ==
    ASSUME NEW s, Body(s), s.csm = "cache_compare", "pend_tunnel" \notin s.flags,
           Free(s, "rd")
    PROVE  LET t == HandlerEvent(s, "compare_fail") IN Left(s, t)
<1> DEFINE t == HandlerEvent(s, "compare_fail")
<1>1. /\ Does(s, t, {}, {"cache_op", "handle", "csm"}) /\ t.csm = "cache_open_wr"
      /\ t.cache_op = "close" /\ t.handle = "none"
  BY FailCompareDoes DEF Core, Body, Online
<1> HIDE DEF t
<1>2. /\ t.flags = s.flags /\ t.strm = s.strm
      /\ t.trans = s.trans /\ t.wrote = s.wrote /\ t.org_cache_rdr = s.org_cache_rdr
      /\ t.origin_recv = s.origin_recv /\ t.origin_rdr = s.origin_rdr
  BY <1>1 DEF Does, Keep, Fields
<1>8. Bytes(t)
  BY <1>1, <1>2 DEF Body, Asked, Bytes, Wrote, Waiting
<1>3. OpFits(t)
  BY <1>1 DEF OpFits
<1>4. Paused(t)
  BY <1>1, <1>2 DEF Core, Body, Paused, Deciding, Does, Only
<1>5. Asked(t) /\ Served(t)
  BY <1>1, <1>2, NotFromCache DEF Asked, Served
<1>6. {"cache_op", "handle", "csm"} \subseteq HandF /\ t.csm \in Caching
  BY <1>1 DEF HandF, Caching, Waiting
<1>9. Allowed(s, t)
  BY <1>1, <1>2 DEF Allowed, Deciding, Waiting
<1> QED
  BY <1>1, <1>2, <1>3, <1>4, <1>5, <1>6, <1>8, <1>9, Moves DEF Body, Caching, Waiting, t

\* It can be written: the origin is read again.
LEMMA AnsOpenWrDone ==
    ASSUME NEW s, Body(s), s.csm = "cache_open_wr", "pend_tunnel" \notin s.flags,
           Free(s, "wr")
    PROVE  LET t == HandlerEvent(s, "cache_op_done") IN Left(s, t)
<1> DEFINE t == HandlerEvent(s, "cache_op_done")
           F == {"flags", "cache_op", "writing", "csm"}
<1>0. "org_recv_paused" \in s.sm
  BY DEF Core, Body, Paused, Deciding
<1>10. Limitable(s)
  BY NotFromCache, Limits DEF Body, Deciding
<1>1. /\ Does(s, t, ResumeX, F)
      /\ \/ /\ t.csm = "cache_write" /\ t.cache_op = "write"
            /\ t.writing = Len(s.origin_recv) - s.org_cache_rdr
         \/ t.csm = "cache_idle_wr" /\ t.cache_op = "none" /\ ~HasCacheWrData(s)
      /\ "org_recv_paused" \notin t.sm
      /\ s.flags \ {"recv_paused"} \subseteq t.flags
      /\ t.flags \subseteq (s.flags \cup {"params_set"}) \ {"recv_paused"}
  <2>1. CASE HasCacheWrData(s)
    BY <1>0, <1>10, <2>1, DoneOpenWrDataDoes DEF Core, Body, Online
  <2>2. CASE ~HasCacheWrData(s)
    <3>1. /\ Does(s, t, ResumeX, {"flags", "csm"}) /\ t.csm = "cache_idle_wr"
          /\ "org_recv_paused" \notin t.sm
          /\ s.flags \ {"recv_paused"} \subseteq t.flags
          /\ t.flags \subseteq (s.flags \cup {"params_set"}) \ {"recv_paused"}
      BY <1>0, <1>10, <2>2, DoneOpenWrIdleDoes DEF Core, Body, Online
    <3> HIDE DEF t
    <3> QED
      BY <2>2, <3>1 DEF Does, Keep, Fields, Free
  <2> QED
    BY <2>1, <2>2
<1> HIDE DEF t
<1>2. /\ t.strm = s.strm
      /\ t.trans = s.trans /\ t.wrote = s.wrote /\ t.org_cache_rdr = s.org_cache_rdr
      /\ t.origin_recv = s.origin_recv /\ t.origin_rdr = s.origin_rdr
      /\ t.handle = s.handle
  BY <1>1 DEF Does, Keep, Fields
<1>9. Mach(s)
  BY DEF Core, Body, Online
<1>8. Bytes(t)
  BY <1>1, <1>2, <1>9, ReceivedTyped DEF Body, Bytes, Wrote, Waiting, HasCacheWrData
<1>3. OpFits(t)
  BY <1>1, <1>2 DEF OpFits, Free
<1>4. Paused(t)
  BY <1>1, <1>2 DEF Paused, Deciding
<1>5. Asked(t) /\ Served(t)
  BY <1>1, <1>2, NotFromCache DEF Asked, Served
<1>6. F \subseteq HandF /\ t.csm \in Caching /\ ResumeX \subseteq LegsX
  BY <1>1 DEF HandF, Caching, Waiting, ResumeX, LegsX
<1>7. Allowed(s, t)
  BY <1>1, <1>2 DEF Allowed, Deciding, Waiting
<1> HIDE DEF F
<1> QED
  BY <1>1, <1>3, <1>4, <1>5, <1>6, <1>7, <1>8, Moves DEF Body, Caching, Waiting, t

\* The cache failed: the response goes on without it.
LEMMA AnsError ==
    ASSUME NEW s, Core(s), Wrote(s), s.strm # "cache", s.csm \in Waiting,
        "pend_tunnel" \notin s.flags,
           s.cache_op = "none"
    PROVE  LET t == HandlerEvent(s, "cache_op_err") IN
           Left(s, t) /\ Body(t) /\ t.csm = "cache_closed" /\ t.strm # "cache"
           /\ t.trans = s.trans /\ t.origin_rdr = s.origin_rdr
<1> DEFINE t == HandlerEvent(s, "cache_op_err")
           F == {"handle", "flags", "csm"}
<1>1. /\ Does(s, t, ResumeX, F) /\ t.csm = "cache_closed"
      /\ "org_recv_paused" \notin t.sm
      /\ s.flags \ {"recv_paused"} \subseteq t.flags
      /\ "recv_paused" \notin t.flags
      /\ t.flags \subseteq s.flags \cup {"params_set"} /\ t.handle = "none"
  <2>1. CASE s.csm \in Deciding
    <3>1. "org_recv_paused" \in s.sm
      BY <2>1 DEF Core, Body, Paused
    <3> QED
      BY <2>1, <3>1, Limits, ErrDecidingDoes DEF Core, Body, Online
  <2>2. CASE s.csm = "cache_write"
    <3>1. Does(s, t, {}, {"handle", "csm"}) /\ t.csm = "cache_closed"
          /\ t.handle = "none"
      BY <2>2, ErrWriteDoes DEF Core, Body, Online
    <3> HIDE DEF t
    <3>2. "org_recv_paused" \notin s.sm /\ "recv_paused" \notin s.flags
      BY <2>2 DEF Core, Body, Paused, Deciding
    <3> QED
      BY <3>1, <3>2 DEF Does, Only, Keep, Fields
  <2> QED
    BY <2>1, <2>2 DEF Waiting, Deciding
<1> HIDE DEF t
<1>2. /\ t.strm = s.strm /\ t.cache_op = s.cache_op
      /\ t.trans = s.trans /\ t.wrote = s.wrote /\ t.origin_rdr = s.origin_rdr
  BY <1>1 DEF Does, Keep, Fields
<1>8. Bytes(t)
  BY <1>1, <1>2 DEF Bytes, Wrote, Waiting
<1>3. OpFits(t)
  BY <1>1, <1>2 DEF OpFits
<1>4. Paused(t)
  BY <1>1, <1>2 DEF Paused, Deciding
<1>5. Asked(t) /\ Served(t)
  BY <1>1, <1>2 DEF Asked, Served, Waiting
<1>6. F \subseteq HandF /\ s.csm \in Caching /\ ResumeX \subseteq LegsX
  BY DEF HandF, Caching, ResumeX, LegsX
<1>7. Allowed(s, t)
  BY <1>1, <1>2 DEF Allowed, Deciding, Waiting
<1> HIDE DEF F
<1> QED
  BY <1>1, <1>2, <1>3, <1>4, <1>5, <1>6, <1>7, <1>8, Moves DEF t

\* The bytes are written: more follow, or the handler waits for them.
LEMMA AnsWritten ==
    ASSUME NEW s, Body(s), s.csm = "cache_write", "pend_tunnel" \notin s.flags,
           Free(s, "wr")
    PROVE  LET t == HandlerEvent(s, "cache_op_next") IN
           Left(s, t) /\ Body(t) /\ t.csm \in {"cache_write", "cache_idle_wr"}
           /\ t.trans = s.trans /\ t.origin_rdr = s.origin_rdr
<1> DEFINE t == HandlerEvent(s, "cache_op_next")
           F == {"cache_op", "writing", "csm"}
<1>1. /\ Does(s, t, {}, F)
      /\ \/ /\ t.csm = "cache_write" /\ t.cache_op = "write"
            /\ t.writing = Len(s.origin_recv) - s.org_cache_rdr
         \/ t.csm = "cache_idle_wr" /\ t.cache_op = "none" /\ ~HasCacheWrData(s)
  <2>1. CASE HasCacheWrData(s)
    BY <2>1, NextWriteDataDoes DEF Core, Body, Online
  <2>2. CASE ~HasCacheWrData(s)
    <3>1. Does(s, t, {}, {"csm"}) /\ t.csm = "cache_idle_wr"
      BY <2>2, NextWriteIdleDoes DEF Core, Body, Online
    <3> HIDE DEF t
    <3> QED
      BY <2>2, <3>1 DEF Does, Keep, Fields, Free
  <2> QED
    BY <2>1, <2>2
<1> HIDE DEF t
<1>2. /\ t.strm = s.strm /\ t.flags = s.flags
      /\ t.trans = s.trans /\ t.wrote = s.wrote /\ t.org_cache_rdr = s.org_cache_rdr
      /\ t.origin_recv = s.origin_recv /\ t.origin_rdr = s.origin_rdr
      /\ t.handle = s.handle
  BY <1>1 DEF Does, Keep, Fields
<1>9. Mach(s)
  BY DEF Core, Body, Online
<1>8. Bytes(t)
  BY <1>1, <1>2, <1>9, ReceivedTyped DEF Body, Bytes, Wrote, Waiting, HasCacheWrData
<1>3. OpFits(t)
  BY <1>1, <1>2 DEF OpFits, Free
<1>4. Paused(t)
  BY <1>1, <1>2 DEF Core, Body, Paused, Deciding, Does, Only
<1>5. Asked(t) /\ Served(t)
  BY <1>1, <1>2, NotFromCache DEF Asked, Served
<1>6. F \subseteq HandF /\ t.csm \in Caching
  BY <1>1 DEF HandF, Caching, Waiting
<1> HIDE DEF F
<1>10. Allowed(s, t)
  BY <1>1, <1>2 DEF Allowed, Deciding, Waiting
<1> QED
  BY <1>1, <1>2, <1>3, <1>4, <1>5, <1>6, <1>8, <1>10, Moves DEF Body, Caching, Waiting, t

\* There is room for what has been received of the next request.
LEMMA OverIs ==
    ASSUME NEW s, Mach(s), Ledger(s), Place(s), "pend_tunnel" \notin s.flags,
           s.trans # <<>>, RespCompleted(s.trans[1])
    PROVE  Over(s) /\ Later(s.trans) = Later(Tail(s.trans)) + NextReq(s)
           /\ Later(Tail(s.trans)) \in Nat /\ NextReq(s) \in Nat
<1>1. s.trans \in Seq(Trans) /\ Tail(s.trans) \in Seq(Trans)
  BY DEF Mach, Conns
<1>2. /\ Later(s.trans) = Later(Tail(s.trans)) + NextReq(s)
      /\ Later(Tail(s.trans)) \in Nat
  BY <1>1, LaterIs DEF NextReq
<1>3. NextReq(s) \in Nat
  BY <1>1, LaterIs DEF NextReq
<1>4. /\ s.client_rbuf_rdr \in Int /\ s.origin_pending \in Int
      /\ s.client_recv \in Nat /\ s.client_rdr \in Nat
  BY DEF Mach, Conns
<1>5. s.client_rbuf_rdr + s.origin_pending + Later(s.trans) = s.client_rdr
      /\ s.client_rdr <= s.client_recv
  BY DEF Ledger, Place, ToOrigin
<1>6. s.origin_pending + NextReq(s) <= ClnAvail(s)
  BY <1>2, <1>3, <1>4, <1>5 DEF ClnAvail
<1> QED
  BY <1>2, <1>3, <1>6 DEF Over

\* The transaction is finished and the next one waits for its response.
LEMMA NextTrans ==
    ASSUME NEW s, Online(s), Steps(s), ~s.tunnel, Paused(s), Place(s),
           s.csm \notin Deciding, s.strm # "cache", s.cache_op = "none",
           s.trans # <<>>, RespCompleted(s.trans[1]), Ledger(s),
           s.origin_rdr = Len(s.origin_recv), {"bpctrl_added"} = s.flags \cap {"bpctrl_added", "pend_tunnel"},
           NEW t, NEW X, NEW F, Does(s, t, X, F), X \subseteq {"org_send_idle", "org_send"},
           F \subseteq {"org_cache_rdr", "handle", "trans", "wrote", "flags", "csm",
                        "origin_pending"},
           t.csm = "wait_body_data", t.trans = Tail(s.trans), t.wrote = <<>>,
           t.flags = s.flags \ {"params_set", "caching_started",
                                "after_end_data", "trans_completed"},
           t.origin_pending = s.origin_pending + NextReq(s), t.handle = "none"
    PROVE  Left(s, t)
<1>1. /\ t.tunnel = s.tunnel /\ t.strm = s.strm /\ t.cache_op = s.cache_op
      /\ t.origin_recv = s.origin_recv /\ t.origin_rdr = s.origin_rdr
      /\ t.client_rdr = s.client_rdr /\ t.client_recv = s.client_recv
      /\ t.cln_script = s.cln_script /\ t.client_rbuf_rdr = s.client_rbuf_rdr
      /\ ToClient(t) = ToClient(s)
  BY DEF Does, Keep, Fields, ToClient
<1>2. Online(t) /\ Steps(t)
  BY LegsSteps DEF LegsX
<1>3. OpFits(t)
  BY <1>1 DEF OpFits
<1>4. Paused(t)
  BY DEF Paused, Deciding, Does, Only
<1>5. Cached(t) /\ Asked(t) /\ Served(t)
  BY <1>1 DEF Cached, Asked, Served, Caching, Waiting
<1>6. Bytes(t)
  BY DEF Bytes, Wrote, Waiting
<1>7. Place(t)
  <2>1. s.trans \in Seq(Trans)
    BY DEF Online, Mach, Conns
  <2>2. \A k \in DOMAIN t.trans : k \in Nat /\ k + 1 \in DOMAIN s.trans
                                  /\ k + 1 >= 2 /\ t.trans[k] = s.trans[k + 1]
    BY <2>1
  <2>3. \A k \in DOMAIN t.trans : TransOk(t.trans[k]) /\ t.trans[k].at = 0
    BY <2>2 DEF Place
  <2>4. t.trans # <<>> => 1 \in DOMAIN t.trans
    BY <2>1
  <2>5. t.trans # <<>> => ~(t.trans[1].at > 0)
    <3>1. t.trans # <<>> => t.trans[1].at = 0
      BY <2>3, <2>4
    <3> QED
      BY <3>1
  <2> QED
    BY <1>1, <2>3, <2>5 DEF Place
<1>9. Entry(t)
  <2>1. "bpctrl_added" \in t.flags /\ "params_set" \notin t.flags
    OBVIOUS
  <2>2. t.csm \notin Deciding
    BY DEF Deciding
  <2> QED
    BY <2>1, <2>2 DEF Entry
<1>10. Waits(t)
  <2>1. t.org_cache_rdr <= t.origin_rdr
    BY <1>1 DEF Does, Mach, Counts
  <2>3. t.trans # <<>> => t.trans[1].at = 0
    <3>1. s.trans \in Seq(Trans)
      BY DEF Online, Mach, Conns
    <3>2. t.trans # <<>> => 2 \in DOMAIN s.trans /\ t.trans[1] = s.trans[2]
      BY <3>1
    <3> QED
      BY <3>2 DEF Place
  <2>4. "pend_tunnel" \notin t.flags /\ "trans_completed" \notin t.flags
    OBVIOUS
  <2>5. t.csm = "wait_body_data"
    OBVIOUS
  <2>6. t.csm \in Deciding \cup {"wait_body_data"} => "trans_completed" \notin t.flags
    BY <2>4
  <2>7. t.trans # <<>> => ~(t.trans[1].at > 0)
    BY <2>3
  <2> HIDE DEF Waits
  <2> QED
    BY <2>1, <2>4, <2>5, <2>6, <2>7, Zenon DEF Waits
<1>11. Ledger(t)
  <2>1. /\ Later(s.trans) = Later(t.trans) + NextReq(s)
        /\ Later(t.trans) \in Nat /\ NextReq(s) \in Nat
    BY OverIs DEF Online
  <2>2. /\ s.client_rbuf_rdr \in Int /\ s.origin_pending \in Int
        /\ s.client_recv \in Nat /\ s.client_rdr \in Nat
    BY DEF Online, Mach, Conns
  <2>3. /\ s.client_rbuf_rdr + s.origin_pending + Later(s.trans) = s.client_rdr
        /\ s.client_rdr <= s.client_recv
        /\ \A k \in DOMAIN s.trans : s.trans[k].req_state # "bad"
    BY DEF Ledger, Place, ToOrigin
  <2>4. /\ ToOrigin(t) + Later(t.trans) = t.client_rdr /\ ToOrigin(t) <= t.client_rdr
        /\ ToOrigin(t) + Later(t.trans) <= t.client_recv
    BY <1>1, <2>1, <2>2, <2>3 DEF ToOrigin
  <2>5. \A k \in DOMAIN t.trans : t.trans[k].req_state # "bad"
    <3>1. s.trans \in Seq(Trans)
      BY DEF Online, Mach, Conns
    <3>2. \A k \in DOMAIN t.trans : k + 1 \in DOMAIN s.trans /\ t.trans[k] = s.trans[k + 1]
      BY <3>1
    <3> QED
      BY <2>3, <3>2
  <2>6. t.client_rdr \in Nat /\ ToOrigin(t) + Later(t.trans) <= t.client_rdr
    BY <1>1, <2>2, <2>4
  <2>7. ToClient(t) <= t.origin_rdr
    BY <1>1 DEF Ledger
  <2> QED
    BY <2>4, <2>5, <2>6, <2>7 DEF Ledger
<1>8. Good(t)
  BY <1>1, <1>2, <1>3, <1>4, <1>5, <1>6, <1>7, <1>9, <1>10, <1>11 DEF Good, Hand, Online
<1> QED
  BY <1>1, <1>2, <1>8 DEF Left, Does

\* The response is complete: the next transaction.
LEMMA AnsCompleted ==
    ASSUME NEW s, Body(s), OpFits(s), s.strm # "cache",
           s.csm \in {"cache_write", "cache_idle_wr", "cache_closed"},
           RespCompleted(s.trans[1]), s.origin_rdr = Len(s.origin_recv)
    PROVE  Left(s, HandlerEvent(s, "trans_completed"))
<1> DEFINE t == HandlerEvent(s, "trans_completed")
<1>4. s.csm # "cache_write" =>
        /\ Over(s) /\ "pend_tunnel" \notin s.flags
        /\ {"bpctrl_added"} = s.flags \cap {"bpctrl_added", "pend_tunnel"}
  <2>1. s.csm # "cache_write" => "pend_tunnel" \notin s.flags
    BY DEF Body, Core, Waits, Waiting
  <2>2. Mach(s) /\ "org_recv_start" \notin s.sm /\ s.strm = "sock" /\ s.trans # <<>>
    BY DEF Body, Core, Cached, Online, Up, Mach, Conns
  <2>3. s.csm # "cache_write" => "bpctrl_added" \in s.flags
    BY <2>1, <2>2 DEF Body, Core, Entry
  <2> QED
    BY <2>1, <2>2, <2>3, OverIs DEF Body, Core
<1>1. CASE s.csm = "cache_write"
  <2>1. /\ Does(s, t, {}, {"flags", "csm"}) /\ t.csm = "cache_write"
        /\ t.flags = s.flags \cup {"trans_completed"}
    BY <1>1, CompletedWriteDoes DEF Body, Core, Online
  <2> HIDE DEF t
  <2>2. /\ t.strm = s.strm /\ t.cache_op = s.cache_op /\ t.writing = s.writing
        /\ t.trans = s.trans /\ t.wrote = s.wrote /\ t.org_cache_rdr = s.org_cache_rdr
        /\ t.origin_recv = s.origin_recv /\ t.origin_rdr = s.origin_rdr
        /\ t.handle = s.handle
    BY <2>1 DEF Does, Keep, Fields
  <2>3. Bytes(t)
    BY <1>1, <2>1, <2>2 DEF Body, Bytes, Wrote, Waiting
  <2>4. OpFits(t)
    BY <1>1, <2>1, <2>2 DEF OpFits
  <2>5. Paused(t)
    BY <1>1, <2>1, <2>2 DEF Core, Body, Paused, Deciding, Does, Only
  <2>6. Asked(t) /\ Served(t)
    BY <2>1, <2>2 DEF Asked, Served
  <2>7. {"flags", "csm"} \subseteq HandF /\ t.csm \in Caching /\ s.csm \in Caching
    BY <1>1, <2>1 DEF HandF, Caching, Waiting
  <2>8. Allowed(s, t)
    BY <1>1, <2>1, <2>2 DEF Allowed, Deciding, Waiting
  <2> QED
    BY <2>1, <2>3, <2>4, <2>5, <2>6, <2>7, <2>8, Moves DEF Body, t
<1>2. CASE s.csm = "cache_idle_wr"
  <2>1. s.trans # <<>> /\ s.cache_op = "none"
    BY <1>2 DEF Body, Core, Cached, OpFits
  <2>2. /\ Does(s, t, {"org_send_idle", "org_send"}, {"handle", "trans", "wrote", "flags",
            "csm", "origin_pending"})
        /\ t.csm = "wait_body_data" /\ t.trans = Tail(s.trans) /\ t.wrote = <<>>
        /\ t.handle = "none" /\ t.origin_pending = s.origin_pending + NextReq(s)
        /\ t.flags = s.flags \ {"params_set", "caching_started", "after_end_data",
            "trans_completed"}
    BY <1>2, <1>4, <2>1, CompletedIdleDoes DEF Body, Core
  <2> HIDE DEF t
  <2>3. s.csm \notin Deciding
    BY <1>2 DEF Deciding
  <2> QED
    BY <1>2, <1>4, <2>1, <2>2, <2>3, NextTrans DEF Body, Core, t
<1>3. CASE s.csm = "cache_closed"
  <2>1. s.trans # <<>> /\ s.cache_op = "none" /\ s.handle = "none"
    <3>1. s.handle \in {"none", "rd", "wr"}
      BY DEF Body, Core, Online, Mach, Conns
    <3> QED
      BY <1>3, <3>1 DEF Body, Core, Cached, OpFits
  <2>2. /\ Does(s, t, {"org_send_idle", "org_send"}, {"trans", "wrote", "flags", "csm",
            "origin_pending"})
        /\ t.origin_pending = s.origin_pending + NextReq(s)
        /\ t.csm = "wait_body_data" /\ t.trans = Tail(s.trans) /\ t.wrote = <<>>
        /\ t.flags = s.flags \ {"params_set", "caching_started", "after_end_data",
            "trans_completed"}
    BY <1>3, <1>4, <2>1, CompletedClosedDoes DEF Body, Core
  <2> HIDE DEF t
  <2>3. s.csm \notin Deciding
    BY <1>3 DEF Deciding
  <2>4. t.handle = "none"
    BY <2>1, <2>2 DEF Does, Keep, Fields
  <2> QED
    BY <1>3, <1>4, <2>1, <2>2, <2>3, <2>4, NextTrans DEF Body, Core, t
<1> QED
  BY <1>1, <1>2, <1>3

\* A step that only the operation of the cache sees.
LEMMA BodySame ==
    ASSUME NEW s, Body(s), NEW t, NEW X, Does(s, t, X, {"handle", "cache_op"}),
           s.csm # "wait_body_data", X \subseteq LegsX \ {"org_recv_paused"}
    PROVE  Body(t) /\ t.csm = s.csm /\ t.strm = s.strm /\ t.flags = s.flags
<1>1. /\ t.trans = s.trans /\ t.origin_recv = s.origin_recv
      /\ t.origin_rdr = s.origin_rdr /\ t.flags = s.flags
      /\ t.csm = s.csm /\ t.strm = s.strm /\ t.org_cache_rdr = s.org_cache_rdr
      /\ t.obj_at = s.obj_at /\ t.obj_len = s.obj_len /\ t.cache_offs = s.cache_offs
      /\ t.wrote = s.wrote /\ t.writing = s.writing
  BY DEF Does, Keep, Fields
<1>2. Core(t)
  BY <1>1, CoreSame DEF Body
<1>3. "org_recv_eof" \in t.sm <=> "org_recv_eof" \in s.sm
  BY DEF Does, Only, LegsX
<1>4. Asked(t)
  BY <1>1, <1>3 DEF Body, Asked
<1>5. Bytes(t)
  BY <1>1 DEF Body, Bytes, Wrote
<1> QED
  BY <1>1, <1>2, <1>4, <1>5 DEF Body

\* A pending tunnel starts with the answer.
LEMMA PendLeft ==
    ASSUME NEW s, Core(s), s.cache_op = "none", "pend_tunnel" \in s.flags, NEW ev,
           \/ s.csm = "cache_open_rd" /\ ev \in {"cache_op_err", "cache_op_done",
               "cache_op_next"}
           \/ s.csm = "cache_compare" /\ ev \in {"cache_op_err", "compare_ok", "compare_fail"}
           \/ s.csm = "cache_open_wr" /\ ev \in {"cache_op_err", "cache_op_done"}
           \/ s.csm = "cache_write" /\ ev \in {"cache_op_err", "cache_op_next"}
    PROVE  Left(s, HandlerEvent(s, ev))
<1> DEFINE t == HandlerEvent(s, ev)
<1>1. /\ Does(s, t, TunnelX, TunnelF) /\ t.csm = "cache_closed"
      /\ Quiet(s, t) /\ Blind(t)
  BY PendingEndsDoes DEF Core
<1> HIDE DEF t
<1> QED
  BY <1>1, TunnelLeft DEF Core, t

-----------------------------------------------------------------------------
(* The callbacks of the cache.                                             *)

\* The state the callback of an operation of the cache starts from.
Freed(s) == [s EXCEPT !.cache_op = "none"]

\* The operation of the cache has ended; the state says which one it was.
LEMMA FreedDoes ==
    ASSUME NEW s, Good(s), s.cache_op # "none"
    PROVE  LET t == Freed(s) IN
           /\ Does(s, t, {}, {"cache_op"}) /\ t.cache_op = "none" /\ Body(t)
           /\ t.csm = s.csm /\ t.csm \in Waiting
           /\ t.csm = "cache_open_rd" <=> s.cache_op = "open_rd"
           /\ t.csm = "cache_compare" <=> s.cache_op = "compare"
           /\ t.csm = "cache_open_wr" <=> s.cache_op \in {"close", "open_wr"}
           /\ t.csm = "cache_write" <=> s.cache_op = "write"
           /\ t.handle = "rd" <=> t.csm = "cache_compare"
           /\ t.handle = "wr" <=> t.csm = "cache_write"
           /\ t.handle \in {"none", "rd", "wr"}
<1> DEFINE o == "none"
           t == [s EXCEPT !.cache_op = o]
<1>1. s \in Conns /\ Mach(s) /\ s.csm \in Csms
  BY DEF Good, Mach, Conns
<1>2. ~s.tunnel /\ Hand(s)
  BY DEF Good
<1>3. /\ s.csm = "cache_open_rd" <=> s.cache_op = "open_rd"
      /\ s.csm = "cache_compare" <=> s.cache_op = "compare"
      /\ s.csm = "cache_open_wr" <=> s.cache_op \in {"close", "open_wr"}
      /\ s.csm = "cache_write" <=> s.cache_op = "write"
      /\ s.csm \in Waiting
  BY <1>1, <1>2 DEF Hand, OpFits, Waiting, Csms
<1>4. Up(s.sm)
  BY <1>3 DEF Good, Steps, Waiting
<1>5. Body(s)
  BY <1>2, <1>4, BodyGood
<1>6. Freed(s) = t
  BY DEF Freed
<1>7. o \in CacheOps
  BY DEF CacheOps
<1> HIDE DEF o
<1>8. t \in Conns
  BY <1>1, <1>7 DEF Conns
<1>9. /\ t.sm = s.sm /\ t.ops = s.ops /\ Given(t) = Given(s)
      /\ t.bug = s.bug /\ t.cache_op = o /\ t.handle = s.handle
  BY <1>1 DEF Conns, Given
<1>10. Keep(s, t, {"cache_op"})
  BY <1>1 DEF Conns, Keep, Fields
<1>11. Does(s, t, {}, {"cache_op"})
  BY <1>1, <1>8, <1>9, <1>10, Updated DEF CountF
<1> HIDE DEF t
<1>12. Does(s, t, {}, {"handle", "cache_op"})
  BY <1>11 DEF Does, Keep
<1>13. Body(t) /\ t.csm = s.csm
  BY <1>3, <1>5, <1>12, BodySame DEF Waiting
<1>14. /\ s.handle = "rd" <=> s.csm = "cache_compare"
       /\ s.handle = "wr" <=> s.csm = "cache_write"
       /\ s.handle \in {"none", "rd", "wr"}
  BY <1>1, <1>2, <1>3 DEF Hand, OpFits, Waiting, Conns
<1> QED
  BY <1>3, <1>6, <1>9, <1>11, <1>13, <1>14 DEF o

\* The handle of the object.
LEMMA HandleDoes ==
    ASSUME NEW s, Mach(s), NEW h \in {"none", "rd", "wr"}
    PROVE  Does(s, [s EXCEPT !.handle = h], {}, {"handle"})
<1> DEFINE t == [s EXCEPT !.handle = h]
<1>1. s \in Conns
  BY DEF Mach
<1>2. t \in Conns
  BY <1>1 DEF Conns
<1>3. /\ t.sm = s.sm /\ t.ops = s.ops /\ Given(t) = Given(s) /\ t.bug = s.bug
  BY <1>1 DEF Conns, Given
<1>4. Keep(s, t, {"handle"})
  BY <1>1 DEF Conns, Keep, Fields
<1> HIDE DEF t
<1> QED
  BY <1>2, <1>3, <1>4, Updated DEF CountF, t

\* consume_cache_wr_data: the bytes have been written and make room.
LEMMA ConsumeDoes ==
    ASSUME NEW s, Mach(s), Up(s.sm), NEW n \in Int, 0 <= s.org_cache_rdr + n,
           s.org_cache_rdr + n <= Len(s.origin_recv)
    PROVE  LET t == ConsumeCacheWrData(s, n) IN
           /\ Does(s, t, {"org_recv", "org_recv_idle"}, {"org_cache_rdr"})
           /\ t.org_cache_rdr = s.org_cache_rdr + n
<1> DEFINE m == s.org_cache_rdr + n
           d == [s EXCEPT !.org_cache_rdr = m]
           t == ProcessEvent(d, "org_recv")
<1>1. s \in Conns /\ s.org_cache_rdr \in Int
  BY DEF Mach, Conns
<1>2. m \in Int
  BY <1>1
<1>3. ConsumeCacheWrData(s, n) = t
  BY DEF ConsumeCacheWrData
<1>4. m = s.org_cache_rdr + n
  OBVIOUS
<1> HIDE DEF m
<1>5. d \in Conns
  BY <1>1, <1>2 DEF Conns
<1>6. /\ d.sm = s.sm /\ d.ops = s.ops /\ Given(d) = Given(s)
      /\ d.bug = s.bug /\ d.org_cache_rdr = m
  BY <1>1 DEF Conns, Given
<1>7. Keep(s, d, {"org_cache_rdr"})
  BY <1>1 DEF Conns, Keep, Fields
<1> HIDE DEF d
<1>8. Does(s, d, {}, {"org_cache_rdr"})
  <2>1. /\ d.client_rbuf_rdr = s.client_rbuf_rdr /\ d.origin_rbuf_rdr = s.origin_rbuf_rdr
        /\ d.client_pending = s.client_pending /\ d.origin_pending = s.origin_pending
        /\ d.client_recv = s.client_recv /\ d.origin_recv = s.origin_recv
    BY <1>7 DEF Keep, Fields
  <2>2. Counts(d)
    BY <1>4, <1>6, <1>7, <2>1 DEF Mach, Counts
  <2>3. s.client_pending \in Int /\ s.origin_pending \in Int
    BY <1>1 DEF Conns
  <2> QED
    BY <1>5, <1>6, <1>7, <2>1, <2>2, <2>3, Counted
<1>9. Does(d, t, {"org_recv", "org_recv_idle"}, {})
  <2>1. Mach(d) /\ Up(d.sm)
    BY <1>6, <1>8 DEF Does
  <2> QED
    BY <2>1, EvOrgRecv
<1> HIDE DEF t
<1>10. t.org_cache_rdr = d.org_cache_rdr
  BY <1>9 DEF Does, Keep, Fields
<1> QED
  BY <1>3, <1>4, <1>6, <1>8, <1>9, <1>10 DEF Does, Only, Keep

\* After an error of the cache the connection goes on without it.
LEMMA ErrorLeft ==
    ASSUME NEW s, Core(s), Wrote(s), s.strm # "cache", s.cache_op = "none", s.csm \in Waiting
    PROVE  LET t == CacheError(s) IN
           /\ Left(s, t)
           /\ "pend_tunnel" \notin s.flags
                => /\ Body(t) /\ OpFits(t) /\ t.csm = "cache_closed" /\ t.strm # "cache"
                   /\ t.trans = s.trans /\ t.origin_rdr = s.origin_rdr
<1> DEFINE n == Len(s.origin_recv) - s.org_cache_rdr
           r == ConsumeCacheWrData(s, n)
           t == HandlerEvent(r, "cache_op_err")
           X == {"org_recv", "org_recv_idle"}
<1>1. Mach(s) /\ Up(s.sm)
  BY DEF Core, Online
<1>2. n \in Int
  BY <1>1, ReceivedTyped
<1>3. CacheError(s) = t
  BY DEF CacheError
<1> HIDE DEF n
<1>4. Does(s, r, X, {"org_cache_rdr"})
  <2>1. s.org_cache_rdr \in Int /\ Len(s.origin_recv) \in Nat
    BY <1>1, ReceivedTyped
  <2>2. 0 <= s.org_cache_rdr + n /\ s.org_cache_rdr + n <= Len(s.origin_recv)
    BY <2>1 DEF n
  <2> QED
    BY <1>1, <1>2, <2>2, ConsumeDoes
<1> HIDE DEF r
<1>5. /\ r.flags = s.flags /\ r.cache_op = s.cache_op /\ r.trans = s.trans
      /\ r.wrote = s.wrote /\ r.origin_recv = s.origin_recv
      /\ r.origin_rdr = s.origin_rdr
  BY <1>4 DEF Does, Keep, Fields
<1>6. X \subseteq LegsX \ {"org_recv_paused"}
  BY DEF LegsX
<1> HIDE DEF X
<1>7. Core(r) /\ r.csm = s.csm /\ r.strm = s.strm
  BY <1>4, <1>5, <1>6, CoreSame DEF Waiting
<1>8. Wrote(r)
  BY <1>5 DEF Wrote
<1>9. CASE "pend_tunnel" \in s.flags
  <2>1. Left(r, t)
    BY <1>5, <1>7, <1>9, PendLeft DEF Waiting
  <2> QED
    BY <1>3, <1>4, <1>5, <1>9, <2>1 DEF Left, Does
<1>10. CASE "pend_tunnel" \notin s.flags
  <2>1. Left(r, t) /\ Body(t) /\ t.csm = "cache_closed" /\ t.strm # "cache"
        /\ t.trans = r.trans /\ t.origin_rdr = r.origin_rdr
    BY <1>5, <1>7, <1>8, <1>10, AnsError
  <2>2. OpFits(t)
    BY <2>1 DEF Left, Good, Hand, Body, Core
  <2> QED
    BY <1>3, <1>4, <1>5, <2>1, <2>2 DEF Left, Does
<1> QED
  BY <1>9, <1>10

\* What follows from a step and the rest of the handler.
LEMMA ThenLeft ==
    ASSUME NEW s, NEW r, NEW X, NEW F, Does(s, r, X, F), "origin_recv" \notin F,
           NEW t, Left(r, t)
    PROVE  Left(s, t)
<1>1. r.origin_recv = s.origin_recv
  BY DEF Does, Keep, Fields
<1> QED
  BY <1>1 DEF Left, Does

\* The same from the whole invariant.
LEMMA BodyError ==
    ASSUME NEW s, Body(s), s.cache_op = "none", s.csm \in Waiting
    PROVE  LET t == CacheError(s) IN
           /\ Left(s, t)
           /\ "pend_tunnel" \notin s.flags
                => /\ Body(t) /\ OpFits(t) /\ t.csm = "cache_closed" /\ t.strm # "cache"
                   /\ t.trans = s.trans /\ t.origin_rdr = s.origin_rdr
<1>1. s.strm # "cache" /\ Wrote(s) /\ Core(s)
  BY NotFromCache DEF Waiting, Body, Bytes
<1> QED
  BY <1>1, ErrorLeft

\* on_cache_open_rd.
LEMMA StepOpenRdDone ==
    ASSUME IInv, OpenRdDone
    PROVE  IInv'
<1> DEFINE c == Freed(conn)
<1>1. PICK res \in {"ok", "not_present", "err"} : Becomes(OnOpenRd(c, res))
  BY DEF OpenRdDone, CacheDone, Freed
<1> DEFINE t == OnOpenRd(c, res)
<1>2. SUFFICES ASSUME Good(conn)
               PROVE  Kept(conn, t)
  BY <1>1, Lands
<1>3. /\ Does(conn, c, {}, {"cache_op"}) /\ c.cache_op = "none" /\ Body(c)
      /\ c.csm = "cache_open_rd" /\ c.handle # "wr" /\ c.handle # "rd"
  BY <1>2, FreedDoes DEF OpenRdDone
<1> HIDE DEF c
<1>4. Left(c, t)
  <2>1. CASE res = "ok"
    <3> DEFINE d == [c EXCEPT !.handle = "rd"]
    <3>1. Does(c, d, {}, {"handle"})
      BY <1>3, HandleDoes DEF Body, Core, Online
    <3>2. t = HandlerEvent(d, "cache_op_done")
      BY <2>1 DEF OnOpenRd
    <3>0. d.handle = "rd"
      BY <1>3 DEF Body, Core, Online, Mach, Conns
    <3> HIDE DEF d, t
    <3>3. Does(c, d, {}, {"handle", "cache_op"})
      BY <3>1 DEF Does, Keep
    <3>4. Body(d) /\ d.csm = "cache_open_rd" /\ Free(d, "rd")
      <4>1. d.cache_op = c.cache_op
        BY <3>1 DEF Does, Keep, Fields
      <4> QED
        BY <1>3, <3>0, <3>3, <4>1, BodySame DEF Free
    <3>5. Left(d, t)
      BY <3>2, <3>4, AnsOpenRdDone, PendLeft DEF Body, Free
    <3> QED
      BY <3>1, <3>5, ThenLeft
  <2>2. CASE res = "not_present"
    <3>1. t = HandlerEvent(c, "cache_op_next")
      BY <2>2 DEF OnOpenRd
    <3> QED
      BY <1>3, <3>1, AnsOpenRdNext, PendLeft DEF Body
  <2>3. CASE res = "err"
    <3>1. t = CacheError(c)
      BY <2>3 DEF OnOpenRd
    <3> QED
      BY <1>3, <3>1, BodyError DEF Waiting
  <2> QED
    BY <2>1, <2>2, <2>3
<1> HIDE DEF t
<1> QED
  BY <1>3, <1>4, ThenLeft, LeftKept

\* on_cache_compare.
LEMMA StepCompareDone ==
    ASSUME IInv, CompareDone
    PROVE  IInv'
<1> DEFINE c == Freed(conn)
<1>1. PICK res \in {"ok", "fail", "err"} : Becomes(OnCompare(c, res))
  BY DEF CompareDone, CacheDone, Freed
<1> DEFINE t == OnCompare(c, res)
<1>2. SUFFICES ASSUME Good(conn)
               PROVE  Kept(conn, t)
  BY <1>1, Lands
<1>3. /\ Does(conn, c, {}, {"cache_op"}) /\ c.cache_op = "none" /\ Body(c)
      /\ c.csm = "cache_compare" /\ Free(c, "rd")
  BY <1>2, FreedDoes DEF CompareDone, Free
<1> HIDE DEF c
<1>4. Left(c, t)
  <2>1. CASE res = "ok"
    <3>1. t = HandlerEvent(c, "compare_ok")
      BY <2>1 DEF OnCompare
    <3> QED
      BY <1>3, <3>1, AnsCompareOk, PendLeft DEF Body
  <2>2. CASE res = "fail"
    <3>1. t = HandlerEvent(c, "compare_fail")
      BY <2>2 DEF OnCompare
    <3> QED
      BY <1>3, <3>1, AnsCompareFail, PendLeft DEF Body
  <2>3. CASE res = "err"
    <3>1. t = CacheError(c)
      BY <2>3 DEF OnCompare
    <3> QED
      BY <1>3, <3>1, BodyError DEF Waiting
  <2> QED
    BY <2>1, <2>2, <2>3
<1> HIDE DEF t
<1> QED
  BY <1>3, <1>4, ThenLeft, LeftKept

\* The object is closed to be truncated.
LEMMA StepCloseDone ==
    ASSUME IInv, CloseDone
    PROVE  IInv'
<1> DEFINE c == Freed(conn)
<1>1. PICK res \in {"ok", "err"} : Becomes(OnClose(c, res))
  BY DEF CloseDone, CacheDone, Freed
<1> DEFINE t == OnClose(c, res)
<1>2. SUFFICES ASSUME Good(conn)
               PROVE  Kept(conn, t)
  BY <1>1, Lands
<1>3. /\ Does(conn, c, {}, {"cache_op"}) /\ c.cache_op = "none" /\ Body(c)
      /\ c.csm = "cache_open_wr" /\ Free(c, "none")
  BY <1>2, FreedDoes DEF CloseDone, Free
<1> HIDE DEF c
<1>4. Left(c, t)
  <2>1. CASE res = "ok"
    <3>1. t = CacheOpenWr(c)
      BY <2>1 DEF OnClose
    <3>2. Does(c, t, {}, {"cache_op"}) /\ t.cache_op = "open_wr"
      <4>1. HasCacheKey(c.trans[1])
        BY <1>3, Keyed DEF Body, Deciding
      <4> QED
        BY <1>3, <3>1, <4>1, CacheOpenWrDoes DEF Body, Core, Online
    <3> HIDE DEF t
    <3>3. Does(c, t, {}, {"handle", "cache_op"}) /\ t.origin_recv = c.origin_recv
      BY <3>2 DEF Does, Keep, Fields
    <3>6. t.handle = "none"
      BY <1>3, <3>2 DEF Does, Keep, Fields, Free
    <3>4. Body(t) /\ t.csm = "cache_open_wr"
      BY <1>3, <3>3, BodySame
    <3>5. OpFits(t)
      BY <3>2, <3>4, <3>6 DEF OpFits
    <3> QED
      BY <3>2, <3>3, <3>4, <3>5, BodyGood DEF Left, Does, Body, Core
  <2>2. CASE res = "err"
    <3>1. t = CacheError(c)
      BY <2>2 DEF OnClose
    <3> QED
      BY <1>3, <3>1, BodyError DEF Waiting
  <2> QED
    BY <2>1, <2>2
<1> HIDE DEF t
<1> QED
  BY <1>3, <1>4, ThenLeft, LeftKept

\* on_cache_open_wr.
LEMMA StepOpenWrDone ==
    ASSUME IInv, OpenWrDone
    PROVE  IInv'
<1> DEFINE c == Freed(conn)
<1>1. PICK res \in {"ok", "err"} : Becomes(OnOpenWr(c, res))
  BY DEF OpenWrDone, CacheDone, Freed
<1> DEFINE t == OnOpenWr(c, res)
<1>2. SUFFICES ASSUME Good(conn)
               PROVE  Kept(conn, t)
  BY <1>1, Lands
<1>3. /\ Does(conn, c, {}, {"cache_op"}) /\ c.cache_op = "none" /\ Body(c)
      /\ c.csm = "cache_open_wr" /\ c.handle # "wr" /\ c.handle # "rd"
  BY <1>2, FreedDoes DEF OpenWrDone
<1> HIDE DEF c
<1>4. Left(c, t)
  <2>1. CASE res = "ok"
    <3> DEFINE d == [c EXCEPT !.handle = "wr"]
    <3>1. Does(c, d, {}, {"handle"})
      BY <1>3, HandleDoes DEF Body, Core, Online
    <3>2. t = HandlerEvent(d, "cache_op_done")
      BY <2>1 DEF OnOpenWr
    <3>0. d.handle = "wr"
      BY <1>3 DEF Body, Core, Online, Mach, Conns
    <3> HIDE DEF d, t
    <3>3. Does(c, d, {}, {"handle", "cache_op"})
      BY <3>1 DEF Does, Keep
    <3>4. Body(d) /\ d.csm = "cache_open_wr" /\ Free(d, "wr")
      <4>1. d.cache_op = c.cache_op
        BY <3>1 DEF Does, Keep, Fields
      <4> QED
        BY <1>3, <3>0, <3>3, <4>1, BodySame DEF Free
    <3>5. Left(d, t)
      BY <3>2, <3>4, AnsOpenWrDone, PendLeft DEF Body, Free
    <3> QED
      BY <3>1, <3>5, ThenLeft
  <2>2. CASE res = "err"
    <3>1. t = CacheError(c)
      BY <2>2 DEF OnOpenWr
    <3> QED
      BY <1>3, <3>1, BodyError DEF Waiting
  <2> QED
    BY <2>1, <2>2
<1> HIDE DEF t
<1> QED
  BY <1>3, <1>4, ThenLeft, LeftKept

-----------------------------------------------------------------------------
(* Writes to the cache.                                                    *)

\* The object after a write.
WritingDoes(s, w) == [s EXCEPT !.wrote = w, !.writing = 0]

\* It is longer by what was written.
LEMMA WritingSet ==
    ASSUME NEW s, Mach(s), NEW w \in Seq(Nat)
    PROVE  LET t == WritingDoes(s, w) IN
           Does(s, t, {}, {"wrote", "writing"}) /\ t.wrote = w /\ t.writing = 0
<1> DEFINE z == 0
           t == [s EXCEPT !.wrote = w, !.writing = z]
<1>1. s \in Conns
  BY DEF Mach
<1>2. WritingDoes(s, w) = t
  BY DEF WritingDoes
<1>3. z \in Int
  OBVIOUS
<1> HIDE DEF z
<1>4. t \in Conns
  BY <1>1, <1>3 DEF Conns
<1>5. /\ t.sm = s.sm /\ t.ops = s.ops /\ Given(t) = Given(s)
      /\ t.bug = s.bug /\ t.wrote = w /\ t.writing = z
  BY <1>1 DEF Conns, Given
<1>6. Keep(s, t, {"wrote", "writing"})
  BY <1>1 DEF Conns, Keep, Fields
<1> HIDE DEF t
<1> QED
  BY <1>2, <1>4, <1>5, <1>6, Updated DEF z, CountF

\* Arithmetic of the places in what is written.
LEMMA Shift ==
    ASSUME NEW a \in Nat, NEW n \in Nat, NEW j \in 1..n
    PROVE  /\ j \in 1..(a + n - (a + 1) + 1) /\ a + 1 + j - 1 = a + j
           /\ a + j >= 1 /\ a + j <= a + n /\ a + j \in Nat
  OBVIOUS

\* Arithmetic of the place of the cache's reader.
LEMMA Further ==
    ASSUME NEW o \in Int, NEW at \in Int, NEW l \in Int, NEW n \in Int,
           o = at - 1 + l
    PROVE  o + n = at - 1 + (l + n) /\ o + n + 0 = o + n
  OBVIOUS

\* What is written is the next part of what has been received.
LEMMA GivenIs ==
    ASSUME NEW s, Body(s), Intact(s), s.csm = "cache_write"
    PROVE  LET given == SubSeq(s.origin_recv, s.org_cache_rdr + 1,
                               s.org_cache_rdr + s.writing)
           IN  /\ given \in Seq(Nat) /\ Len(given) = s.writing /\ s.writing \in Nat
               /\ s.wrote \o given \in Seq(Nat)
               /\ Len(s.wrote \o given) = Len(s.wrote) + s.writing
               /\ \A i \in DOMAIN (s.wrote \o given) :
                        (s.wrote \o given)[i] = s.trans[1].at + i - 1
               /\ s.trans[1].at > 0
<1> DEFINE r == s.origin_recv
           a == s.org_cache_rdr
           n == s.writing
           given == SubSeq(r, a + 1, a + n)
           at == s.trans[1].at
           w == s.wrote
           l == Len(w)
           b == w \o given
<1>1. /\ r \in Seq(Nat) /\ w \in Seq(Nat) /\ a \in Int /\ n \in Int
  BY DEF Body, Core, Online, Mach, Conns
<1>2. /\ s.trans # <<>> /\ at > 0 /\ a = at - 1 + l /\ 0 <= n /\ a + n <= Len(r)
  BY DEF Body, Core, Cached, Bytes, Caching, Waiting
<1>3. at \in Nat
  BY <1>2, FirstTyped DEF Body, Core, Online
<1>4. \A i \in DOMAIN w : w[i] = at + i - 1
  BY DEF Body, Bytes, Wrote
<1>5. \A i \in DOMAIN r : r[i] = i
  BY DEF Intact
<1> HIDE DEF r, a, n, at, w
<1>6. l \in Nat
  BY <1>1
<1> HIDE DEF l
<1>7. a \in Nat /\ n \in Nat /\ Len(r) \in Nat
  BY <1>1, <1>2, <1>3, <1>6
<1>8. /\ given \in Seq(Nat) /\ Len(given) = n
      /\ \A j \in 1..n : given[j] = r[a + j] /\ a + j \in DOMAIN r
  <2>1. \A k \in (a + 1)..(a + n) : r[k] \in Nat
    BY <1>1, <1>2, <1>7
  <2>2. given \in Seq(Nat) /\ Len(given) = IF a + 1 <= a + n THEN a + n - (a + 1) + 1 ELSE 0
    BY <1>7, <2>1, SubSeqProperties
  <2>3. \A j \in 1..(a + n - (a + 1) + 1) : given[j] = r[a + 1 + j - 1]
    BY <1>7, <2>1, SubSeqProperties
  <2>4. \A j \in 1..n : /\ j \in 1..(a + n - (a + 1) + 1) /\ a + 1 + j - 1 = a + j
                        /\ a + j \in DOMAIN r
    <3>1. DOMAIN r = 1..Len(r)
      BY <1>1
    <3>2. \A k \in Nat : k >= 1 /\ k <= a + n => k \in 1..Len(r)
      BY <1>2, <1>7
    <3> QED
      BY <1>7, <3>1, <3>2, Shift
  <2> HIDE DEF given
  <2> QED
    BY <1>7, <2>2, <2>3, <2>4
<1> HIDE DEF given
<1>9. /\ b \in Seq(Nat) /\ Len(b) = l + n
      /\ \A i \in 1..l : b[i] = w[i]
      /\ \A i \in 1..(l + n) : i > l => b[i] = given[i - l]
  <2>1. /\ b \in Seq(Nat) /\ Len(b) = l + n
        /\ \A i \in 1..(l + n) : b[i] = IF i <= l THEN w[i] ELSE given[i - l]
    BY <1>1, <1>8, ConcatProperties DEF l
  <2>2. \A i \in 1..l : i \in 1..(l + n) /\ i <= l
    BY <1>6, <1>7
  <2>3. \A i \in 1..(l + n) : i > l => ~(i <= l)
    BY <1>6
  <2> HIDE DEF b
  <2> QED
    BY <2>1, <2>2, <2>3
<1> HIDE DEF b
<1>10. ASSUME NEW i \in DOMAIN b
       PROVE  b[i] = at + i - 1
  <2>1. i \in 1..(l + n)
    BY <1>6, <1>7, <1>9
  <2>2. CASE i <= l
    <3>1. i \in DOMAIN w
      BY <1>1, <1>6, <2>1, <2>2 DEF l
    <3>2. i \in 1..l
      BY <1>6, <2>1, <2>2
    <3> QED
      BY <1>4, <1>9, <3>1, <3>2
  <2>3. CASE i > l
    <3>1. i - l \in 1..n /\ i - l \in Nat
      BY <1>6, <1>7, <2>1, <2>3
    <3>2. b[i] = given[i - l]
      BY <1>9, <2>1, <2>3
    <3>3. given[i - l] = r[a + (i - l)] /\ a + (i - l) \in DOMAIN r
      BY <1>8, <3>1
    <3>4. given[i - l] = a + (i - l)
      BY <1>5, <3>3
    <3> QED
      BY <1>2, <1>3, <1>6, <2>1, <3>2, <3>4
  <2> QED
    BY <1>6, <2>1, <2>2, <2>3
<1> QED
  BY <1>2, <1>7, <1>8, <1>9, <1>10 DEF r, a, n, at, w, l, b, given

\* A write that ended, with or without an error.
LEMMA WrittenLeft ==
    ASSUME NEW s, Body(s), Intact(s), s.csm = "cache_write", Free(s, "wr"),
           NEW res \in {"ok", "err"}
    PROVE  LET t == Written(s, res) IN
           /\ Left(s, t)
           /\ "pend_tunnel" \notin s.flags
                => /\ Body(t) /\ OpFits(t) /\ t.strm # "cache"
                   /\ t.csm \in {"cache_write", "cache_idle_wr", "cache_closed"}
                   /\ t.trans = s.trans /\ t.origin_rdr = s.origin_rdr
<1> DEFINE t == Written(s, res)
           given == SubSeq(s.origin_recv, s.org_cache_rdr + 1,
                           s.org_cache_rdr + s.writing)
           w == s.wrote \o given
<1>0. /\ Mach(s) /\ Up(s.sm) /\ s \in Conns /\ s.wrote \in Seq(Nat)
      /\ s.strm # "cache" /\ Core(s) /\ Wrote(s) /\ s.cache_op = "none"
  BY NotFromCache DEF Body, Bytes, Core, Online, Mach, Conns, Free
<1>1. CASE res = "ok"
  <2> DEFINE u == WritingDoes(s, w)
             r == ConsumeCacheWrData(u, s.writing)
  <2>1. t = HandlerEvent(r, "cache_op_next")
    <3>1. [s EXCEPT !.wrote = @ \o given, !.writing = 0] = u
      BY <1>0 DEF WritingDoes, Conns
    <3> HIDE DEF u
    <3> QED
      BY <1>1, <3>1 DEF Written
  <2>2. /\ w \in Seq(Nat) /\ Len(w) = Len(s.wrote) + s.writing
        /\ \A i \in DOMAIN w : w[i] = s.trans[1].at + i - 1
        /\ s.trans[1].at > 0 /\ s.writing \in Nat
    BY GivenIs
  <2> HIDE DEF w, t
  <2>3. Does(s, u, {}, {"wrote", "writing"}) /\ u.wrote = w /\ u.writing = 0
    BY <1>0, <2>2, WritingSet
  <2> HIDE DEF u
  <2>4. Mach(u) /\ Up(u.sm)
    BY <1>0, <2>3 DEF Does, Only, Up
  <2>5. /\ Does(u, r, {"org_recv", "org_recv_idle"}, {"org_cache_rdr"})
        /\ r.org_cache_rdr = u.org_cache_rdr + s.writing
    <3>1. /\ u.org_cache_rdr = s.org_cache_rdr /\ u.origin_recv = s.origin_recv
      BY <2>3 DEF Does, Keep, Fields
    <3>2. s.org_cache_rdr + s.writing <= Len(s.origin_recv)
      BY DEF Body, Bytes
    <3>3. 0 <= s.org_cache_rdr /\ s.org_cache_rdr \in Int
      BY <1>0, ReceivedTyped DEF Mach, Counts
    <3>4. 0 <= u.org_cache_rdr + s.writing
      BY <2>2, <3>1, <3>3
    <3> QED
      BY <2>2, <2>4, <3>1, <3>2, <3>4, ConsumeDoes
  <2> HIDE DEF r
  <2> DEFINE X == {"org_recv", "org_recv_idle"}
             F == {"org_cache_rdr", "wrote", "writing"}
  <2>6. Does(s, r, X, F)
    BY <2>3, <2>5 DEF Does, Only, Keep
  <2>7. /\ r.wrote = w /\ r.writing = 0 /\ r.org_cache_rdr = s.org_cache_rdr + s.writing
        /\ r.trans = s.trans /\ r.flags = s.flags /\ r.cache_op = s.cache_op
        /\ r.origin_recv = s.origin_recv /\ r.origin_rdr = s.origin_rdr
        /\ r.handle = s.handle
    BY <2>3, <2>5 DEF Does, Keep, Fields
  <2>8. X \subseteq LegsX \ {"org_recv_paused"}
    BY DEF LegsX
  <2>9. Core(r) /\ r.csm = s.csm /\ r.strm = s.strm
    BY <1>0, <2>6, <2>7, <2>8, CoreSame
  <2>10. Asked(r)
    BY <1>0, <2>9 DEF Asked
  <2>11. Wrote(r)
    BY <2>2, <2>7 DEF Wrote
  <2>12. r.org_cache_rdr = r.trans[1].at - 1 + Len(r.wrote)
         /\ r.org_cache_rdr <= Len(r.origin_recv) /\ r.org_cache_rdr + 0 <= Len(r.origin_recv)
    <3>1. /\ s.org_cache_rdr = s.trans[1].at - 1 + Len(s.wrote)
          /\ s.org_cache_rdr + s.writing <= Len(s.origin_recv)
      BY DEF Body, Bytes, Waiting
    <3>2. /\ s.org_cache_rdr \in Int /\ Len(s.origin_recv) \in Nat
          /\ Len(s.wrote) \in Nat
      BY <1>0, ReceivedTyped
    <3>3. s.trans[1].at \in Nat
      BY <1>0, FirstTyped DEF Core, Cached
    <3>4. /\ s.org_cache_rdr + s.writing = s.trans[1].at - 1 + Len(w)
          /\ s.org_cache_rdr + s.writing + 0 = s.org_cache_rdr + s.writing
      <4>1. s.trans[1].at \in Int /\ Len(s.wrote) \in Int /\ s.writing \in Int
        BY <2>2, <3>2, <3>3
      <4> DEFINE o == s.org_cache_rdr
                 at == s.trans[1].at
                 l == Len(s.wrote)
                 n == s.writing
      <4>2. o \in Int /\ at \in Int /\ l \in Int /\ n \in Int /\ o = at - 1 + l
        BY <3>1, <3>2, <4>1
      <4>3. Len(w) = l + n
        BY <2>2
      <4> HIDE DEF o, at, l, n
      <4>4. o + n = at - 1 + (l + n) /\ o + n + 0 = o + n
        BY <4>2, Further
      <4> QED
        BY <4>3, <4>4 DEF o, at, n
    <3>5. /\ r.org_cache_rdr = s.trans[1].at - 1 + Len(r.wrote)
          /\ r.org_cache_rdr <= Len(s.origin_recv)
          /\ r.org_cache_rdr + 0 <= Len(s.origin_recv)
      <4>1. Len(r.wrote) = Len(w)
        BY <2>7
      <4>2. r.org_cache_rdr = s.org_cache_rdr + s.writing
        BY <2>7
      <4> QED
        BY <3>1, <3>4, <4>1, <4>2
    <3> QED
      BY <2>7, <3>5
  <2>13. Bytes(r)
    BY <2>7, <2>9, <2>11, <2>12 DEF Body, Bytes, Waiting
  <2>14. Body(r)
    BY <2>9, <2>10, <2>13 DEF Body
  <2> HIDE DEF X, F
  <2>15. CASE "pend_tunnel" \in s.flags
    <3>1. Left(r, t)
      BY <1>0, <2>1, <2>7, <2>9, <2>15, PendLeft
    <3> QED
      BY <2>6, <2>15, <3>1, ThenLeft DEF F, t
  <2>16. CASE "pend_tunnel" \notin s.flags
    <3>1. Left(r, t) /\ Body(t) /\ t.csm \in {"cache_write", "cache_idle_wr"}
          /\ t.trans = r.trans /\ t.origin_rdr = r.origin_rdr
      BY <2>1, <2>7, <2>9, <2>14, <2>16, AnsWritten DEF Free
    <3>2. OpFits(t)
      BY <3>1 DEF Left, Good, Hand, Body, Core
    <3>3. t.strm # "cache"
      BY <3>1, NotFromCache
    <3> QED
      BY <2>6, <2>7, <3>1, <3>2, <3>3, ThenLeft DEF F, t
  <2> QED
    BY <2>15, <2>16 DEF t
<1>2. CASE res = "err"
  <2> DEFINE u == WritingDoes(s, s.wrote)
  <2>1. t = CacheError(u)
    <3>1. [s EXCEPT !.writing = 0] = u
      BY <1>0 DEF WritingDoes, Conns
    <3> HIDE DEF u
    <3> QED
      BY <1>2, <3>1 DEF Written
  <2> HIDE DEF t
  <2>2. Does(s, u, {}, {"wrote", "writing"}) /\ u.wrote = s.wrote
    BY <1>0, WritingSet
  <2> HIDE DEF u
  <2>3. /\ u.trans = s.trans /\ u.flags = s.flags /\ u.cache_op = s.cache_op
        /\ u.origin_rdr = s.origin_rdr
    BY <2>2 DEF Does, Keep, Fields
  <2>4. Core(u) /\ u.csm = s.csm /\ u.strm = s.strm
    BY <1>0, <2>2, <2>3, CoreSame
  <2>5. Wrote(u)
    BY <1>0, <2>2, <2>3 DEF Wrote
  <2>6. /\ Left(u, t)
        /\ "pend_tunnel" \notin u.flags
                => /\ Body(t) /\ OpFits(t) /\ t.csm = "cache_closed" /\ t.strm # "cache"
                   /\ t.trans = u.trans /\ t.origin_rdr = u.origin_rdr
    BY <1>0, <2>1, <2>3, <2>4, <2>5, ErrorLeft DEF Waiting
  <2> QED
    BY <2>2, <2>3, <2>6, ThenLeft DEF t
<1> QED
  BY <1>1, <1>2

\* on_cache_write.
LEMMA StepWriteDone ==
    ASSUME IInv, WriteDone
    PROVE  IInv'
<1> DEFINE c == Freed(conn)
<1>1. PICK res \in {"ok", "err"} : Becomes(OnWrite(c, res))
  BY DEF WriteDone, CacheDone, Freed
<1> DEFINE t == OnWrite(c, res)
           w == Written(c, res)
<1>2. SUFFICES ASSUME Good(conn)
               PROVE  Kept(conn, t)
  BY <1>1, Lands
<1>3. /\ Does(conn, c, {}, {"cache_op"}) /\ c.cache_op = "none" /\ Body(c)
      /\ c.csm = "cache_write" /\ Free(c, "wr")
  BY <1>2, FreedDoes DEF WriteDone, Free
<1> HIDE DEF c
<1>4. Intact(c)
  <2>1. c.origin_recv = conn.origin_recv
    BY <1>3 DEF Does, Keep, Fields
  <2> QED
    BY <2>1 DEF IInv, Intact
<1>5. /\ Left(c, w)
      /\ "pend_tunnel" \notin c.flags
                => /\ Body(w) /\ OpFits(w) /\ w.strm # "cache"
                   /\ w.csm \in {"cache_write", "cache_idle_wr", "cache_closed"}
                   /\ w.trans = c.trans /\ w.origin_rdr = c.origin_rdr
  BY <1>3, <1>4, WrittenLeft
<1> HIDE DEF w
<1>6. Left(c, t)
  <2>1. CASE Has(c, "trans_completed") /\ ~Has(c, "pend_tunnel")
    <3>1. t = HandlerEvent(w, "trans_completed")
      BY <2>1 DEF OnWrite, w
    <3> HIDE DEF t
    <3>2. /\ RespCompleted(w.trans[1]) /\ w.origin_recv = c.origin_recv
          /\ w.origin_rdr = Len(w.origin_recv)
      BY <1>3, <1>5, <2>1 DEF Body, Core, Waits, Bytes, Left, Has
    <3>3. Left(w, t)
      BY <1>5, <2>1, <3>1, <3>2, AnsCompleted DEF Has
    <3> QED
      BY <1>5, <3>3, LeftBoth
  <2>2. CASE ~(Has(c, "trans_completed") /\ ~Has(c, "pend_tunnel"))
    <3>1. t = w
      BY <2>2 DEF OnWrite, w
    <3> QED
      BY <1>5, <3>1
  <2> QED
    BY <2>1, <2>2
<1> HIDE DEF t
<1> QED
  BY <1>3, <1>6, ThenLeft, LeftKept

-----------------------------------------------------------------------------
(* The client's bytes.                                                     *)

\* The transactions after units of the client: the responses are as they were,
\* the one whose request is complete isn't touched.
RespSame(t, u) == /\ u.at = t.at /\ u.resp = t.resp /\ u.hdr = t.hdr
                  /\ u.len = t.len /\ u.resp_state = t.resp_state
                  /\ u.tunnel = t.tunnel
Follows(s, ts) ==
    /\ ts \in Seq(Trans) /\ Len(ts) >= 1
    /\ \A k \in DOMAIN ts : TransOk(ts[k]) /\ (k >= 2 => ts[k].at = 0)
    /\ s.trans = <<>> => ts[1].at = 0
    /\ s.trans # <<>> => RespSame(s.trans[1], ts[1])
    /\ s.trans # <<>> /\ ReqCompleted(s.trans[1])
            => Len(ts) >= 2 /\ ts[1] = s.trans[1]

\* A new transaction has no response.
LEMMA NewIs ==
    NewTrans \in Trans /\ NewTrans.at = 0 /\ TransOk(NewTrans)
  BY DEF NewTrans, Trans, TransOk

\* It is put after the others.
LEMMA Appended ==
    ASSUME NEW ts \in Seq(Trans)
    PROVE  LET us == Append(ts, NewTrans) IN
           /\ us \in Seq(Trans) /\ Len(us) = Len(ts) + 1 /\ us[Len(ts) + 1] = NewTrans
           /\ DOMAIN us = DOMAIN ts \cup {Len(ts) + 1}
           /\ \A k \in DOMAIN ts : us[k] = ts[k]
  BY NewIs

\* Then the others are as they were.
LEMMA AppendFollows ==
    ASSUME NEW s, NEW ts, Follows(s, ts)
    PROVE  Follows(s, Append(ts, NewTrans))
<1> DEFINE us == Append(ts, NewTrans)
<1>1. ts \in Seq(Trans) /\ Len(ts) >= 1 /\ Len(ts) \in Nat /\ 1 \in DOMAIN ts
  BY DEF Follows
<1>2. /\ us \in Seq(Trans) /\ Len(us) = Len(ts) + 1 /\ us[Len(ts) + 1] = NewTrans
      /\ DOMAIN us = DOMAIN ts \cup {Len(ts) + 1}
      /\ \A k \in DOMAIN ts : us[k] = ts[k]
  BY <1>1, Appended
<1> HIDE DEF us
<1>3. \A k \in DOMAIN us : TransOk(us[k]) /\ (k >= 2 => us[k].at = 0)
  BY <1>2, NewIs DEF Follows
<1>4. us[1] = ts[1] /\ Len(us) >= 1 /\ (Len(ts) >= 2 => Len(us) >= 2)
  BY <1>1, <1>2
<1>5. Follows(s, us)
  BY <1>2, <1>3, <1>4 DEF Follows
<1> QED
  BY <1>5 DEF us

\* The request's part of a transaction.
LEMMA ReqUnit ==
    ASSUME NEW t \in Trans, NEW kind
    PROVE  LET u == OnReqUnit(t, kind) IN
           /\ u \in Trans /\ RespSame(t, u) /\ (TransOk(t) => TransOk(u))
           /\ t.req \in Nat /\ u.req \in Nat /\ t.req <= u.req /\ u.req <= t.req + 1
           /\ u.req_state # "bad" => u.req = t.req + 1
           /\ t.req_state = "bad" => u.req_state = "bad" /\ u.req = t.req
<1> DEFINE u == OnReqUnit(t, kind)
<1>1. /\ u \in Trans /\ RespSame(t, u)
      /\ t.req \in Nat /\ u.req \in Nat /\ t.req <= u.req /\ u.req <= t.req + 1
      /\ u.req_state # "bad" => u.req = t.req + 1
      /\ t.req_state = "bad" => u.req_state = "bad" /\ u.req = t.req
  <2>1. CASE kind = "bad" \/ t.req_state # "open"
    <3>1. u = [t EXCEPT !.req_state = "bad"]
      BY <2>1 DEF OnReqUnit
    <3>2. /\ u \in Trans /\ RespSame(t, u) /\ u.req = t.req /\ t.req \in Nat
          /\ u.req_state = "bad"
      BY <3>1 DEF Trans, RespSame
    <3> QED
      BY <3>2
  <2>2. CASE ~(kind = "bad" \/ t.req_state # "open")
    <3> DEFINE n == t.req + 1
               m == IF kind = "req" THEN "complete" ELSE "open"
    <3>1. u = [t EXCEPT !.req = n, !.req_state = m]
      BY <2>2 DEF OnReqUnit
    <3>2. n \in Nat /\ m \in {"open", "complete", "bad"}
      BY DEF Trans
    <3> HIDE DEF n, m, u
    <3>3. u \in Trans /\ RespSame(t, u) /\ u.req = n
      BY <3>1, <3>2 DEF Trans, RespSame
    <3>4. t.req \in Nat /\ u.req = t.req + 1 /\ t.req_state # "bad"
      BY <2>2, <3>3 DEF Trans, n
    <3> QED
      BY <3>3, <3>4
  <2> QED
    BY <2>1, <2>2
<1> HIDE DEF u
<1>2. TransOk(t) => TransOk(u)
  BY <1>1 DEF RespSame, TransOk, RespBody
<1> QED
  BY <1>1, <1>2 DEF u

\* The last request takes a unit.
LEMMA LastFollows ==
    ASSUME NEW s, NEW ts, Follows(s, ts), NEW kind
    PROVE  Follows(s, [ts EXCEPT ![Len(ts)] = OnReqUnit(@, kind)])
<1> DEFINE n == Len(ts)
           v == OnReqUnit(ts[n], kind)
           us == [ts EXCEPT ![n] = v]
<1>1. ts \in Seq(Trans) /\ n >= 1 /\ n \in Nat /\ n \in DOMAIN ts /\ 1 \in DOMAIN ts
  BY DEF Follows
<1>2. ts[n] \in Trans
  BY <1>1
<1>3. v \in Trans /\ RespSame(ts[n], v) /\ (TransOk(ts[n]) => TransOk(v))
  BY <1>2, ReqUnit
<1>4. [ts EXCEPT ![Len(ts)] = OnReqUnit(@, kind)] = us
  OBVIOUS
<1> HIDE DEF v
<1>5. /\ us \in Seq(Trans) /\ Len(us) = n /\ DOMAIN us = DOMAIN ts /\ us[n] = v
      /\ \A k \in DOMAIN ts : k # n => us[k] = ts[k]
  BY <1>1, <1>3
<1> HIDE DEF us
<1>6. \A k \in DOMAIN us : TransOk(us[k]) /\ (k >= 2 => us[k].at = 0)
  BY <1>1, <1>3, <1>5 DEF Follows, RespSame
<1>7. RespSame(ts[1], us[1]) /\ (Len(ts) >= 2 => us[1] = ts[1])
  BY <1>1, <1>3, <1>5 DEF RespSame
<1>8. s.trans # <<>> => RespSame(s.trans[1], us[1])
  BY <1>7 DEF Follows, RespSame
<1>9. s.trans = <<>> => us[1].at = 0
  BY <1>7 DEF Follows, RespSame
<1>10. Follows(s, us)
  BY <1>1, <1>5, <1>6, <1>7, <1>8, <1>9 DEF Follows
<1> QED
  BY <1>4, <1>10

\* What a unit of the client does to the transactions.
ReqFeed(s, ts, i) ==
    LET fed == [ts EXCEPT ![Len(ts)] = OnReqUnit(@, s.cln_script[i])]
    IN  IF ReqCompleted(fed[Len(ts)]) /\ i < s.client_recv
        THEN Append(fed, NewTrans) ELSE fed
\* The transactions before the first unit.
ReqStart(s) == IF s.trans = <<>> \/ ReqCompleted(s.trans[Len(s.trans)])
               THEN Append(s.trans, NewTrans) ELSE s.trans

\* The transactions after one unit.
LEMMA FeedFollows ==
    ASSUME NEW s, NEW ts, Follows(s, ts), NEW i
    PROVE  Follows(s, ReqFeed(s, ts, i))
<1> DEFINE fed == [ts EXCEPT ![Len(ts)] = OnReqUnit(@, s.cln_script[i])]
<1>1. Follows(s, fed)
  BY LastFollows
<1>2. ReqFeed(s, ts, i) = IF ReqCompleted(fed[Len(ts)]) /\ i < s.client_recv
                          THEN Append(fed, NewTrans) ELSE fed
  BY DEF ReqFeed
<1> HIDE DEF fed
<1> QED
  BY <1>1, <1>2, AppendFollows

\* The transactions before it.
LEMMA StartFollows ==
    ASSUME NEW s, s.trans \in Seq(Trans), Place(s)
    PROVE  Follows(s, ReqStart(s))
<1>1. CASE s.trans = <<>>
  <2> DEFINE us == Append(s.trans, NewTrans)
  <2>1. ReqStart(s) = us
    BY <1>1 DEF ReqStart
  <2>2. /\ us \in Seq(Trans) /\ Len(us) = 1 /\ us[1] = NewTrans
        /\ DOMAIN us = {1}
    BY <1>1, NewIs
  <2> HIDE DEF us
  <2> QED
    BY <1>1, <2>1, <2>2, NewIs DEF Follows
<1>2. CASE s.trans # <<>> /\ ~ReqCompleted(s.trans[Len(s.trans)])
  <2>1. ReqStart(s) = s.trans
    BY <1>2 DEF ReqStart
  <2>2. Len(s.trans) >= 1 /\ Len(s.trans) \in Nat
    BY <1>2
  <2>3. ReqCompleted(s.trans[1]) => Len(s.trans) >= 2
    <3>1. SUFFICES ASSUME ReqCompleted(s.trans[1])
                   PROVE  Len(s.trans) >= 2
      OBVIOUS
    <3>2. Len(s.trans) # 1
      BY <1>2, <3>1
    <3> DEFINE n == Len(s.trans)
    <3> HIDE DEF n
    <3>3. n \in Nat /\ n >= 1 /\ n # 1
      BY <2>2, <3>2 DEF n
    <3>4. n >= 2
      BY <3>3
    <3> QED
      BY <3>4 DEF n
  <2> QED
    BY <1>2, <2>1, <2>2, <2>3 DEF Follows, Place, RespSame
<1>3. CASE s.trans # <<>> /\ ReqCompleted(s.trans[Len(s.trans)])
  <2> DEFINE us == Append(s.trans, NewTrans)
  <2>1. ReqStart(s) = us
    BY <1>3 DEF ReqStart
  <2>2. Len(s.trans) >= 1 /\ Len(s.trans) \in Nat /\ 1 \in DOMAIN s.trans
    BY <1>3
  <2>3. /\ us \in Seq(Trans) /\ Len(us) = Len(s.trans) + 1 /\ us[Len(s.trans) + 1] = NewTrans
        /\ DOMAIN us = DOMAIN s.trans \cup {Len(s.trans) + 1}
        /\ \A k \in DOMAIN s.trans : us[k] = s.trans[k]
    BY Appended
  <2> HIDE DEF us
  <2>4. \A k \in DOMAIN us : TransOk(us[k]) /\ (k >= 2 => us[k].at = 0)
    BY <2>3, NewIs DEF Place
  <2>5. us[1] = s.trans[1] /\ Len(us) >= 2
    BY <2>2, <2>3
  <2> QED
    BY <1>3, <2>1, <2>3, <2>4, <2>5 DEF Follows, RespSame
<1> QED
  BY <1>1, <1>2, <1>3

\* What k units of the client add to the requests: all of them, as long as they
\* are sound; none to one that is not.
BadLast(ts) == ts # <<>> /\ ts[Len(ts)].req_state = "bad"
Grown(s, ts, k) ==
    /\ ReqUnits(ts) <= ReqUnits(s.trans) + k
    /\ ~BadLast(ts) => ReqUnits(ts) = ReqUnits(s.trans) + k
    /\ BadLast(s.trans) => BadLast(ts) /\ ReqUnits(ts) = ReqUnits(s.trans)
    /\ (\A j \in DOMAIN s.trans : s.trans[j].req_state # "bad")
            => \A j \in 1 .. (Len(ts) - 1) : ts[j].req_state # "bad"
    /\ s.trans # <<>> => s.trans[1].req <= ts[1].req

\* The places before the last one.
LEMMA Before ==
    ASSUME NEW n \in Nat, NEW j
    PROVE  /\ j \in 1 .. (n - 1) <=> j \in 1 .. n /\ j # n
           /\ (n + 1) - 1 = n
  OBVIOUS

\* A request put after the others has no units.
LEMMA AppendUnits ==
    ASSUME NEW ts \in Seq(Trans)
    PROVE  ReqUnits(Append(ts, NewTrans)) = ReqUnits(ts) /\ ReqUnits(ts) \in Nat
<1> DEFINE us == Append(ts, NewTrans)
<1>1. /\ us \in Seq(Trans) /\ Len(us) = Len(ts) + 1 /\ us[Len(ts) + 1] = NewTrans
      /\ DOMAIN us = DOMAIN ts \cup {Len(ts) + 1}
      /\ \A k \in DOMAIN ts : us[k] = ts[k]
  BY Appended
<1>2. Len(ts) \in Nat /\ DOMAIN ts = 1 .. Len(ts)
  OBVIOUS
<1> HIDE DEF us
<1>3. us # <<>> /\ \A k \in 1 .. (Len(us) - 1) : us[k].req = ts[k].req
  BY <1>1, <1>2
<1>4. ReqUnits(us) = ReqUnits(ts) + us[Len(us)].req
  BY <1>1, <1>3, UnitsLast
<1>5. us[Len(us)].req = 0
  BY <1>1 DEF NewTrans
<1>6. ReqUnits(ts) \in Nat
  BY LaterIs
<1> QED
  BY <1>4, <1>5, <1>6 DEF us

\* One unit.
LEMMA FeedGrown ==
    ASSUME NEW s, s.trans \in Seq(Trans), NEW ts, Follows(s, ts), NEW k \in Nat,
           Grown(s, ts, k), NEW i
    PROVE  Grown(s, ReqFeed(s, ts, i), k + 1)
<1> DEFINE n == Len(ts)
           v == OnReqUnit(ts[n], s.cln_script[i])
           fed == [ts EXCEPT ![n] = v]
           us == Append(fed, NewTrans)
<1>1. /\ ts \in Seq(Trans) /\ n >= 1 /\ n \in Nat /\ n \in DOMAIN ts
      /\ 1 \in DOMAIN ts /\ DOMAIN ts = 1 .. n /\ ts # <<>>
  BY DEF Follows
<1>2. ts[n] \in Trans
  BY <1>1
<1>3. /\ v \in Trans /\ ts[n].req \in Nat /\ v.req \in Nat
      /\ ts[n].req <= v.req /\ v.req <= ts[n].req + 1
      /\ v.req_state # "bad" => v.req = ts[n].req + 1
      /\ ts[n].req_state = "bad" => v.req_state = "bad" /\ v.req = ts[n].req
  BY <1>2, ReqUnit
<1>4. ReqFeed(s, ts, i) = IF ReqCompleted(fed[n]) /\ i < s.client_recv THEN us ELSE fed
  BY DEF ReqFeed
<1> HIDE DEF v
<1>5. /\ fed \in Seq(Trans) /\ Len(fed) = n /\ DOMAIN fed = 1 .. n /\ fed[n] = v
      /\ \A j \in DOMAIN ts : j # n => fed[j] = ts[j]
  BY <1>1, <1>3
<1>6. /\ us \in Seq(Trans) /\ Len(us) = n + 1 /\ us[n + 1] = NewTrans
      /\ \A j \in 1 .. n : us[j] = fed[j]
  BY <1>5, Appended
<1>7. ReqUnits(us) = ReqUnits(fed)
  BY <1>5, AppendUnits
<1> HIDE DEF fed, us
<1>8. ReqUnits(fed) = ReqUnits(ts) - ts[n].req + v.req
  <2>1. fed # <<>> /\ \A j \in 1 .. (Len(fed) - 1) : fed[j].req = ts[j].req
    BY <1>1, <1>5
  <2> QED
    BY <1>1, <1>5, <2>1, UnitsLast
<1>9. ReqUnits(ts) \in Nat /\ ReqUnits(s.trans) \in Nat /\ ReqUnits(fed) \in Int
  BY <1>1, <1>3, <1>8, AppendUnits
<1>10. /\ BadLast(ts) <=> ts[n].req_state = "bad"
       /\ BadLast(fed) <=> v.req_state = "bad"
  BY <1>1, <1>5 DEF BadLast
<1>11. Grown(s, fed, k + 1)
  <2>1. ReqUnits(fed) <= ReqUnits(s.trans) + (k + 1)
    BY <1>3, <1>8, <1>9 DEF Grown
  <2>2. ~BadLast(fed) => ReqUnits(fed) = ReqUnits(s.trans) + (k + 1)
    <3>1. SUFFICES ASSUME ~BadLast(fed)
                   PROVE  ReqUnits(fed) = ReqUnits(s.trans) + (k + 1)
      OBVIOUS
    <3>2. v.req = ts[n].req + 1 /\ ~BadLast(ts)
      BY <1>3, <1>10, <3>1
    <3>3. ReqUnits(ts) = ReqUnits(s.trans) + k
      BY <3>2 DEF Grown
    <3> HIDE DEF n
    <3> QED
      BY <1>3, <1>8, <1>9, <3>2, <3>3
  <2>3. BadLast(s.trans) => BadLast(fed) /\ ReqUnits(fed) = ReqUnits(s.trans)
    BY <1>3, <1>8, <1>9, <1>10 DEF Grown
  <2>4. ASSUME \A j \in DOMAIN s.trans : s.trans[j].req_state # "bad",
               NEW j \in 1 .. (Len(fed) - 1)
        PROVE  fed[j].req_state # "bad"
    <3>1. j \in 1 .. (n - 1) /\ j \in DOMAIN ts /\ j # n
      BY <1>1, <1>5, <2>4, Before
    <3> QED
      BY <1>5, <2>4, <3>1 DEF Grown
  <2>5. s.trans # <<>> => s.trans[1].req <= fed[1].req
    <3>1. ts[1].req <= fed[1].req /\ ts[1].req \in Nat /\ fed[1].req \in Nat
      <4>1. ts[1] \in Trans /\ fed[1] \in Trans
        BY <1>1, <1>5
      <4>2. ts[1].req \in Nat /\ fed[1].req \in Nat
        BY <4>1 DEF Trans
      <4> QED
        BY <1>1, <1>3, <1>5, <4>2
    <3>2. s.trans # <<>> => s.trans[1].req \in Nat /\ s.trans[1].req <= ts[1].req
      BY LaterIs DEF Grown
    <3> QED
      BY <3>1, <3>2
  <2> QED
    BY <2>1, <2>2, <2>3, <2>4, <2>5 DEF Grown
<1>12. CASE ReqCompleted(fed[n])
  <2>1. v.req_state # "bad"
    BY <1>5, <1>12 DEF ReqCompleted
  <2>2. ~BadLast(us) /\ us[1] = fed[1]
    BY <1>1, <1>6 DEF BadLast, NewTrans
  <2>3. ~BadLast(s.trans)
    BY <1>10, <1>11, <2>1 DEF Grown
  <2>4. ReqUnits(us) = ReqUnits(s.trans) + (k + 1)
    BY <1>7, <1>10, <1>11, <2>1 DEF Grown
  <2>5. ASSUME \A j \in DOMAIN s.trans : s.trans[j].req_state # "bad",
               NEW j \in 1 .. (Len(us) - 1)
        PROVE  us[j].req_state # "bad"
    <3>1. j \in 1 .. n /\ us[j] = fed[j]
      BY <1>1, <1>6, Before
    <3>2. j # n => j \in 1 .. (Len(fed) - 1)
      BY <1>1, <1>5, <3>1, Before
    <3> QED
      BY <1>5, <1>11, <2>1, <2>5, <3>1, <3>2 DEF Grown
  <2>6. ReqUnits(us) <= ReqUnits(s.trans) + (k + 1)
    BY <1>7, <1>11 DEF Grown
  <2>7. s.trans # <<>> => s.trans[1].req <= us[1].req
    BY <1>11, <2>2 DEF Grown
  <2>8. Grown(s, us, k + 1)
    BY <2>2, <2>3, <2>4, <2>5, <2>6, <2>7 DEF Grown
  <2> QED
    BY <1>4, <1>11, <2>8
<1> QED
  BY <1>4, <1>11, <1>12

\* Before the first unit.
LEMMA StartGrown ==
    ASSUME NEW s, s.trans \in Seq(Trans)
    PROVE  Grown(s, ReqStart(s), 0)
<1>1. ReqUnits(s.trans) \in Nat
  BY AppendUnits
<1>2. CASE s.trans = <<>> \/ ReqCompleted(s.trans[Len(s.trans)])
  <2> DEFINE us == Append(s.trans, NewTrans)
             n == Len(s.trans)
  <2>1. ReqStart(s) = us
    BY <1>2 DEF ReqStart
  <2>2. /\ us \in Seq(Trans) /\ Len(us) = n + 1 /\ us[n + 1] = NewTrans
        /\ \A k \in DOMAIN s.trans : us[k] = s.trans[k]
        /\ n \in Nat /\ DOMAIN s.trans = 1 .. n
    BY Appended
  <2>3. ReqUnits(us) = ReqUnits(s.trans)
    BY AppendUnits
  <2> HIDE DEF us
  <2>4. ~BadLast(us) /\ ~BadLast(s.trans)
    BY <1>2, <2>2 DEF BadLast, NewTrans, ReqCompleted
  <2>5. \A j \in 1 .. (Len(us) - 1) : j \in DOMAIN s.trans /\ us[j] = s.trans[j]
    BY <2>2, Before
  <2>6. s.trans # <<>> => us[1] = s.trans[1] /\ s.trans[1].req \in Nat
    <3>1. s.trans # <<>> => 1 \in DOMAIN s.trans
      OBVIOUS
    <3> QED
      BY <2>2, <3>1, LaterIs
  <2> QED
    BY <1>1, <2>1, <2>3, <2>4, <2>5, <2>6 DEF Grown
<1>3. CASE ~(s.trans = <<>> \/ ReqCompleted(s.trans[Len(s.trans)]))
  <2>1. ReqStart(s) = s.trans
    BY <1>3 DEF ReqStart
  <2>2. \A j \in 1 .. (Len(s.trans) - 1) : j \in DOMAIN s.trans
    OBVIOUS
  <2>3. s.trans # <<>> => s.trans[1].req \in Nat
    BY LaterIs
  <2> QED
    BY <1>1, <2>1, <2>2, <2>3 DEF Grown
<1> QED
  BY <1>2, <1>3

\* The transactions after all units of the client.
LEMMA TransFedFollows ==
    ASSUME NEW s, Mach(s), Place(s)
    PROVE  /\ Follows(s, TransFed(s))
           /\ Grown(s, TransFed(s), s.client_recv - s.client_rdr)
<1> DEFINE m == s.client_rdr
           n == s.client_recv
           a == ReqStart(s)
           V == {ts \in Seq(Trans) : Follows(s, ts)}
           G == [p \in V \X ((m + 1)..n) |-> ReqFeed(s, p[1], p[2])]
           Def(f) == [i \in m..n |-> IF i = m THEN a ELSE ReqFeed(s, f[i - 1], i)]
<1>1. m \in Nat /\ n \in Nat /\ m <= n /\ s.trans \in Seq(Trans)
  <2>1. m \in Nat /\ n \in Nat /\ s.trans \in Seq(Trans)
    BY DEF Mach, Conns
  <2> QED
    BY <2>1 DEF Place
<1>2. a \in V /\ Grown(s, a, 0)
  BY <1>1, StartFollows, StartGrown DEF Follows
<1>3. \A v \in V, i \in (m + 1)..n : ReqFeed(s, v, i) \in V
  <2> SUFFICES ASSUME NEW v \in V, NEW i \in (m + 1)..n
               PROVE  ReqFeed(s, v, i) \in V
    OBVIOUS
  <2>1. Follows(s, ReqFeed(s, v, i))
    BY FeedFollows
  <2> QED
    BY <2>1 DEF Follows
<1>4. TransFed(s) = (CHOOSE f : f = [i \in m..n |-> IF i = m THEN a ELSE ReqFeed(s, f[i - 1],
          i)])[n]
  BY DEF TransFed, ReqFeed, ReqStart
<1>14. \A v \in V : \A i, k : k \in Nat /\ Grown(s, v, k) => Grown(s, ReqFeed(s, v, i), k + 1)
  BY <1>1, FeedGrown
<1> HIDE DEF m, n, a, V
<1>5. \A v \in V, i \in (m + 1)..n : G[<<v, i>>] = ReqFeed(s, v, i)
  OBVIOUS
<1> HIDE DEF G
<1>6. PICK g \in [m..n -> V] : Computed(g, m, n, a, G)
  <2>1. Within(G, V, m, n)
    BY <1>3, <1>5 DEF Within
  <2> QED
    BY <1>1, <1>2, <2>1, Recursive, Zenon
<1>7. g = Def(g)
  <2>1. ASSUME NEW i \in m..n, i # m
        PROVE  G[<<g[i - 1], i>>] = ReqFeed(s, g[i - 1], i)
    <3>1. i \in (m + 1)..n /\ i - 1 \in m..n
      BY <1>1, <2>1
    <3> QED
      BY <1>5, <3>1
  <2>2. [i \in m..n |-> IF i = m THEN a ELSE G[<<g[i - 1], i>>]] = Def(g)
    BY <2>1
  <2> QED
    BY <1>6, <2>2 DEF Computed
<1> DEFINE f == CHOOSE f : f = [i \in m..n |-> IF i = m THEN a ELSE ReqFeed(s, f[i - 1], i)]
<1>8. f = [i \in m..n |-> IF i = m THEN a ELSE ReqFeed(s, f[i - 1], i)]
  BY <1>7
<1> HIDE DEF f
<1> DEFINE S == {i \in m..n : f[i] \in V /\ Grown(s, f[i], i - m)}
<1>9. m \in S
  <2>1. m \in m..n /\ m - m = 0
    BY <1>1
  <2>2. f[m] = a
    BY <1>8, <2>1
  <2> QED
    BY <1>2, <2>1, <2>2
<1>10. ASSUME NEW i \in (m + 1)..n, i - 1 \in S
       PROVE  i \in S
  <2>1. i \in m..n /\ i # m
    BY <1>1
  <2>2. f[i] = ReqFeed(s, f[i - 1], i)
    BY <1>8, <2>1
  <2>3. f[i - 1] \in V /\ Grown(s, f[i - 1], i - 1 - m)
    BY <1>10
  <2>4. i - 1 - m \in Nat /\ (i - 1 - m) + 1 = i - m
    BY <1>1
  <2>5. Grown(s, f[i], i - m)
    BY <1>14, <2>2, <2>3, <2>4
  <2> QED
    BY <1>3, <2>1, <2>2, <2>3, <2>5
<1> HIDE DEF S
<1>11. n \in S
  BY <1>1, <1>9, <1>10, Upward
<1>12. f[n] \in V /\ Grown(s, f[n], n - m)
  BY <1>11 DEF S
<1>13. TransFed(s) = f[n]
  BY <1>4 DEF f
<1> QED
  BY <1>12, <1>13 DEF V, m, n

\* The transactions are those after the units of the client.
LEMMA FollowsLeft ==
    ASSUME NEW s, Good(s), Up(s.sm), ~s.tunnel, NEW ts, Follows(s, ts),
           NEW t, NEW X, NEW F, Does(s, t, X, F),
           F \subseteq {"trans", "client_rdr", "origin_pending", "flags"},
           X \cap Marks = {}, X \cap (ClnEndX \cup OrgEndX) = {},
           \/ t.flags = s.flags
           \/ /\ s.csm \in Waiting
              /\ t.flags = (s.flags \ {"bpctrl_added"}) \cup {"pend_tunnel"},
           t.trans = ts, t.client_rdr \in {s.client_rdr, s.client_recv}, Ledger(t)
    PROVE  Left(s, t)
<1>1. /\ t.origin_rdr = s.origin_rdr /\ t.origin_recv = s.origin_recv
      /\ t.client_recv = s.client_recv /\ t.cln_script = s.cln_script
  BY DEF Does, Keep, Fields
<1>2. /\ s.client_rdr \in Nat /\ s.client_recv \in Nat
      /\ Place(s) /\ s \in Conns
  BY DEF Good, Hand, Mach, Conns
<1>3. s.trans # <<>> => 1 \in DOMAIN s.trans
  <2>1. s.trans \in Seq(Trans)
    BY <1>2 DEF Conns
  <2> QED
    BY <2>1
<1>4. ts \in Seq(Trans) /\ Len(ts) >= 1 /\ 1 \in DOMAIN ts /\ ts # <<>>
  <2>1. ts \in Seq(Trans) /\ Len(ts) >= 1
    BY DEF Follows
  <2> QED
    BY <2>1
<1>5. ts[1].at > 0 => /\ s.trans # <<>>
                      /\ ts[1].at + RespBody(ts[1]) - 1 = t.origin_rdr
  BY <1>1, <1>2, <1>3, <1>4 DEF Follows, Place, RespSame, RespBody
<1>6. t.client_rdr <= t.client_recv /\ t.client_recv <= Len(t.cln_script)
      /\ t.origin_rdr <= Len(t.origin_recv)
  <2>1. s.client_rdr <= s.client_recv /\ s.client_recv <= s.client_recv
    BY <1>2 DEF Place
  <2> QED
    BY <1>1, <1>2, <2>1 DEF Place
<1>7. Place(t)
  BY <1>4, <1>5, <1>6 DEF Place, Follows
<1>8. FirstKept(s, t)
  BY <1>4 DEF FirstKept, Follows, RespSame
<1>9. /\ \A x \in Eofs : x \in s.sm => x \in t.sm
      /\ ShutC(t.sm) => ShutC(s.sm)
      /\ ShutO(t.sm) => ShutO(s.sm)
  <2>1. Quiet(s, t)
    BY QuietKept
  <2>2. \A x \in Eofs : x \notin X
    BY DEF Marks, Eofs
  <2> QED
    BY <2>1, <2>2 DEF Does, Only, Quiet
<1>10. Good(t) /\ Online(t)
  <2>1. X \cap (Marks \ Eofs) = {}
    OBVIOUS
  <2>2. F \subseteq {"trans", "client_rdr", "client_recv", "origin_pending", "flags"}
    OBVIOUS
  <2> QED
    BY <1>7, <1>8, <1>9, <2>1, <2>2, GoodMoved
<1> QED
  BY <1>1, <1>10 DEF Left, Does

\* What the units are sent as fits into what the handler has read: nothing of the
\* later requests goes out.
LEMMA Passed ==
    ASSUME NEW s, Mach(s), Place(s), Ledger(s), "cln_recv_eof" \notin s.sm,
           NEW ts, Follows(s, ts), Grown(s, ts, s.client_recv - s.client_rdr)
    PROVE  LET sent == ts[1].req - (IF s.trans = <<>> THEN 0 ELSE s.trans[1].req)
           IN  /\ sent \in Nat /\ Later(ts) \in Nat /\ ToOrigin(s) \in Int
               /\ BadLast(ts) => ToOrigin(s) + Later(ts) <= s.client_recv
               /\ ~BadLast(ts) => ToOrigin(s) + sent + Later(ts) <= s.client_recv
               /\ ~BadLast(ts) /\ "pend_tunnel" \notin s.flags =>
                    /\ ToOrigin(s) + sent + Later(ts) = s.client_recv
                    /\ \A k \in DOMAIN ts : ts[k].req_state # "bad"
<1> DEFINE a == IF s.trans = <<>> THEN 0 ELSE s.trans[1].req
           b == ts[1].req
           p == ToOrigin(s)
           c == s.client_rdr
           m == s.client_recv
           l == Later(s.trans)
           n == Later(ts)
<1>1. /\ s.trans \in Seq(Trans) /\ ts \in Seq(Trans) /\ ts # <<>> /\ Len(ts) \in Nat
      /\ DOMAIN ts = 1 .. Len(ts)
  <2>1. ts \in Seq(Trans) /\ Len(ts) >= 1
    BY DEF Follows
  <2>2. s.trans \in Seq(Trans)
    BY DEF Mach, Conns
  <2> QED
    BY <2>1, <2>2
<1>2. p \in Int /\ c \in Nat /\ m \in Nat /\ c <= m
  <2>1. s.client_rbuf_rdr \in Int /\ s.origin_pending \in Int /\ c \in Nat /\ m \in Nat
    BY DEF Mach, Conns
  <2> QED
    BY <2>1 DEF ToOrigin, Place
<1>3. /\ l \in Nat /\ n \in Nat /\ ReqUnits(ts) = b + n /\ b \in Nat
      /\ ReqUnits(s.trans) = a + l /\ a \in Nat
  BY <1>1, LaterIs
<1>4. a <= b
  BY <1>1, <1>3 DEF Grown
<1>5. /\ p + l <= m
      /\ p + l <= c \/ BadLast(s.trans)
      /\ "pend_tunnel" \notin s.flags => p + l = c
  BY DEF Ledger, BadLast
<1>6. /\ ~BadLast(ts) => b + n = a + l + (m - c) /\ ~BadLast(s.trans)
      /\ BadLast(s.trans) => b + n = a + l
      /\ b + n <= a + l + (m - c)
  BY <1>3 DEF Grown
<1>7. ASSUME ~BadLast(ts), "pend_tunnel" \notin s.flags, NEW k \in DOMAIN ts
      PROVE  ts[k].req_state # "bad"
  <2>1. \A j \in DOMAIN s.trans : s.trans[j].req_state # "bad"
    BY <1>7 DEF Ledger
  <2>2. k # Len(ts) => k \in 1 .. (Len(ts) - 1)
    BY <1>1, Before
  <2>3. k # Len(ts) => ts[k].req_state # "bad"
    BY <2>1, <2>2 DEF Grown
  <2> QED
    BY <1>1, <1>7, <2>3 DEF BadLast
<1> HIDE DEF a, b, p, c, m, l, n
<1>8. b - a \in Nat
  BY <1>3, <1>4
<1>9. BadLast(ts) => p + n <= m
  BY <1>2, <1>3, <1>4, <1>5, <1>6
<1>10. ~BadLast(ts) => p + (b - a) + n <= m
  BY <1>2, <1>3, <1>4, <1>5, <1>6
<1>11. ~BadLast(ts) /\ "pend_tunnel" \notin s.flags => p + (b - a) + n = m
  BY <1>2, <1>3, <1>4, <1>5, <1>6
<1> QED
  BY <1>2, <1>3, <1>7, <1>8, <1>9, <1>10, <1>11 DEF a, b, p, c, m, l, n

\* What the units that have been read are sent as.
LEMMA OnClientDataLeft ==
    ASSUME NEW s, Good(s), Up(s.sm), ~s.tunnel, "cln_recv_eof" \notin s.sm
    PROVE  Left(s, OnClientData(s))
<1> DEFINE ts   == TransFed(s)
           done == [s EXCEPT !.trans = ts]
           recv == s.client_recv
           read == [done EXCEPT !.client_rdr = recv]
           sent == ts[1].req - (IF s.trans = <<>> THEN 0 ELSE s.trans[1].req)
<1>1. /\ Mach(s) /\ s \in Conns /\ Place(s) /\ Ledger(s) /\ s.trans \in Seq(Trans)
      /\ recv \in Nat /\ Steps(s) /\ Served(s) /\ OpFits(s)
  BY DEF Good, Mach, Conns, Hand
<1>2. Follows(s, ts) /\ Grown(s, ts, s.client_recv - s.client_rdr)
  BY <1>1, TransFedFollows
<1>3. OnClientData(s) = CASE ts[Len(ts)].req_state = "bad" -> TryBlindTunnel(done)
                          [] ts[Len(ts)].req_state # "bad" /\ sent > 0 ->
                                SendToOrigin(read, sent)
                          [] OTHER -> read
  BY DEF OnClientData
<1>4. ts \in Seq(Trans) /\ ts # <<>> /\ 1 \in DOMAIN ts
  <2>1. ts \in Seq(Trans) /\ Len(ts) >= 1
    BY <1>2 DEF Follows
  <2> QED
    BY <2>1
<1>5. /\ sent \in Nat /\ Later(ts) \in Nat /\ ToOrigin(s) \in Int
      /\ BadLast(ts) => ToOrigin(s) + Later(ts) <= recv
      /\ ~BadLast(ts) => ToOrigin(s) + sent + Later(ts) <= recv
      /\ ~BadLast(ts) /\ "pend_tunnel" \notin s.flags =>
            /\ ToOrigin(s) + sent + Later(ts) = recv
            /\ \A k \in DOMAIN ts : ts[k].req_state # "bad"
  BY <1>1, <1>2, Passed
<1>6. BadLast(ts) <=> ts[Len(ts)].req_state = "bad"
  BY <1>4 DEF BadLast
<1> HIDE DEF sent, ts
<1>7. Does(s, done, {}, {"trans"}) /\ done.trans = ts
  <2>1. /\ done \in Conns /\ done.sm = s.sm /\ done.ops = s.ops
        /\ Given(done) = Given(s) /\ done.bug = s.bug
        /\ done.trans = ts
    BY <1>1, <1>4 DEF Conns, Given
  <2>2. Keep(s, done, {"trans"})
    BY <1>1 DEF Keep, Fields, Conns
  <2> QED
    BY <1>1, <2>1, <2>2, Updated DEF CountF
<1> HIDE DEF done
<1>8. Up(s.sm) /\ Online(s)
  BY GoodOnline
<1>9. CASE BadLast(ts)
  <2> DEFINE t == TryBlindTunnel(done)
  <2>1. OnClientData(s) = t
    BY <1>3, <1>6, <1>9
  <2>2. /\ done.csm = s.csm /\ done.cache_op = s.cache_op /\ done.flags = s.flags
    BY <1>7 DEF Does, Keep, Fields
  <2>3. CASE s.csm \notin Waiting
    <3>1. s.cache_op = "none"
      BY <1>1, <2>3 DEF OpFits, Waiting
    <3>2. Online(done) /\ Steps(done)
      BY <1>1, <1>7, <1>8, LegsSteps
    <3>3. Served(done)
      BY <1>1, <1>7 DEF Does, Keep, Fields, Served
    <3>4. Left(done, t)
      BY <2>2, <2>3, <3>1, <3>2, <3>3, TunnelNow
    <3> QED
      BY <1>7, <2>1, <3>4, ThenLeft
  <2>4. CASE s.csm \in Waiting
    <3>1. /\ Does(done, t, {}, {"flags", "csm"}) /\ t.csm = done.csm
          /\ t.flags = (done.flags \ {"bpctrl_added"}) \cup {"pend_tunnel"}
      <4>1. Mach(done)
        BY <1>7 DEF Does
      <4> QED
        BY <2>2, <2>4, <4>1, TunnelWaitingDoes DEF TryBlindTunnel
    <3> HIDE DEF t
    <3>2. Does(s, t, {}, {"trans", "flags"})
      BY <1>7, <2>2, <3>1 DEF Does, Only, Keep, Fields
    <3>3. /\ t.trans = ts /\ t.client_rdr = s.client_rdr /\ t.client_recv = recv
          /\ t.origin_rdr = s.origin_rdr
          /\ ToOrigin(t) = ToOrigin(s) /\ ToClient(t) = ToClient(s)
      BY <1>7, <3>1 DEF Does, Keep, Fields, ToOrigin, ToClient
    <3>4. Ledger(t)
      BY <1>1, <1>5, <1>9, <3>1, <3>3 DEF Ledger, BadLast
    <3>5. {} \cap Marks = {} /\ {} \cap (ClnEndX \cup OrgEndX) = {}
      OBVIOUS
    <3>6. {"trans", "flags"} \subseteq {"trans", "client_rdr", "origin_pending", "flags"}
      OBVIOUS
    <3>7. Left(s, t)
      BY <1>2, <2>2, <2>4, <3>1, <3>2, <3>3, <3>4, <3>5, <3>6, FollowsLeft
    <3> QED
      BY <2>1, <3>7
  <2> QED
    BY <2>3, <2>4
<1>10. CASE ~BadLast(ts)
  <2> HIDE DEF recv
  <2>1. /\ Does(done, read, {}, {"client_rdr"}) /\ read.trans = ts
        /\ read.client_rdr = recv
    <3>1. Mach(done) /\ done \in Conns
      BY <1>7 DEF Does, Mach
    <3>2. /\ read \in Conns /\ read.sm = done.sm /\ read.ops = done.ops
          /\ Given(read) = Given(done) /\ read.bug = done.bug
          /\ read.trans = done.trans /\ read.client_rdr = recv
      BY <1>1, <3>1 DEF Conns, Given
    <3>3. Keep(done, read, {"client_rdr"})
      BY <3>1 DEF Keep, Fields, Conns
    <3> QED
      BY <1>7, <3>1, <3>2, <3>3, Updated DEF CountF
  <2> HIDE DEF read
  <2>2. Does(s, read, {}, {"trans", "client_rdr"})
    <3>1. Does(s, read, {} \cup {}, {"trans"} \cup {"client_rdr"})
      BY <1>7, <2>1, DoesBoth
    <3>2. {} \cup {} = {} /\ {"trans"} \cup {"client_rdr"} = {"trans", "client_rdr"}
      OBVIOUS
    <3> QED
      BY <3>1, <3>2
  <2>3. Mach(read) /\ Online(read)
    <3>1. Online(read)
      BY <1>1, <1>8, <2>2, LegsSteps
    <3> QED
      BY <3>1 DEF Online
  <2>4. /\ read.client_rbuf_rdr = s.client_rbuf_rdr /\ read.client_recv = recv
        /\ read.origin_pending = s.origin_pending /\ s.client_rbuf_rdr \in Int
        /\ s.origin_pending \in Int
    BY <1>1, <2>2 DEF Does, Keep, Fields, recv, Conns
  <2> DEFINE t == OnClientData(s)
             X == {"org_send_idle", "org_send"}
             F == {"trans", "client_rdr", "origin_pending"}
  <2>5. Does(s, t, X, F) /\ t.origin_pending = s.origin_pending + sent
        /\ t.trans = ts /\ t.client_rdr = recv
    <3>1. CASE sent > 0
      <4>1. t = SendToOrigin(read, sent)
        BY <1>3, <1>6, <1>10, <3>1
      <4> HIDE DEF t
      <4>2. read.origin_pending + sent <= ClnAvail(read)
        BY <1>1, <1>5, <1>10, <2>4 DEF ToOrigin, ClnAvail
      <4>3. /\ Does(read, t, X, {"origin_pending"})
            /\ t.origin_pending = read.origin_pending + sent
        BY <1>5, <2>3, <4>1, <4>2, SendToOriginDoes DEF Online
      <4>4. Does(s, t, {} \cup X, {"trans", "client_rdr"} \cup {"origin_pending"})
        BY <2>2, <4>3, DoesBoth
      <4>5. {} \cup X = X /\ {"trans", "client_rdr"} \cup {"origin_pending"} = F
        OBVIOUS
      <4>6. t.trans = read.trans /\ t.client_rdr = read.client_rdr
        BY <4>3 DEF Does, Keep, Fields
      <4> QED
        BY <2>1, <2>4, <4>3, <4>4, <4>5, <4>6
    <3>2. CASE ~(sent > 0)
      <4>1. t = read /\ sent = 0
        BY <1>3, <1>5, <1>6, <1>10, <3>2
      <4> HIDE DEF t
      <4>2. Does(s, t, X, F)
        BY <2>2, <4>1 DEF Does, Only, Keep
      <4> QED
        BY <2>1, <2>4, <4>1, <4>2
    <3> QED
      BY <3>1, <3>2
  <2> HIDE DEF t
  <2>6. /\ t.client_rbuf_rdr = s.client_rbuf_rdr /\ t.client_recv = recv
        /\ t.flags = s.flags /\ ToClient(t) = ToClient(s) /\ t.origin_rdr = s.origin_rdr
    BY <2>5 DEF Does, Keep, Fields, recv, ToClient
  <2>7. ToOrigin(t) = ToOrigin(s) + sent
    BY <1>5, <2>4, <2>5, <2>6 DEF ToOrigin
  <2>8. Ledger(t)
    <3>1. ToOrigin(t) <= t.client_rdr
      BY <1>1, <1>5, <1>10, <2>5, <2>7
    <3> QED
      BY <1>1, <1>5, <1>10, <2>5, <2>6, <2>7, <3>1 DEF Ledger
  <2>9. X \cap Marks = {} /\ X \cap (ClnEndX \cup OrgEndX) = {}
    BY DEF Marks, ClnEndX, OrgEndX
  <2>10. F \subseteq {"trans", "client_rdr", "origin_pending", "flags"}
    OBVIOUS
  <2> HIDE DEF X, F
  <2>11. Left(s, t)
    BY <1>2, <2>5, <2>6, <2>8, <2>9, <2>10, FollowsLeft DEF recv
  <2> QED
    BY <2>11 DEF t
<1> QED
  BY <1>9, <1>10

\* The handler, or the tunnel, is given the client's bytes.
LEMMA HandClnBytesLeft ==
    ASSUME NEW s, Good(s), Up(s.sm), "cln_recv_eof" \notin s.sm
    PROVE  Left(s, HandClnBytes(s))
<1>1. CASE ~s.tunnel
  BY <1>1, OnClientDataLeft DEF HandClnBytes
<1>2. CASE s.tunnel
  <2> DEFINE v == ClnAvail(s)
             u == [s EXCEPT !.origin_pending = v]
  <2>1. s \in Conns /\ Mach(s)
    BY DEF Good, Mach
  <2>2. /\ v \in Int /\ s.origin_pending \in Int
        /\ s.origin_pending <= v /\ 0 <= v /\ s.client_rbuf_rdr + v <= s.client_recv
    <3>1. s.client_recv \in Nat /\ s.client_rbuf_rdr \in Int /\ s.origin_pending \in Int
      BY <2>1 DEF Conns
    <3>2. 0 <= s.origin_pending /\ s.client_rbuf_rdr + s.origin_pending <= s.client_recv
      BY <2>1 DEF Mach, Counts
    <3> QED
      BY <3>1, <3>2 DEF ClnAvail
  <2>3. HandClnBytes(s) = ProcessEvent(u, "org_send")
    BY <1>2 DEF HandClnBytes
  <2> HIDE DEF v
  <2>4. /\ u \in Conns /\ u.sm = s.sm /\ u.ops = s.ops
        /\ Given(u) = Given(s) /\ u.bug = s.bug /\ u.origin_pending = v
    BY <2>1, <2>2 DEF Conns, Given
  <2>5. Keep(s, u, {"origin_pending"})
    BY <2>1 DEF Keep, Fields, Conns
  <2> HIDE DEF u
  <2>6. Does(s, u, {}, {"origin_pending"})
    <3>1. /\ u.client_rbuf_rdr = s.client_rbuf_rdr /\ u.origin_rbuf_rdr = s.origin_rbuf_rdr
          /\ u.client_pending = s.client_pending /\ u.org_cache_rdr = s.org_cache_rdr
          /\ u.client_recv = s.client_recv /\ u.origin_recv = s.origin_recv
      BY <2>5 DEF Keep, Fields
    <3>2. Counts(u)
      BY <2>1, <2>2, <2>4, <3>1 DEF Mach, Counts
    <3>3. s.client_pending <= u.client_pending
      <4>1. s.client_pending \in Int
        BY <2>1 DEF Conns
      <4> QED
        BY <3>1, <4>1
    <3> QED
      BY <2>1, <2>2, <2>4, <2>5, <3>2, <3>3, Counted
  <2>7. Left(s, u)
    <3>1. /\ u.flags = s.flags /\ u.client_rdr = s.client_rdr
          /\ u.origin_recv = s.origin_recv
      BY <2>5 DEF Keep, Fields
    <3>2. s.client_rdr = 0
      BY <1>2 DEF Good
    <3>3. {} \cap (Marks \ Eofs) = {} /\ {"origin_pending"} \subseteq {"trans", "client_rdr",
              "client_recv", "origin_pending", "flags"}
      OBVIOUS
    <3>4. u.sm = s.sm
      BY <2>4
    <3>5. Good(u) /\ Online(u)
      BY <1>2, <2>6, <3>1, <3>2, <3>3, <3>4, GoodMoved
    <3> QED
      BY <2>6, <3>1, <3>5 DEF Left, Does
  <2> QED
    BY <2>3, <2>7, LeftUp, LeftEvents, LeftBoth
<1> QED
  BY <1>1, <1>2

\* The units are in the buffer of the client.
LEMMA ClnBytesLeft ==
    ASSUME NEW s, Good(s), Up(s.sm), NEW n \in Nat,
           s.client_recv + n <= Len(s.cln_script)
    PROVE  LET t == [s EXCEPT !.client_recv = @ + n, !.moved = TRUE] IN
           Left(s, t) /\ t.sm = s.sm /\ t.ops = s.ops
<1> DEFINE m == s.client_recv + n
           b == TRUE
           t == [s EXCEPT !.client_recv = m, !.moved = b]
           r == [s EXCEPT !.client_recv = @ + n, !.moved = TRUE]
<1>1. s \in Conns /\ Mach(s) /\ m \in Nat /\ b \in BOOLEAN /\ s.client_recv <= m
  <2>1. s \in Conns /\ Mach(s)
    BY DEF Good, Mach
  <2>2. s.client_recv \in Nat
    BY <2>1 DEF Conns
  <2> QED
    BY <2>1, <2>2
<1>2. r = t
  BY <1>1 DEF Conns
<1> HIDE DEF m, b
<1>3. /\ t \in Conns /\ t.sm = s.sm /\ t.ops = s.ops /\ Given(t) = Given(s)
      /\ t.bug = s.bug /\ t.client_recv = m
  BY <1>1 DEF Conns, Given
<1>4. Keep(s, t, {"client_recv"})
  BY <1>1 DEF Keep, Fields, Conns
<1> HIDE DEF t
<1>5. Does(s, t, {}, {"client_recv"})
  <2>1. /\ t.client_rbuf_rdr = s.client_rbuf_rdr /\ t.origin_rbuf_rdr = s.origin_rbuf_rdr
        /\ t.client_pending = s.client_pending /\ t.org_cache_rdr = s.org_cache_rdr
        /\ t.origin_pending = s.origin_pending /\ t.origin_recv = s.origin_recv
    BY <1>4 DEF Keep, Fields
  <2>2. /\ s.client_pending \in Int /\ s.origin_pending \in Int
        /\ s.client_rbuf_rdr \in Int /\ s.client_recv \in Nat
    BY <1>1 DEF Conns
  <2>3. s.client_rbuf_rdr + s.origin_pending <= m
    <3>1. s.client_rbuf_rdr + s.origin_pending <= s.client_recv
      BY <1>1 DEF Mach, Counts
    <3> QED
      BY <1>1, <2>2, <3>1
  <2>4. Counts(t)
    BY <1>1, <1>3, <2>1, <2>3 DEF Mach, Counts
  <2> QED
    BY <1>1, <1>3, <1>4, <2>1, <2>2, <2>4, Counted
<1>6. /\ t.trans = s.trans /\ t.origin_recv = s.origin_recv
      /\ t.origin_rdr = s.origin_rdr /\ t.client_rdr = s.client_rdr
      /\ t.cln_script = s.cln_script /\ t.flags = s.flags
      /\ ToOrigin(t) = ToOrigin(s) /\ ToClient(t) = ToClient(s)
  BY <1>4 DEF Keep, Fields, ToOrigin, ToClient
<1>7. ~s.tunnel => Place(t)
  <2>1. SUFFICES ASSUME ~s.tunnel
                 PROVE  Place(t)
    OBVIOUS
  <2>2. Place(s) /\ s.client_rdr \in Nat /\ s.client_recv \in Nat
    BY <1>1, <2>1 DEF Good, Hand, Conns
  <2>3. s.client_rdr <= m /\ m <= Len(s.cln_script)
    <3>1. s.client_rdr <= s.client_recv
      BY <2>2 DEF Place
    <3> QED
      BY <1>1, <2>2, <3>1 DEF m
  <2> QED
    BY <1>3, <1>6, <2>2, <2>3 DEF Place
<1>8. FirstKept(s, t)
  BY <1>6 DEF FirstKept
<1>9. Good(t) /\ Online(t)
  <2>1. ~s.tunnel => Ledger(t)
    <3>1. SUFFICES ASSUME ~s.tunnel
                   PROVE  Ledger(t)
      OBVIOUS
    <3>2. s.client_recv \in Nat /\ ToOrigin(s) \in Int /\ Later(s.trans) \in Nat
      <4>1. /\ s.client_recv \in Nat /\ s.client_rbuf_rdr \in Int
            /\ s.origin_pending \in Int /\ s.trans \in Seq(Trans)
        BY <1>1 DEF Conns
      <4> QED
        BY <4>1, LaterIs DEF ToOrigin
    <3>3. Ledger(s)
      BY <3>1 DEF Good, Hand
    <3>4. ToOrigin(s) + Later(s.trans) <= m
      BY <1>1, <3>2, <3>3 DEF Ledger
    <3> QED
      BY <1>3, <1>6, <3>3, <3>4 DEF Ledger
  <2>2. s.tunnel => t.client_rdr = 0
    BY <1>6 DEF Good
  <2>3. {} \cap (Marks \ Eofs) = {} /\ {"client_recv"} \subseteq {"trans", "client_rdr",
            "client_recv", "origin_pending", "flags"}
    OBVIOUS
  <2> QED
    BY <1>3, <1>5, <1>6, <1>7, <1>8, <2>1, <2>2, <2>3, GoodMoved
<1>10. Left(s, t)
  BY <1>5, <1>6, <1>9 DEF Left, Does
<1> QED
  BY <1>2, <1>3, <1>10

\* on_cln_recv with data.
LEMMA StepClnRecvData ==
    ASSUME IInv, ClnRecvData
    PROVE  IInv'
<1> DEFINE e == Ends(conn, "cln_recv")
<1>1. conn.ops["cln_recv"] # "none"
  BY DEF ClnRecvData
<1>2. PICK n \in 1..conn.cln_room :
        /\ conn.client_recv + n <= Len(conn.cln_script)
        /\ Becomes(ProcessEvent(HandClnBytes(ProcessEvent(
                [e EXCEPT !.client_recv = @ + n, !.moved = TRUE],
                "cln_recv_data")), "cln_recv"))
  BY DEF ClnRecvData, Completed, Ends
<1> DEFINE r == [e EXCEPT !.client_recv = @ + n, !.moved = TRUE]
           f == ProcessEvent(r, "cln_recv_data")
           g == HandClnBytes(f)
           t == ProcessEvent(g, "cln_recv")
<1>3. SUFFICES ASSUME Good(conn)
               PROVE  Kept(conn, t)
  BY <1>2, Lands
<1>4. n \in Nat
  BY <1>3 DEF Good, Mach, Conns
<1>5. /\ Left(conn, e) /\ Mach(e) /\ Up(e.sm) /\ "cln_recv" \in e.sm
      /\ e.ops["cln_recv"] = "none" /\ Does(conn, e, {}, {})
  BY <1>1, <1>3, EndsLeft
<1>6. e.client_recv = conn.client_recv /\ e.cln_script = conn.cln_script
  BY <1>5 DEF Does, Keep, Fields
<1> HIDE DEF e
<1>7. Left(e, r) /\ r.sm = e.sm /\ r.ops = e.ops
  BY <1>2, <1>4, <1>5, <1>6, LeftUp, ClnBytesLeft
<1> HIDE DEF r
<1>8. Left(r, f) /\ Does(r, f, {"cln_recv", "cln_recv_idle"}, {})
  <2> DEFINE X == {"cln_recv", "cln_recv_idle"}
  <2>1. Mach(r) /\ Good(r) /\ Up(r.sm)
    BY <1>7, LeftUp
  <2>2. Does(r, f, X, {})
    BY <1>5, <1>7, <2>1, EvClnRecvData
  <2>3. X \cap Marks = {} /\ X \cap (ClnEndX \cup OrgEndX) = {}
    BY DEF Marks, ClnEndX, OrgEndX
  <2> HIDE DEF X, f
  <2> QED
    BY <2>1, <2>2, <2>3, QuietKept, LeftStep DEF X
<1> HIDE DEF f
<1>11. "cln_recv_eof" \notin f.sm
  <2>1. "cln_recv_eof" \notin e.sm
    BY <1>5 DEF Mach, Sm, One, In, CRecv
  <2> QED
    BY <1>7, <1>8, <2>1 DEF Does, Only
<1>9. Left(f, g)
  BY <1>8, <1>11, LeftUp, HandClnBytesLeft
<1> HIDE DEF g
<1>10. Left(g, t)
  BY <1>9, LeftUp, LeftEvents
<1> HIDE DEF t
<1> QED
  BY <1>5, <1>7, <1>8, <1>9, <1>10 DEF Left, Kept

-----------------------------------------------------------------------------
(* The origin's bytes: the response they are a part of.                    *)

\* What the headers of a response say.
HdrOk(h) == h.len \in Nat /\ h.tunnel \in BOOLEAN /\ h.allowed \in BOOLEAN

\* Headers with and without a length, to be cached or not.
LEMMA HdrIs ==
    ASSUME NEW l \in Nat, NEW b \in BOOLEAN, NEW w \in BOOLEAN
    PROVE  HdrOk(Hdr(l, b, w))
  BY DEF HdrOk, Hdr

\* The headers the model knows.
LEMMA HdrsTyped ==
    ASSUME NEW kind \in DOMAIN Hdrs
    PROVE  HdrOk(Hdrs[kind])
<1>1. kind \in {"get1", "get2", "get3", "small", "plain", "no_len"}
  BY DEF Hdrs
<1>2. /\ Hdrs["get1"] = Hdr(1, FALSE, TRUE) /\ Hdrs["get2"] = Hdr(2, FALSE, TRUE)
      /\ Hdrs["get3"] = Hdr(3, FALSE, TRUE) /\ Hdrs["small"] = Hdr(2, FALSE, FALSE)
      /\ Hdrs["plain"] = Hdr(1, TRUE, TRUE) /\ Hdrs["no_len"] = Hdr(0, TRUE, TRUE)
  BY DEF Hdrs
<1>3. /\ HdrOk(Hdr(1, FALSE, TRUE)) /\ HdrOk(Hdr(2, FALSE, TRUE))
      /\ HdrOk(Hdr(3, FALSE, TRUE)) /\ HdrOk(Hdr(2, FALSE, FALSE))
      /\ HdrOk(Hdr(1, TRUE, TRUE)) /\ HdrOk(Hdr(0, TRUE, TRUE))
  BY HdrIs
<1> QED
  BY <1>1, <1>2, <1>3

\* A unit's effect on the response it is a part of: what the headers have said
\* stays, and its place is the end of what there is of the response.
UnitOk(t, u, i) ==
    /\ u \in Trans /\ u.req_state = t.req_state /\ u.req = t.req
    /\ t.tunnel => u.tunnel
    /\ t.at = 0 /\ u.at > 0 => i < u.at
    /\ t.at > 0 => /\ u.at = t.at /\ u.len = t.len /\ u.hdr = t.hdr
                   /\ t.resp <= u.resp /\ (u.tunnel => t.tunnel)
    /\ TransOk(t) => TransOk(u)
    /\ u.resp_state = "bad" => u.at = t.at /\ u.resp = t.resp /\ u.hdr = t.hdr
    /\ u.resp_state # "bad" /\ TransOk(t) /\ (t.at > 0 => t.at + RespBody(t) = i)
            => (u.at > 0 => u.at + RespBody(u) - 1 = i)
    /\ t.resp_state # "open" => u.resp_state = "bad"
    /\ t.at > 0 /\ t.resp_state = "open"
            => u.resp_state # "bad" /\ (RespCompleted(u) => RespBody(u) = u.len)

\* Each unit does so.
LEMMA RespUnit ==
    ASSUME NEW t \in Trans, NEW i \in Nat, NEW kind
    PROVE  UnitOk(t, OnRespUnit(t, i, kind), i)
<1> DEFINE u == OnRespUnit(t, i, kind)
<1>0. /\ t.resp \in Nat /\ t.hdr \in Nat /\ t.at \in Nat /\ t.len \in Nat
      /\ t.resp_state \in {"open", "complete", "bad"}
  BY DEF Trans
<1>1. CASE \/ t.resp_state # "open"
           \/ ~RespHdrsCompleted(t) /\ kind \notin DOMAIN Hdrs /\ kind # "part"
  <2> DEFINE v == [t EXCEPT !.resp_state = "bad"]
  <2>1. u = v
    BY <1>1 DEF OnRespUnit
  <2>2. /\ v \in Trans /\ v.req_state = t.req_state /\ v.req = t.req /\ (v.tunnel <=> t.tunnel)
        /\ v.at = t.at /\ v.len = t.len /\ v.hdr = t.hdr /\ v.resp = t.resp
        /\ v.resp_state = "bad"
    BY DEF Trans
  <2> HIDE DEF v, u
  <2>3. ~(t.at > 0 /\ t.resp_state = "open")
    BY <1>1 DEF RespHdrsCompleted
  <2> QED
    BY <1>0, <2>1, <2>2, <2>3 DEF UnitOk, TransOk, RespBody, u
<1>2. CASE t.resp_state = "open" /\ RespHdrsCompleted(t)
  <2> DEFINE n == t.resp + 1
             c == IF RespBody(t) + 1 = t.len THEN "complete" ELSE "open"
             v == [t EXCEPT !.resp = n, !.resp_state = c]
  <2>1. u = v
    BY <1>2 DEF OnRespUnit
  <2>2. n \in Nat /\ c \in {"open", "complete", "bad"} /\ c # "bad"
    BY <1>0
  <2>3. /\ c = "complete" => RespBody(t) + 1 = t.len
        /\ c = "open" => RespBody(t) + 1 # t.len
    OBVIOUS
  <2> HIDE DEF c, n
  <2>4. /\ v \in Trans /\ v.req_state = t.req_state /\ v.req = t.req /\ (v.tunnel <=> t.tunnel)
        /\ v.at = t.at /\ v.len = t.len /\ v.hdr = t.hdr /\ v.resp = n
        /\ v.resp_state = c
    BY <2>2 DEF Trans
  <2> HIDE DEF v, u
  <2>5. RespBody(v) = RespBody(t) + 1 /\ RespBody(t) \in Int /\ RespBody(v) \in Int
    BY <1>0, <2>4 DEF RespBody, n
  <2>6. t.at > 0 /\ t.resp <= n
    BY <1>0, <1>2 DEF RespHdrsCompleted, n
  <2>7. TransOk(t) => TransOk(v)
    BY <1>0, <1>2, <2>3, <2>4, <2>5, <2>6 DEF TransOk
  <2>8. t.at + RespBody(t) = i => v.at + RespBody(v) - 1 = i
    BY <1>0, <2>4, <2>5
  <2> QED
    BY <1>2, <2>1, <2>2, <2>3, <2>4, <2>5, <2>6, <2>7, <2>8 DEF UnitOk, RespCompleted, u
<1>3. CASE t.resp_state = "open" /\ ~RespHdrsCompleted(t) /\ kind \in DOMAIN Hdrs
  <2> DEFINE n == t.resp + 1
             h == t.hdr + 1
             a == i + 1
             g == Hdrs[kind]
             l == g.len
             w == g.allowed
             b == t.tunnel \/ g.tunnel
             c == IF l = 0 THEN "complete" ELSE "open"
             v == [t EXCEPT !.resp = n, !.hdr = h, !.at = a, !.len = l,
                            !.allowed = w, !.tunnel = b, !.resp_state = c]
  <2>0. u = OnRespHdrs(t, a, g)
    <3>1. kind # "part"
      BY <1>3 DEF Hdrs
    <3> HIDE DEF n, h, l, w, b, c, v, g, a
    <3>2. u = OnRespHdrs(t, i + 1, Hdrs[kind])
      BY <1>3, <3>1 DEF OnRespUnit
    <3> QED
      BY <3>2 DEF a, g
  <2>1. OnRespHdrs(t, a, g) = v
    BY Zenon DEF OnRespHdrs
  <2>2. /\ n \in Nat /\ h \in Nat /\ a \in Nat /\ l \in Nat /\ w \in BOOLEAN
        /\ b \in BOOLEAN /\ c \in {"open", "complete", "bad"} /\ c # "bad"
    BY <1>0, <1>3, HdrsTyped DEF HdrOk
  <2>3. /\ c = "complete" => l = 0
        /\ c = "open" => l # 0
        /\ t.tunnel => b
    OBVIOUS
  <2> HIDE DEF c, n, h, a, l, w, b, g
  <2>4. v \in Trans
    BY <2>2 DEF Trans
  <2>5. /\ v.req_state = t.req_state /\ v.req = t.req /\ (t.tunnel => v.tunnel)
        /\ v.at = a /\ v.len = l /\ v.hdr = h /\ v.resp = n
        /\ v.resp_state = c
    BY <2>2, <2>3 DEF Trans
  <2> HIDE DEF v, u
  <2>6. t.at = 0
    BY <1>0, <1>3 DEF RespHdrsCompleted
  <2>7. TransOk(t) => RespBody(v) = 0
    BY <1>0, <2>5, <2>6 DEF TransOk, RespBody, n, h
  <2>8. TransOk(t) => TransOk(v)
    BY <2>2, <2>3, <2>5, <2>7 DEF TransOk, a
  <2>9. TransOk(t) => v.at + RespBody(v) - 1 = i
    BY <2>5, <2>7 DEF a
  <2>10. i < v.at
    BY <2>5 DEF a
  <2> QED
    BY <1>3, <2>0, <2>1, <2>2, <2>4, <2>5, <2>6, <2>8, <2>9, <2>10 DEF UnitOk, RespCompleted, u
<1>4. CASE t.resp_state = "open" /\ ~RespHdrsCompleted(t) /\ kind = "part"
  <2> DEFINE n == t.resp + 1
             h == t.hdr + 1
             v == [t EXCEPT !.resp = n, !.hdr = h]
  <2>1. u = v
    <3>1. "part" \notin DOMAIN Hdrs
      BY DEF Hdrs
    <3> QED
      BY <1>4, <3>1 DEF OnRespUnit
  <2>2. n \in Nat /\ h \in Nat
    BY <1>0
  <2> HIDE DEF n, h
  <2>3. /\ v \in Trans /\ v.req_state = t.req_state /\ v.req = t.req /\ (v.tunnel <=> t.tunnel)
        /\ v.at = t.at /\ v.len = t.len /\ v.hdr = h /\ v.resp = n
        /\ v.resp_state = t.resp_state
    BY <2>2 DEF Trans
  <2> HIDE DEF v, u
  <2>4. t.at = 0
    BY <1>0, <1>4 DEF RespHdrsCompleted
  <2>5. TransOk(t) => TransOk(v)
    BY <1>0, <2>3, <2>4 DEF TransOk, n, h
  <2> QED
    BY <1>4, <2>1, <2>3, <2>4, <2>5 DEF UnitOk, u
<1>5. CASE t.resp_state # "open"
  BY <1>1, <1>5
<1>6. CASE t.resp_state = "open" /\ RespHdrsCompleted(t)
  BY <1>2, <1>6
<1>7. CASE t.resp_state = "open" /\ ~RespHdrsCompleted(t)
  <2>1. CASE kind \notin DOMAIN Hdrs /\ kind # "part"
    BY <1>1, <1>7, <2>1
  <2> QED
    BY <1>3, <1>4, <1>7, <2>1
<1> QED
  BY <1>5, <1>6, <1>7

\* What the i-th unit of the origin does to the response.
RespFeed(s, a, i) ==
    LET t == OnRespUnit(a.t, i, Kind(s, s.origin_recv[i]))
    IN  IF a.t.resp_state # "open" /\ i > s.origin_rdr + 1 THEN a
        ELSE [t |-> t, rdr |-> IF t.resp_state = "bad" THEN a.rdr ELSE i]
\* The response and the place of its end.
Fed == [t : Trans, rdr : Nat]

\* The response after the units of the origin up to the i-th.
FedOk(s, i, a) ==
    LET t == s.trans[1]
        u == a.t
    IN  /\ u.req_state = t.req_state /\ u.req = t.req
        /\ t.tunnel => u.tunnel
        /\ u.at > 0 => t.at > 0 \/ s.origin_rdr < u.at
        /\ t.resp_state # "open" => u.resp_state # "open"
        /\ t.at > 0 => /\ u.at = t.at /\ u.len = t.len /\ u.hdr = t.hdr
                       /\ t.resp <= u.resp /\ (u.tunnel => t.tunnel)
        /\ TransOk(u)
        /\ s.origin_rdr <= a.rdr /\ a.rdr <= i
        /\ u.at > 0 => u.at + RespBody(u) - 1 = a.rdr
        /\ u.resp_state = "open" => a.rdr = i
        /\ t.at > 0 /\ t.resp_state = "open"
            => u.resp_state # "bad" /\ (RespCompleted(u) => RespBody(u) = u.len)
        /\ i = s.origin_rdr => u = t

\* Their types.
LEMMA FeedTyped ==
    ASSUME NEW s, NEW a \in Fed, NEW i \in Nat
    PROVE  RespFeed(s, a, i) \in Fed
<1> DEFINE t == OnRespUnit(a.t, i, Kind(s, s.origin_recv[i]))
<1>1. t \in Trans
  <2>1. a.t \in Trans
    BY DEF Fed
  <2> QED
    BY <2>1, RespUnit DEF UnitOk
<1>2. RespFeed(s, a, i) = IF a.t.resp_state # "open" /\ i > s.origin_rdr + 1 THEN a
                          ELSE [t |-> t, rdr |-> IF t.resp_state = "bad" THEN a.rdr ELSE i]
  BY DEF RespFeed
<1> HIDE DEF t
<1> QED
  BY <1>1, <1>2 DEF Fed

\* One unit.
LEMMA FeedOk ==
    ASSUME NEW s, s.origin_rdr \in Nat, NEW i \in Nat, s.origin_rdr < i,
           s.trans[1] \in Trans,
           NEW a \in Fed, FedOk(s, i - 1, a)
    PROVE  FedOk(s, i, RespFeed(s, a, i))
<1> DEFINE m == s.origin_rdr
           t == s.trans[1]
           u == a.t
           v == OnRespUnit(u, i, Kind(s, s.origin_recv[i]))
           n == IF v.resp_state = "bad" THEN a.rdr ELSE i
           b == RespFeed(s, a, i)
<1>1. u \in Trans /\ a.rdr \in Nat
  BY DEF Fed
<1>2. /\ u.at \in Nat /\ RespBody(u) \in Int /\ u.resp \in Nat
      /\ t.at \in Nat /\ t.resp \in Nat
  BY <1>1 DEF Trans, RespBody
<1>3. b = IF u.resp_state # "open" /\ i > m + 1 THEN a ELSE [t |-> v, rdr |-> n]
  BY DEF RespFeed
<1>4. i # m /\ m <= a.rdr /\ a.rdr <= i - 1 /\ m <= i /\ a.rdr <= i
      /\ (i - 1 = m \/ i > m + 1)
  BY <1>1 DEF FedOk
<1> HIDE DEF m
<1>5. CASE u.resp_state # "open" /\ i > m + 1
  <2>1. b = a
    BY <1>3, <1>5
  <2> QED
    BY <1>4, <1>5, <2>1 DEF FedOk, m
<1>6. CASE ~(u.resp_state # "open" /\ i > m + 1)
  <2>1. b.t = v /\ b.rdr = n
    BY <1>3, <1>6
  <2> HIDE DEF b
  <2>2. UnitOk(u, v, i)
    BY <1>1, RespUnit
  <2> HIDE DEF v
  <2>3. u.resp_state = "open" => a.rdr = i - 1
    BY DEF FedOk
  <2>4. u.resp_state # "open" => u = t
    BY <1>4, <1>6 DEF FedOk, m
  <2>5. /\ v.resp_state = "bad" => n = a.rdr
        /\ v.resp_state # "bad" => n = i
    OBVIOUS
  <2> HIDE DEF n
  <2>6. TransOk(u) /\ TransOk(v)
    BY <2>2 DEF FedOk, UnitOk
  <2>7. v.req_state = t.req_state /\ v.req = t.req /\ (t.tunnel => v.tunnel)
    BY <2>2 DEF FedOk, UnitOk
  <2>13. v.at > 0 => t.at > 0 \/ m < v.at
    <3>1. u.at > 0 => t.at > 0 \/ m < u.at
      BY DEF FedOk, m
    <3>2. u.at = 0 /\ v.at > 0 => i < v.at
      BY <2>2 DEF UnitOk
    <3>3. u.at > 0 => v.at = u.at
      BY <2>2 DEF UnitOk
    <3>4. v.at \in Nat /\ m \in Nat /\ m < i
      BY <2>2 DEF UnitOk, Trans, m
    <3> QED
      BY <1>2, <3>1, <3>2, <3>3, <3>4
  <2>14. t.resp_state # "open" => v.resp_state # "open"
    <3>1. t.resp_state # "open" => u.resp_state # "open"
      BY DEF FedOk
    <3>2. u.resp_state # "open" => v.resp_state = "bad"
      BY <2>2 DEF UnitOk
    <3> QED
      BY <3>1, <3>2
  <2>8. t.at > 0 => /\ v.at = t.at /\ v.len = t.len /\ v.hdr = t.hdr
                    /\ t.resp <= v.resp /\ (v.tunnel => t.tunnel)
    <3>1. t.at > 0 => /\ u.at = t.at /\ u.len = t.len /\ u.hdr = t.hdr
                      /\ t.resp <= u.resp /\ (u.tunnel => t.tunnel)
      BY DEF FedOk
    <3>2. u.at > 0 => /\ v.at = u.at /\ v.len = u.len /\ v.hdr = u.hdr
                      /\ u.resp <= v.resp /\ (v.tunnel => u.tunnel)
      BY <2>2 DEF UnitOk
    <3>3. v.resp \in Nat
      BY <2>2 DEF UnitOk, Trans
    <3> QED
      BY <1>2, <3>1, <3>2, <3>3
  <2>9. m <= n /\ n <= i /\ (v.resp_state = "open" => n = i)
    BY <1>4, <2>5
  <2>10. v.at > 0 => v.at + RespBody(v) - 1 = n
    <3>1. CASE v.resp_state = "bad"
      <4>1. v.at = u.at /\ RespBody(v) = RespBody(u) /\ n = a.rdr
        BY <2>2, <2>5, <3>1 DEF UnitOk, RespBody
      <4> QED
        BY <4>1 DEF FedOk
    <3>2. CASE v.resp_state # "bad"
      <4>1. u.resp_state = "open"
        BY <2>2, <3>2 DEF UnitOk
      <4>2. u.at > 0 => u.at + RespBody(u) = i
        <5>1. u.at > 0 => u.at + RespBody(u) - 1 = i - 1
          BY <2>3, <4>1 DEF FedOk
        <5> QED
          BY <1>2, <5>1
      <4>3. v.at > 0 => v.at + RespBody(v) - 1 = i
        BY <2>2, <2>6, <3>2, <4>2 DEF UnitOk
      <4> QED
        BY <2>5, <3>2, <4>3
    <3> QED
      BY <3>1, <3>2
  <2>11. t.at > 0 /\ t.resp_state = "open"
            => v.resp_state # "bad" /\ (RespCompleted(v) => RespBody(v) = v.len)
    <3>1. SUFFICES ASSUME t.at > 0, t.resp_state = "open"
                   PROVE  v.resp_state # "bad" /\ (RespCompleted(v) => RespBody(v) = v.len)
      OBVIOUS
    <3>2. u.at > 0 /\ u.resp_state = "open"
      BY <2>4, <3>1 DEF FedOk
    <3> QED
      BY <2>2, <3>2 DEF UnitOk
  <2>12. FedOk(s, i, b)
    BY <1>4, <2>1, <2>6, <2>7, <2>8, <2>9, <2>10, <2>11, <2>13, <2>14 DEF FedOk, m
  <2> QED
    BY <2>12 DEF b
<1> QED
  BY <1>5, <1>6

\* All units that have been received.
LEMMA RespFedOk ==
    ASSUME NEW s, Mach(s), s.trans # <<>>, Place(s)
    PROVE  LET a == RespFed(s) IN a \in Fed /\ FedOk(s, Len(s.origin_recv), a)
<1> DEFINE m == s.origin_rdr
           n == Len(s.origin_recv)
           first == [t |-> s.trans[1], rdr |-> m]
           G == [p \in Fed \X ((m + 1)..n) |-> RespFeed(s, p[1], p[2])]
           Def(f) == [i \in m..n |-> IF i = m THEN first ELSE RespFeed(s, f[i - 1], i)]
<1>1. m \in Nat /\ n \in Nat /\ m <= n
  <2>1. m \in Nat /\ n \in Nat
    BY ReceivedTyped
  <2> QED
    BY <2>1 DEF Place
<1>2. s.trans[1] \in Trans /\ TransOk(s.trans[1])
  <2>1. 1 \in DOMAIN s.trans
    BY FirstTyped
  <2> QED
    BY <2>1, FirstTyped DEF Place
<1>3. first \in Fed /\ FedOk(s, m, first)
  <2>1. first.t = s.trans[1] /\ first.rdr = m /\ first \in Fed
    BY <1>1, <1>2 DEF Fed
  <2>2. /\ s.trans[1].at > 0 => s.trans[1].at + RespBody(s.trans[1]) - 1 = m
        /\ m <= m
    BY <1>1 DEF Place
  <2>3. s.trans[1].resp <= s.trans[1].resp
    BY <1>2 DEF Trans
  <2>4. s.trans[1].at > 0 /\ s.trans[1].resp_state = "open"
            => s.trans[1].resp_state # "bad" /\ ~RespCompleted(s.trans[1])
    BY DEF RespCompleted
  <2> HIDE DEF first
  <2> QED
    BY <1>2, <2>1, <2>2, <2>3, <2>4 DEF FedOk
<1>4. \A v \in Fed, i \in (m + 1)..n : RespFeed(s, v, i) \in Fed
  <2> SUFFICES ASSUME NEW v \in Fed, NEW i \in (m + 1)..n
               PROVE  RespFeed(s, v, i) \in Fed
    OBVIOUS
  <2>1. i \in Nat
    BY <1>1
  <2> QED
    BY <2>1, FeedTyped
<1>5. RespFed(s) = (CHOOSE f : f = [i \in m..n |-> IF i = m THEN first ELSE RespFeed(s,
          f[i - 1], i)])[n]
  BY DEF RespFed, RespFeed
<1> HIDE DEF m, n, first
<1>6. \A v \in Fed, i \in (m + 1)..n : G[<<v, i>>] = RespFeed(s, v, i)
  OBVIOUS
<1> HIDE DEF G
<1>7. PICK g \in [m..n -> Fed] : Computed(g, m, n, first, G)
  <2>1. Within(G, Fed, m, n)
    BY <1>4, <1>6 DEF Within
  <2> QED
    BY <1>1, <1>3, <2>1, Recursive, Zenon
<1>8. g = Def(g)
  <2>1. ASSUME NEW i \in m..n, i # m
        PROVE  G[<<g[i - 1], i>>] = RespFeed(s, g[i - 1], i)
    <3>1. i \in (m + 1)..n /\ i - 1 \in m..n
      BY <1>1, <2>1
    <3> QED
      BY <1>6, <3>1
  <2>2. [i \in m..n |-> IF i = m THEN first ELSE G[<<g[i - 1], i>>]] = Def(g)
    BY <2>1
  <2> QED
    BY <1>7, <2>2 DEF Computed
<1> DEFINE f == CHOOSE f : f = [i \in m..n |-> IF i = m THEN first ELSE RespFeed(s, f[i - 1],
        i)]
<1>9. f = [i \in m..n |-> IF i = m THEN first ELSE RespFeed(s, f[i - 1], i)]
  BY <1>8
<1> HIDE DEF f
<1> DEFINE S == {i \in m..n : f[i] \in Fed /\ FedOk(s, i, f[i])}
<1>10. m \in S
  BY <1>1, <1>3, <1>9
<1>11. ASSUME NEW i \in (m + 1)..n, i - 1 \in S
       PROVE  i \in S
  <2>1. i \in m..n /\ i # m /\ i \in Nat /\ m < i
    BY <1>1
  <2>2. f[i] = RespFeed(s, f[i - 1], i)
    BY <1>9, <2>1
  <2>3. f[i - 1] \in Fed /\ FedOk(s, i - 1, f[i - 1])
    BY <1>11
  <2>4. FedOk(s, i, f[i])
    BY <1>1, <1>2, <2>1, <2>2, <2>3, FeedOk DEF m
  <2> QED
    BY <1>4, <2>1, <2>2, <2>3, <2>4
<1> HIDE DEF S
<1>12. n \in S
  BY <1>1, <1>10, <1>11, Upward
<1>13. f[n] \in Fed /\ FedOk(s, n, f[n])
  BY <1>12 DEF S
<1>14. RespFed(s) = f[n]
  BY <1>5 DEF f
<1> QED
  BY <1>13, <1>14 DEF n

-----------------------------------------------------------------------------
(* What the handler does when bytes have been received.                    *)

\* What holds while the handler deals with what has just been received.
Use(s) ==
    /\ s.csm # "wait_body_data" => s.trans # <<>>
    /\ s.csm \in Caching =>
            /\ ReqCompleted(s.trans[1]) /\ s.trans[1].at > 0
            /\ RespBody(s.trans[1]) >= 1 /\ "caching_started" \in s.flags
            /\ ~s.trans[1].tunnel
WriteOk(s) ==
    /\ Wrote(s)
    /\ s.csm = "wait_body_data" => s.wrote = <<>>
    /\ s.csm \in {"cache_write", "cache_idle_wr"} =>
            /\ s.org_cache_rdr = s.trans[1].at - 1 + Len(s.wrote)
            /\ s.org_cache_rdr <= Len(s.origin_recv)
    /\ s.csm = "cache_write" =>
            0 <= s.writing /\ s.org_cache_rdr + s.writing <= Len(s.origin_recv)
    /\ s.csm = "cache_idle_wr" => /\ "pend_tunnel" \notin s.flags
                                  /\ s.org_cache_rdr < Len(s.origin_recv)
\* What the flags say of the handler; the entry in bpctrl is there.
Marked(s) ==
    /\ "pend_tunnel" \in s.flags => s.csm = "cache_write"
    /\ s.strm = "sock" /\ "pend_tunnel" \notin s.flags => "bpctrl_added" \in s.flags
    /\ "params_set" \in s.flags =>
            "caching_started" \in s.flags \/ (s.trans # <<>> /\ s.trans[1].tunnel)
    /\ s.csm = "wait_body_data" => "trans_completed" \notin s.flags
    /\ s.csm \in {"cache_write", "cache_idle_wr"} /\ "trans_completed" \in s.flags
            /\ "pend_tunnel" \notin s.flags => s.trans[1].resp_state # "open"
Legs(s) ==
    /\ Online(s) /\ Steps(s) /\ Served(s) /\ ~s.tunnel
    /\ OpFits(s) /\ Paused(s) /\ Place(s)
    /\ "org_recv_idle" \in s.sm
    /\ s.csm \notin Deciding
    /\ s.strm = "cache" => s.csm = "cache_read"
    /\ Use(s) /\ WriteOk(s) /\ Marked(s) /\ Ledger(s)
\* The reader of the cache stops at the body until the cache is used.
Behind(s) == s.csm = "wait_body_data" =>
    /\ s.org_cache_rdr <= s.origin_rdr
    /\ s.trans # <<>> /\ s.trans[1].at > 0 => s.org_cache_rdr < s.trans[1].at
\* The cache has been given up after a start or for a tunnel.
Started(s) == s.csm = "cache_closed"
                => "caching_started" \in s.flags \/ s.trans[1].tunnel
\* What the cache has served is as long as what has not been consumed.
NewRead(s) == s.csm = "cache_read" =>
    /\ s.trans[1].resp_state = "open" /\ s.obj_len = s.trans[1].len
    /\ s.strm = "cache"
    /\ s.origin_rdr + s.cache_offs = Len(s.origin_recv) + RespBody(s.trans[1])

\* The flags a step sets: the length of a response is told when the cache is
\* started or for a tunnel, and its end when it is complete.
Flagged(s, t) ==
    /\ s.flags \subseteq t.flags
    /\ t.flags \subseteq s.flags \cup {"params_set", "caching_started",
                                     "after_end_data", "trans_completed"}
    /\ "params_set" \in t.flags \ s.flags =>
            "caching_started" \in t.flags \/ s.trans[1].tunnel
    /\ "trans_completed" \in t.flags \ s.flags =>
            s.csm # "wait_body_data" /\ RespCompleted(s.trans[1])

\* They say of the handler what they said.
LEMMA MarkedKept ==
    ASSUME NEW s, Marked(s), NEW t, Flagged(s, t), t.trans = s.trans, s.trans # <<>>,
           t.strm = s.strm,
           \/ t.csm = s.csm
           \/ s.csm = "wait_body_data" /\ t.csm = "cache_closed"
           \/ s.csm = "cache_idle_wr" /\ t.csm = "cache_write"
    PROVE  Marked(t)
<1>1. /\ "pend_tunnel" \in t.flags <=> "pend_tunnel" \in s.flags
      /\ "bpctrl_added" \in t.flags <=> "bpctrl_added" \in s.flags
      /\ "caching_started" \in s.flags => "caching_started" \in t.flags
  BY DEF Flagged
<1>2. "pend_tunnel" \in t.flags => t.csm = "cache_write"
  BY <1>1 DEF Marked
<1>3. t.strm = "sock" /\ "pend_tunnel" \notin t.flags => "bpctrl_added" \in t.flags
  BY <1>1 DEF Marked
<1>4. "params_set" \in t.flags =>
        "caching_started" \in t.flags \/ (t.trans # <<>> /\ t.trans[1].tunnel)
  BY <1>1 DEF Marked, Flagged
<1>5. t.csm = "wait_body_data" => "trans_completed" \notin t.flags
  BY DEF Marked, Flagged
<1>6. t.csm \in {"cache_write", "cache_idle_wr"} /\ "trans_completed" \in t.flags
        /\ "pend_tunnel" \notin t.flags => t.trans[1].resp_state # "open"
  BY <1>1 DEF Marked, Flagged, RespCompleted
<1> QED
  BY <1>2, <1>3, <1>4, <1>5, <1>6 DEF Marked

\* A step that passes nothing on.
LEMMA LedgerSame ==
    ASSUME NEW s, Ledger(s), NEW t, NEW X, NEW F, Does(s, t, X, F),
           F \cap {"client_rdr", "client_recv", "origin_rdr", "trans", "client_rbuf_rdr",
                  "origin_rbuf_rdr", "client_pending", "origin_pending"} = {},
           "cln_recv_eof" \notin X,
           "pend_tunnel" \in s.flags => "pend_tunnel" \in t.flags
    PROVE  Ledger(t)
<1>1. /\ t.client_rdr = s.client_rdr /\ t.client_recv = s.client_recv
      /\ t.origin_rdr = s.origin_rdr /\ t.trans = s.trans
      /\ ToOrigin(t) = ToOrigin(s) /\ ToClient(t) = ToClient(s)
  BY DEF Does, Keep, Fields, ToOrigin, ToClient
<1>2. "cln_recv_eof" \in t.sm <=> "cln_recv_eof" \in s.sm
  BY DEF Does, Only
<1> QED
  BY <1>1, <1>2 DEF Ledger

\* What a step sends is not changed; the bytes there are to send.
SameSend(s, t) == /\ t.tunnel = s.tunnel /\ t.origin_rdr = s.origin_rdr
                  /\ ToClient(t) = ToClient(s)
Owed(s, n) == n \in Nat /\ ToClient(s) + n <= Len(s.origin_recv)
LEMMA SendSame ==
    ASSUME NEW s, NEW t, NEW X, NEW F, Does(s, t, X, F),
           F \cap {"tunnel", "origin_rdr", "origin_rbuf_rdr", "client_pending"} = {}
    PROVE  SameSend(s, t)
  BY DEF Does, Keep, Fields, SameSend, ToClient

\* A tunnel can start.
LEMMA LegsTunnel ==
    ASSUME NEW s, Legs(s)
    PROVE  Left(s, TryBlindTunnel(s))
<1> DEFINE t == TryBlindTunnel(s)
<1>1. s \in Conns /\ Mach(s) /\ s.csm \in Csms
  BY DEF Legs, Online, Mach, Conns
<1>2. CASE s.csm \notin Waiting
  <2>1. s.cache_op = "none"
    BY <1>2 DEF Legs, OpFits, Waiting
  <2> QED
    BY <1>2, <2>1, TunnelNow DEF Legs
<1>3. CASE s.csm \in Waiting
  <2>1. s.csm = "cache_write"
    BY <1>3 DEF Legs, Waiting, Deciding
  <2>2. /\ Does(s, t, {}, {"flags", "csm"}) /\ t.csm = s.csm
        /\ t.flags = (s.flags \ {"bpctrl_added"}) \cup {"pend_tunnel"}
    BY <1>1, <1>3, TunnelWaitingDoes DEF TryBlindTunnel
  <2> HIDE DEF t
  <2>3. /\ t.origin_recv = s.origin_recv /\ t.origin_rdr = s.origin_rdr
        /\ t.client_rdr = s.client_rdr /\ t.client_recv = s.client_recv
        /\ t.cln_script = s.cln_script /\ t.trans = s.trans
        /\ t.org_cache_rdr = s.org_cache_rdr /\ t.wrote = s.wrote
        /\ t.writing = s.writing /\ t.cache_op = s.cache_op
        /\ t.tunnel = s.tunnel /\ t.strm = s.strm /\ t.obj_at = s.obj_at
        /\ t.obj_len = s.obj_len /\ t.cache_offs = s.cache_offs
        /\ t.handle = s.handle
    BY <2>2 DEF Does, Keep, Fields
  <2>4. Online(t) /\ Steps(t)
    <3> DEFINE X == {}
               F == {"flags", "csm"}
    <3>1. Does(s, t, X, F) /\ X \subseteq LegsX
      BY <2>2
    <3> HIDE DEF X, F
    <3> QED
      BY <3>1, LegsSteps DEF Legs
  <2>5. \A x : x \in t.sm <=> x \in s.sm
    BY <2>2 DEF Does, Only
  <2>6. Served(t) /\ ~t.tunnel /\ Place(t)
    BY <2>3 DEF Legs, Served, Place
  <2>7. Paused(t)
    BY <2>2, <2>5 DEF Legs, Paused
  <2>8. OpFits(t)
    BY <2>2, <2>3 DEF Legs, OpFits
  <2>9. Cached(t)
    BY <2>1, <2>2, <2>3 DEF Legs, Use, Cached
  <2>10. Asked(t)
    BY <2>1, <2>2, <2>3 DEF Legs, Asked
  <2>11. Bytes(t)
    BY <2>1, <2>2, <2>3 DEF Legs, WriteOk, Wrote, Bytes, Waiting
  <2>13. Entry(t)
    BY <2>1, <2>2, <2>3 DEF Legs, Marked, Entry, Deciding
  <2>14. Waits(t)
    BY <2>1, <2>2, <2>3 DEF Waits, Waiting, Deciding
  <2>15. Ledger(t)
    <3> DEFINE X == {}
               F == {"flags", "csm"}
    <3>1. Does(s, t, X, F) /\ "cln_recv_eof" \notin X
          /\ F \cap {"client_rdr", "client_recv", "origin_rdr", "trans", "client_rbuf_rdr",
                  "origin_rbuf_rdr", "client_pending", "origin_pending"} = {}
      BY <2>2
    <3>2. "pend_tunnel" \in t.flags
      BY <2>2
    <3> HIDE DEF X, F
    <3> QED
      BY <3>1, <3>2, LedgerSame DEF Legs
  <2>12. Good(t)
    BY <2>4, <2>6, <2>7, <2>8, <2>9, <2>10, <2>11, <2>13, <2>14, <2>15, BodyGood
       DEF Body, Core
  <2> QED
    BY <2>2, <2>3, <2>4, <2>12 DEF Left, Does, t
<1> QED
  BY <1>2, <1>3

\* The units have been put into the buffer of the origin.
LEMMA Arrived ==
    ASSUME NEW s, Good(s), Up(s.sm), "org_recv" \in s.sm,
           NEW n \in Nat,
           NEW r, NEW F, F \subseteq {"origin_recv", "cache_offs"}, Does(s, r, {}, F),
           Len(r.origin_recv) = Len(s.origin_recv) + n, s.strm # "cache" => n >= 1,
           s.strm = "cache" => /\ r.cache_offs = s.cache_offs + n
                               /\ r.cache_offs <= s.obj_len,
           NEW t, Does(r, t, {"org_recv", "org_recv_idle"}, {}),
           "org_recv_idle" \in t.sm
    PROVE  /\ s.tunnel => Good(t) /\ Online(t) /\ t.tunnel
           /\ ~s.tunnel => Legs(t) /\ Started(t) /\ NewRead(t) /\ Behind(t)
<1> DEFINE X == {"org_recv", "org_recv_idle"}
<1>1. Mach(s) /\ Steps(s) /\ Served(s) /\ Online(s)
  BY GoodOnline DEF Good
<1>2. Does(s, t, X, F)
  <2>1. Does(s, t, {} \cup X, F \cup {})
    BY DoesBoth
  <2> QED
    BY <2>1 DEF Does, Only, Keep
<1>3. Online(t) /\ Steps(t)
  <2>1. X \subseteq LegsX
    BY DEF LegsX
  <2> HIDE DEF X
  <2> QED
    BY <1>1, <1>2, <2>1, LegsSteps
<1>4. /\ t.origin_recv = r.origin_recv /\ t.cache_offs = r.cache_offs
  BY DEF Does, Keep, Fields
<1>5. /\ t.origin_rdr = s.origin_rdr
      /\ t.client_rdr = s.client_rdr /\ t.client_recv = s.client_recv
      /\ t.cln_script = s.cln_script /\ t.trans = s.trans
      /\ t.org_cache_rdr = s.org_cache_rdr /\ t.wrote = s.wrote
      /\ t.writing = s.writing /\ t.cache_op = s.cache_op
      /\ t.tunnel = s.tunnel /\ t.strm = s.strm /\ t.obj_at = s.obj_at
      /\ t.obj_len = s.obj_len /\ t.csm = s.csm /\ t.flags = s.flags
      /\ t.handle = s.handle
  BY <1>2 DEF Does, Keep, Fields
<1> DEFINE l == Len(s.origin_recv)
           k == Len(t.origin_recv)
<1>6. k = l + n /\ l \in Nat /\ k \in Nat /\ l <= k
  <2>1. l \in Nat
    BY <1>1, ReceivedTyped
  <2> QED
    BY <1>4, <2>1
<1>7. /\ s.cache_offs \in Int /\ s.obj_at \in Int /\ s.origin_rdr \in Nat
      /\ s.org_cache_rdr \in Int /\ s.writing \in Int
  <2>1. s \in Conns
    BY <1>1 DEF Mach
  <2> QED
    BY <2>1 DEF Conns
<1> HIDE DEF l, k
<1>8. Served(t)
  <2>1. SUFFICES ASSUME t.strm = "cache"
                 PROVE  /\ t.obj_at + t.cache_offs - 1 = k
                        /\ t.cache_offs <= t.obj_len
    BY DEF Served, k
  <2>2. s.obj_at + s.cache_offs - 1 = l
    BY <1>1, <1>5, <2>1 DEF Served, l
  <2>3. s.obj_at + (s.cache_offs + n) - 1 = k
    BY <1>6, <1>7, <2>2
  <2> QED
    BY <1>4, <1>5, <2>1, <2>3
<1>9. CASE s.tunnel
  <2>1. Mach(t) /\ t.tunnel
    BY <1>2, <1>5, <1>9 DEF Does
  <2> QED
    BY <1>3, <1>5, <1>8, <1>9, <2>1 DEF Good
<1>10. CASE ~s.tunnel
  <2>1. Hand(s)
    BY <1>10 DEF Good
  <2>2. "org_recv_paused" \notin s.sm /\ "org_recv_eof" \notin s.sm
    BY <1>1 DEF Mach, Sm, One, In, ORecv
  <2>3. s.csm \notin Deciding
    BY <2>1, <2>2 DEF Hand, Paused
  <2>4. s.strm = "cache" => s.csm = "cache_read"
    BY <2>1, <2>2 DEF Hand, Asked
  <2>5. Use(t) /\ Started(t)
    BY <1>5, <2>1, <2>2 DEF Hand, Cached, Use, Started
  <2>6. "org_recv_paused" \notin t.sm
    BY <1>2, <2>2 DEF Does, Only
  <2>7. Paused(t)
    BY <1>5, <2>1, <2>2, <2>3, <2>6 DEF Hand, Paused
  <2>8. OpFits(t)
    BY <1>5, <2>1 DEF Hand, OpFits
  <2>9. Place(t)
    <3>1. s.origin_rdr <= l
      BY <2>1 DEF Hand, Place, l
    <3>2. t.origin_rdr <= k
      BY <1>5, <1>6, <1>7, <3>1
    <3> QED
      BY <1>5, <2>1, <3>2 DEF Hand, Place, k
  <2>10. WriteOk(t)
    <3>1. Wrote(t)
      BY <1>5, <2>1 DEF Hand, Bytes, Wrote
    <3>2. s.csm \in {"cache_write", "cache_idle_wr"} =>
            /\ s.org_cache_rdr = s.trans[1].at - 1 + Len(s.wrote)
            /\ s.org_cache_rdr <= l
      BY <2>1 DEF Hand, Bytes, Waiting, l
    <3>3. s.csm = "cache_write" =>
            0 <= s.writing /\ s.org_cache_rdr + s.writing <= l
      BY <2>1 DEF Hand, Bytes, l
    <3>4. s.org_cache_rdr <= l => s.org_cache_rdr <= k
      BY <1>6, <1>7
    <3>5. s.org_cache_rdr + s.writing <= l => s.org_cache_rdr + s.writing <= k
      BY <1>6, <1>7
    <3>6. /\ s.csm = "wait_body_data" => s.wrote = <<>>
          /\ s.csm = "cache_idle_wr" => "pend_tunnel" \notin s.flags
      BY <2>1 DEF Hand, Bytes
    <3>7. s.csm = "cache_idle_wr" => s.org_cache_rdr = l /\ n >= 1
      BY <2>1, <2>4 DEF Hand, Bytes, l
    <3>8. s.csm = "cache_idle_wr" => t.org_cache_rdr < k
      BY <1>5, <1>6, <3>7
    <3> QED
      BY <1>5, <3>1, <3>2, <3>3, <3>4, <3>5, <3>6, <3>8 DEF WriteOk, k
  <2>11. NewRead(t)
    <3>1. SUFFICES ASSUME s.csm = "cache_read"
                   PROVE  NewRead(t)
      BY <1>5 DEF NewRead
    <3> DEFINE b == RespBody(s.trans[1])
    <3>2. /\ s.trans[1].resp_state = "open" /\ s.obj_len = s.trans[1].len
          /\ s.strm = "cache" /\ s.origin_rdr = l /\ s.cache_offs = b
      BY <2>1, <3>1 DEF Hand, Asked, l
    <3>3. b \in Int
      BY <1>7, <3>2
    <3> HIDE DEF b
    <3>4. l + (b + n) = k + b
      BY <1>6, <3>3
    <3>5. t.origin_rdr + t.cache_offs = k + b
      BY <1>4, <1>5, <3>2, <3>4
    <3> QED
      BY <1>5, <3>2, <3>5 DEF NewRead, k, b
  <2>12. Marked(t)
    <3>1. "org_recv_start" \notin s.sm
      BY <1>1 DEF Online, Up
    <3>2. "pend_tunnel" \in s.flags => s.csm = "cache_write"
      BY <2>1, <2>3 DEF Hand, Waits, Waiting, Deciding
    <3> QED
      BY <1>5, <2>1, <3>1, <3>2 DEF Hand, Entry, Waits, Marked, RespCompleted
  <2>13. Ledger(t)
    <3>1. "cln_recv_eof" \notin X
      OBVIOUS
    <3>2. F \cap {"client_rdr", "client_recv", "origin_rdr", "trans", "client_rbuf_rdr",
                  "origin_rbuf_rdr", "client_pending", "origin_pending"} = {}
      OBVIOUS
    <3> HIDE DEF X
    <3> QED
      BY <1>2, <1>5, <2>1, <3>1, <3>2, LedgerSame DEF Hand
  <2>14. Behind(t)
    BY <1>5, <2>1 DEF Hand, Waits, Behind
  <2> QED
    BY <1>3, <1>5, <1>8, <1>10, <2>3, <2>4, <2>5, <2>7, <2>8, <2>9, <2>10, <2>11,
       <2>12, <2>13, <2>14 DEF Legs
<1> QED
  BY <1>9, <1>10

\* The first transaction and its place are set.
WithFirst(s, v, n) == [s EXCEPT !.trans[1] = v, !.origin_rdr = n]

\* Only they change.
LEMMA FirstSet ==
    ASSUME NEW s, Mach(s), s.trans # <<>>, NEW v \in Trans, NEW n \in Nat
    PROVE  LET t == WithFirst(s, v, n) IN
           /\ Does(s, t, {}, {"trans", "origin_rdr"}) /\ t.sm = s.sm
           /\ Len(t.trans) = Len(s.trans) /\ t.trans # <<>>
           /\ t.trans[1] = v /\ t.origin_rdr = n
           /\ DOMAIN t.trans = DOMAIN s.trans
           /\ \A k \in DOMAIN s.trans : k # 1 => t.trans[k] = s.trans[k]
<1> DEFINE w == [s.trans EXCEPT ![1] = v]
           t == [s EXCEPT !.trans = w, !.origin_rdr = n]
<1>1. s \in Conns /\ s.trans \in Seq(Trans)
  BY DEF Mach, Conns
<1>2. 1 \in DOMAIN s.trans
  BY <1>1
<1>3. w \in Seq(Trans) /\ Len(w) = Len(s.trans) /\ w[1] = v
      /\ DOMAIN w = DOMAIN s.trans
      /\ \A k \in DOMAIN s.trans : k # 1 => w[k] = s.trans[k]
  BY <1>1, <1>2
<1>4. WithFirst(s, v, n) = t
  BY <1>1 DEF Conns, WithFirst
<1> HIDE DEF w
<1>5. t \in Conns
  BY <1>1, <1>3 DEF Conns
<1>6. /\ t.sm = s.sm /\ t.ops = s.ops /\ Given(t) = Given(s)
      /\ t.bug = s.bug /\ t.trans = w /\ t.origin_rdr = n
  BY <1>1 DEF Conns, Given
<1>7. Keep(s, t, {"trans", "origin_rdr"})
  BY <1>1 DEF Conns, Keep, Fields
<1> HIDE DEF t
<1>8. Does(s, t, {}, {"trans", "origin_rdr"})
  BY <1>5, <1>6, <1>7, Updated DEF CountF
<1>9. w # <<>>
  BY <1>1, <1>2, <1>3
<1> QED
  BY <1>3, <1>4, <1>6, <1>8, <1>9

\* A response that goes on has taken all that has been received.
Whole(s) == s.trans[1].resp_state = "open" => s.origin_rdr = Len(s.origin_recv)
\* What the cache serves is the response.
ReadOk(s) == s.csm = "cache_read" =>
    /\ s.trans[1].resp_state # "bad" /\ s.obj_len = s.trans[1].len
    /\ s.strm = "cache" /\ s.origin_rdr = Len(s.origin_recv)
    /\ s.cache_offs = RespBody(s.trans[1])
    /\ RespCompleted(s.trans[1]) => RespBody(s.trans[1]) = s.trans[1].len
\* The response is one of a complete request.
Expected(s) == s.trans # <<>> /\ ReqCompleted(s.trans[1])

\* The first transaction is given another value that goes on from the old one.
LEMMA LegsFirst ==
    ASSUME NEW s, Legs(s), Started(s), Expected(s), Behind(s),
           NEW v \in Trans, NEW n \in Nat, n <= Len(s.origin_recv), s.origin_rdr <= n,
           v.req_state = s.trans[1].req_state, v.req = s.trans[1].req,
           s.trans[1].tunnel => v.tunnel,
           s.csm \in Caching => ~v.tunnel,
           s.trans[1].at > 0 => v.at = s.trans[1].at /\ RespBody(s.trans[1]) <= RespBody(v),
           TransOk(v), v.at > 0 => v.at + RespBody(v) - 1 = n,
           v.at > 0 => s.trans[1].at > 0 \/ s.origin_rdr < v.at,
           s.trans[1].resp_state # "open" => v.resp_state # "open"
    PROVE  LET t == WithFirst(s, v, n) IN
           /\ Legs(t) /\ Started(t) /\ Expected(t) /\ Behind(t)
           /\ Does(s, t, {}, {"trans", "origin_rdr"})
           /\ t.csm = s.csm /\ t.trans[1] = v /\ t.origin_rdr = n
<1> DEFINE t == WithFirst(s, v, n)
<1>1. Mach(s) /\ s \in Conns /\ s.trans \in Seq(Trans) /\ s.trans # <<>>
  BY DEF Legs, Online, Mach, Conns, Expected
<1>2. 1 \in DOMAIN s.trans /\ s.trans[1] \in Trans
  BY <1>1
<1>3. /\ Does(s, t, {}, {"trans", "origin_rdr"}) /\ t.sm = s.sm
      /\ t.trans # <<>> /\ t.trans[1] = v /\ t.origin_rdr = n
      /\ Len(t.trans) = Len(s.trans)
      /\ DOMAIN t.trans = DOMAIN s.trans
      /\ \A k \in DOMAIN s.trans : k # 1 => t.trans[k] = s.trans[k]
  BY <1>1, FirstSet
<1> HIDE DEF t
<1>4. /\ t.origin_recv = s.origin_recv /\ t.cache_offs = s.cache_offs
      /\ t.client_rdr = s.client_rdr /\ t.client_recv = s.client_recv
      /\ t.cln_script = s.cln_script
      /\ t.org_cache_rdr = s.org_cache_rdr /\ t.wrote = s.wrote
      /\ t.writing = s.writing /\ t.cache_op = s.cache_op
      /\ t.tunnel = s.tunnel /\ t.strm = s.strm /\ t.obj_at = s.obj_at
      /\ t.obj_len = s.obj_len /\ t.csm = s.csm /\ t.flags = s.flags
      /\ t.handle = s.handle /\ ToOrigin(t) = ToOrigin(s) /\ ToClient(t) = ToClient(s)
  BY <1>3 DEF Does, Keep, Fields, ToOrigin, ToClient
<1>5. Online(t) /\ Steps(t)
  <2> DEFINE X == {}
             F == {"trans", "origin_rdr"}
  <2>1. Does(s, t, X, F) /\ X \subseteq LegsX
    BY <1>3
  <2> HIDE DEF X, F
  <2> QED
    BY <2>1, LegsSteps DEF Legs
<1>6. Served(t) /\ ~t.tunnel /\ OpFits(t) /\ Paused(t)
  BY <1>3, <1>4 DEF Legs, Served, OpFits, Paused
<1>7. Place(t)
  BY <1>2, <1>3, <1>4 DEF Legs, Place
<1>8. Use(t)
  <2>1. SUFFICES ASSUME s.csm \in Caching
                 PROVE  /\ ReqCompleted(v) /\ v.at > 0 /\ RespBody(v) >= 1
                        /\ "caching_started" \in s.flags /\ ~v.tunnel
    BY <1>3, <1>4 DEF Use
  <2>2. RespBody(s.trans[1]) \in Int /\ RespBody(v) \in Int
    <3>1. s.trans[1].resp \in Nat /\ s.trans[1].hdr \in Nat /\ v.resp \in Nat /\ v.hdr \in Nat
      BY <1>2 DEF Trans
    <3> QED
      BY <3>1 DEF RespBody
  <2>3. RespBody(s.trans[1]) >= 1 /\ RespBody(s.trans[1]) <= RespBody(v) /\ v.at > 0
    BY <2>1 DEF Legs, Use
  <2> QED
    BY <2>1, <2>2, <2>3 DEF Legs, Use, ReqCompleted
<1>9. s.wrote # <<>> => s.trans[1].at > 0
  BY DEF Legs, WriteOk, Wrote
<1>10. Wrote(t)
  <2>1. CASE s.wrote = <<>>
    BY <1>4, <2>1 DEF Wrote
  <2>2. CASE s.wrote # <<>>
    BY <1>3, <1>4, <1>9, <2>2 DEF Legs, WriteOk, Wrote
  <2> QED
    BY <2>1, <2>2
<1>11. WriteOk(t)
  <2>1. s.csm \in {"cache_write", "cache_idle_wr"} => v.at = s.trans[1].at
    BY DEF Legs, Use, Caching, Waiting
  <2> QED
    BY <1>3, <1>4, <1>10, <2>1 DEF Legs, WriteOk
<1>14. Marked(t)
  BY <1>3, <1>4 DEF Legs, Marked
<1>15. Ledger(t)
  <2>1. Later(t.trans) = Later(s.trans)
    <3>1. t.trans \in Seq(Trans)
      BY <1>3 DEF Does, Mach, Conns
    <3>2. \A k \in DOMAIN s.trans : k # 1 => t.trans[k].req = s.trans[k].req
      BY <1>3
    <3> QED
      BY <1>1, <1>3, <3>1, <3>2, LaterSame
  <2>2. \A k \in DOMAIN s.trans : t.trans[k].req_state = s.trans[k].req_state
    BY <1>3
  <2>3. Len(s.trans) \in DOMAIN s.trans
    BY <1>1
  <2>4. ToClient(t) <= t.origin_rdr
    <3>3. s.origin_rbuf_rdr \in Int /\ s.client_pending \in Int /\ s.origin_rdr \in Int
      BY <1>1 DEF Conns
    <3>1. ToClient(s) \in Int /\ s.origin_rdr \in Int
      BY <3>3 DEF ToClient
    <3>2. ToClient(s) <= s.origin_rdr
      BY DEF Legs, Ledger
    <3> QED
      BY <1>3, <1>4, <3>1, <3>2
  <2> QED
    BY <1>3, <1>4, <2>1, <2>2, <2>3, <2>4 DEF Legs, Ledger
<1>16. Behind(t)
  <2>1. s.org_cache_rdr \in Int /\ s.origin_rdr \in Int /\ s.trans[1].at \in Nat /\ v.at \in Nat
    BY <1>1, <1>2 DEF Conns, Trans
  <2> QED
    BY <1>1, <1>3, <1>4, <2>1 DEF Behind
<1>12. Legs(t)
  BY <1>3, <1>4, <1>5, <1>6, <1>7, <1>8, <1>11, <1>14, <1>15 DEF Legs
<1>13. Started(t) /\ Expected(t)
  BY <1>3, <1>4 DEF Started, Expected, ReqCompleted
<1> QED
  BY <1>3, <1>4, <1>12, <1>13, <1>16 DEF t

\* Arithmetic of the places of what the cache serves.
LEMMA ReadPlace ==
    ASSUME NEW at \in Int, NEW r \in Int, NEW n \in Int, NEW l \in Int,
           NEW b \in Int, NEW c \in Int, NEW o \in Int, NEW len \in Int,
           at + b - 1 = r, at + c - 1 = n, r + o = l + b, o <= len, n <= l,
           n = l \/ c = len
    PROVE  n = l /\ o = c
  OBVIOUS

\* The response takes what has been received.
LEMMA ConsumedLegs ==
    ASSUME NEW s, Legs(s), Started(s), Expected(s), NewRead(s), Behind(s)
    PROVE  LET t == ConsumeCurrRespData(s) IN
           /\ Legs(t) /\ Started(t) /\ Expected(t) /\ Whole(t) /\ ReadOk(t) /\ Behind(t)
           /\ Does(s, t, {}, {"trans", "origin_rdr"}) /\ t.csm = s.csm
           /\ s.trans[1].at > 0 => t.trans[1].at > 0
<1> DEFINE a == RespFed(s)
           t0 == s.trans[1]
           v == a.t
           n == a.rdr
           l == Len(s.origin_recv)
           t == WithFirst(s, v, n)
<1>1. ConsumeCurrRespData(s) = t
  BY DEF ConsumeCurrRespData, WithFirst
<1>2. Mach(s) /\ s.trans # <<>> /\ Place(s) /\ Served(s)
  BY DEF Legs, Online, Expected
<1>3. a \in Fed /\ FedOk(s, l, a)
  BY <1>2, RespFedOk
<1>4. v \in Trans /\ n \in Nat
  BY <1>3 DEF Fed
<1>5. t0 \in Trans /\ l \in Nat /\ s.cache_offs \in Int /\ s.origin_rdr \in Nat
  BY <1>2, FirstTyped, ReceivedTyped
<1> HIDE DEF a
<1>6. /\ v.req_state = t0.req_state /\ (t0.tunnel => v.tunnel)
      /\ v.req = t0.req /\ (v.at > 0 => t0.at > 0 \/ s.origin_rdr < v.at)
      /\ s.origin_rdr <= n /\ (t0.resp_state # "open" => v.resp_state # "open")
      /\ t0.at > 0 => /\ v.at = t0.at /\ v.len = t0.len /\ v.hdr = t0.hdr
                      /\ t0.resp <= v.resp /\ (v.tunnel => t0.tunnel)
      /\ TransOk(v) /\ n <= l
      /\ v.at > 0 => v.at + RespBody(v) - 1 = n
      /\ v.resp_state = "open" => n = l
      /\ t0.at > 0 /\ t0.resp_state = "open"
            => v.resp_state # "bad" /\ (RespCompleted(v) => RespBody(v) = v.len)
  BY <1>3 DEF FedOk
<1> HIDE DEF v, n, t0, t
<1>7. /\ t0.resp \in Nat /\ t0.hdr \in Nat /\ v.resp \in Nat /\ v.hdr \in Nat
      /\ t0.at \in Nat /\ t0.len \in Nat
      /\ v.resp_state \in {"open", "complete", "bad"}
  BY <1>4, <1>5 DEF Trans
<1>8. t0.at > 0 => RespBody(t0) <= RespBody(v)
  BY <1>6, <1>7 DEF RespBody
<1>9. s.csm \in Caching => ~v.tunnel
  BY <1>6 DEF Legs, Use, t0
<1>10. /\ Legs(t) /\ Started(t) /\ Expected(t) /\ Behind(t)
       /\ Does(s, t, {}, {"trans", "origin_rdr"})
       /\ t.csm = s.csm /\ t.trans[1] = v /\ t.origin_rdr = n
  BY <1>4, <1>6, <1>8, <1>9, LegsFirst DEF t, t0
<1>11. /\ t.origin_recv = s.origin_recv /\ t.obj_len = s.obj_len /\ t.strm = s.strm
       /\ t.cache_offs = s.cache_offs
  BY <1>10 DEF Does, Keep, Fields
<1>12. Whole(t)
  BY <1>6, <1>10, <1>11 DEF Whole
<1>13. ReadOk(t)
  <2>1. SUFFICES ASSUME s.csm = "cache_read"
                 PROVE  ReadOk(t)
    BY <1>10 DEF ReadOk
  <2>2. /\ t0.resp_state = "open" /\ s.obj_len = t0.len /\ s.strm = "cache"
        /\ s.origin_rdr + s.cache_offs = l + RespBody(t0)
    BY <2>1 DEF NewRead, t0
  <2>3. t0.at > 0
    BY <2>1 DEF Legs, Use, Caching, t0
  <2>4. s.cache_offs <= t0.len
    BY <1>2, <2>2 DEF Served
  <2>5. t0.at + RespBody(t0) - 1 = s.origin_rdr
    BY <1>2, <2>3 DEF Place, t0
  <2>6. v.resp_state # "bad" /\ (RespCompleted(v) => RespBody(v) = v.len)
        /\ v.len = t0.len /\ t0.at + RespBody(v) - 1 = n
    BY <1>6, <2>2, <2>3
  <2>7. n = l \/ RespBody(v) = t0.len
    BY <1>6, <1>7, <2>6 DEF RespCompleted
  <2>8. n = l /\ s.cache_offs = RespBody(v)
    <3> DEFINE at == t0.at
               len == t0.len
               r == s.origin_rdr
               o == s.cache_offs
               b == RespBody(t0)
               c == RespBody(v)
    <3>1. at \in Int /\ len \in Int /\ r \in Int /\ o \in Int /\ n \in Int /\ l \in Int
      BY <1>4, <1>5, <1>7
    <3>2. b \in Int /\ c \in Int
      BY <1>7 DEF RespBody
    <3>3. /\ at + b - 1 = r /\ at + c - 1 = n /\ r + o = l + b /\ o <= len /\ n <= l
          /\ n = l \/ c = len
      BY <1>6, <2>2, <2>4, <2>5, <2>6, <2>7
    <3> HIDE DEF at, len, r, o, b, c, l
    <3>4. n = l /\ o = c
      BY <3>1, <3>2, <3>3, ReadPlace
    <3> QED
      BY <3>4 DEF o, c
  <2> QED
    BY <1>10, <1>11, <2>2, <2>6, <2>8 DEF ReadOk
<1>14. t0.at > 0 => t.trans[1].at > 0
  BY <1>6, <1>10
<1> QED
  BY <1>1, <1>10, <1>12, <1>13, <1>14 DEF t0

-----------------------------------------------------------------------------
(* A response the cache is not used for, or not yet.                       *)

\* The response of a transaction the cache is not used for, or not yet.
Early(s) ==
    /\ Legs(s) /\ Expected(s) /\ Whole(s) /\ s.trans[1].resp_state # "bad"
    /\ s.csm \in {"wait_body_data", "cache_closed"}
    /\ s.csm = "cache_closed" => \/ "caching_started" \in s.flags
                                 \/ s.trans[1].tunnel \/ RespCompleted(s.trans[1])
\* What the cache would be given starts with the body.
Told(s) == s.csm = "wait_body_data" /\ s.trans[1].at > 0
            => s.org_cache_rdr = Len(s.origin_recv) - RespBody(s.trans[1])

\* Steps of the handler that leave it so.
LEMMA EarlyStep ==
    ASSUME NEW s, Early(s), NEW t, NEW F,
           F \subseteq {"flags", "org_cache_rdr", "csm"}, Does(s, t, {}, F),
           t.csm \in {"wait_body_data", "cache_closed"},
           t.csm = "wait_body_data" => s.csm = "wait_body_data",
           Flagged(s, t),
           t.csm = "cache_closed" /\ s.csm = "wait_body_data" =>
                \/ "caching_started" \in t.flags
                \/ s.trans[1].tunnel \/ RespCompleted(s.trans[1])
    PROVE  Early(t) /\ t.trans = s.trans /\ t.origin_recv = s.origin_recv /\ SameSend(s, t)
<1>1. /\ t.origin_recv = s.origin_recv /\ t.origin_rdr = s.origin_rdr
      /\ t.client_rdr = s.client_rdr /\ t.client_recv = s.client_recv
      /\ t.cln_script = s.cln_script /\ t.trans = s.trans
      /\ t.wrote = s.wrote
      /\ t.cache_op = s.cache_op
      /\ t.tunnel = s.tunnel /\ t.strm = s.strm /\ t.obj_at = s.obj_at
      /\ t.obj_len = s.obj_len /\ t.cache_offs = s.cache_offs /\ t.handle = s.handle
  BY DEF Does, Keep, Fields
<1>2. Online(t) /\ Steps(t)
  <2> DEFINE X == {}
  <2>1. Does(s, t, X, F) /\ X \subseteq LegsX
    OBVIOUS
  <2> HIDE DEF X
  <2> QED
    BY <2>1, LegsSteps DEF Early, Legs
<1>3. \A x : x \in t.sm <=> x \in s.sm
  BY DEF Does, Only
<1>4. /\ s.csm \notin Deciding /\ t.csm \notin Deciding
      /\ s.csm \notin Caching /\ t.csm \notin Caching
  BY DEF Early, Deciding, Caching, Waiting
<1>5. Served(t) /\ ~t.tunnel /\ Place(t)
  BY <1>1 DEF Early, Legs, Served, Place
<1>6. Paused(t)
  BY <1>3, <1>4 DEF Early, Legs, Paused, Flagged
<1>7. OpFits(t)
  BY <1>1 DEF Early, Legs, OpFits
<1>8. Use(t)
  BY <1>1, <1>4 DEF Early, Expected, Use
<1>9. WriteOk(t)
  BY <1>1 DEF Early, Legs, WriteOk, Wrote
<1>12. Marked(t)
  <2>1. t.csm = s.csm \/ (s.csm = "wait_body_data" /\ t.csm = "cache_closed")
    BY DEF Early
  <2> QED
    BY <1>1, <2>1, MarkedKept DEF Early, Legs, Expected
<1>13. Ledger(t)
  <2> DEFINE X == {}
  <2>1. Does(s, t, X, F) /\ "cln_recv_eof" \notin X
        /\ F \cap {"client_rdr", "client_recv", "origin_rdr", "trans", "client_rbuf_rdr",
                  "origin_rbuf_rdr", "client_pending", "origin_pending"} = {}
    OBVIOUS
  <2>2. "pend_tunnel" \in s.flags => "pend_tunnel" \in t.flags
    BY DEF Flagged
  <2> HIDE DEF X
  <2> QED
    BY <2>1, <2>2, LedgerSame DEF Early, Legs
<1>14. SameSend(s, t)
  BY SendSame
<1>10. Legs(t)
  BY <1>1, <1>2, <1>3, <1>4, <1>5, <1>6, <1>7, <1>8, <1>9, <1>12, <1>13 DEF Early, Legs
<1>11. Expected(t) /\ Whole(t)
  BY <1>1 DEF Early, Expected, Whole
<1> QED
  <2>1. s.csm = "cache_closed" /\ "caching_started" \in s.flags
            => "caching_started" \in t.flags
    BY DEF Flagged
  <2> QED
    BY <1>1, <1>10, <1>11, <1>14, <2>1 DEF Early

\* The handler has dealt with it.
LEMMA EarlyGood ==
    ASSUME NEW s, Early(s), Started(s), Told(s),
           s.csm = "wait_body_data" => s.trans[1].resp_state = "open"
    PROVE  Good(s) /\ Online(s) /\ Left(s, s)
<1>1. s.csm \notin Deciding /\ s.csm \notin Caching /\ s.csm \notin Waiting
  BY DEF Early, Deciding, Caching, Waiting
<1>2. Cached(s)
  BY <1>1 DEF Early, Started, Expected, Cached
<1>3. s.strm # "cache"
  BY DEF Early, Legs
<1>4. Asked(s)
  BY <1>3 DEF Early, Asked
<1>5. Bytes(s)
  BY <1>1 DEF Early, Legs, WriteOk, Bytes
<1>7. Entry(s)
  BY <1>1 DEF Early, Legs, Marked, Entry
<1>8. "pend_tunnel" \notin s.flags
  BY DEF Early, Legs, Marked
<1>9. s.csm = "wait_body_data" =>
        /\ s.org_cache_rdr <= s.origin_rdr
        /\ s.trans # <<>> /\ s.trans[1].at > 0 => s.org_cache_rdr < s.trans[1].at
  <2> SUFFICES ASSUME s.csm = "wait_body_data"
               PROVE  /\ s.org_cache_rdr <= s.origin_rdr
                      /\ s.trans[1].at > 0 => s.org_cache_rdr < s.trans[1].at
    OBVIOUS
  <2> DEFINE at == s.trans[1].at
             b == RespBody(s.trans[1])
             l == Len(s.origin_recv)
  <2>1. Mach(s) /\ s.trans # <<>> /\ s.origin_rdr = l
    BY DEF Early, Legs, Online, Expected, Whole
  <2>2. at \in Nat /\ b \in Int /\ l \in Nat /\ s.org_cache_rdr \in Int
    BY <2>1, FirstTyped, ReceivedTyped
  <2>3. s.org_cache_rdr <= l
    BY <2>1 DEF Mach, Counts
  <2>4. at > 0 => at + b - 1 = l /\ s.org_cache_rdr = l - b
    BY <2>1 DEF Told, Early, Legs, Place
  <2> HIDE DEF at, b, l
  <2>5. at > 0 => s.org_cache_rdr < at
    BY <2>2, <2>4
  <2> QED
    BY <2>1, <2>3, <2>5 DEF at
<1>10. Waits(s)
  BY <1>1, <1>8, <1>9 DEF Early, Legs, Marked, Waits, Waiting
<1>6. Good(s)
  BY <1>2, <1>4, <1>5, <1>7, <1>10, BodyGood DEF Early, Legs, Body, Core
<1> QED
  BY <1>6 DEF Early, Legs, Left

\* The cache is asked for the object.
LEMMA OpenRdLeft ==
    ASSUME NEW s, Early(s), Told(s), s.csm = "wait_body_data",
           ~s.trans[1].tunnel, s.trans[1].at > 0, s.trans[1].resp_state = "open",
           RespBody(s.trans[1]) >= 1, "caching_started" \in s.flags,
           "params_set" \notin s.flags
    PROVE  LET t == HandlerEvent(s, "cache_open_rd") IN Left(s, t) /\ SameSend(s, t)
<1> DEFINE t == HandlerEvent(s, "cache_open_rd")
           X == {"org_recv_idle", "org_recv_paused"}
           F == {"flags", "cache_op", "obj_at", "obj_len", "csm"}
<1>1. /\ Mach(s) /\ s.trans # <<>> /\ Online(s) /\ Steps(s) /\ Served(s)
      /\ "org_recv_idle" \in s.sm /\ Place(s) /\ Wrote(s) /\ s.wrote = <<>>
      /\ s.strm # "cache" /\ ReqCompleted(s.trans[1])
      /\ s.origin_rdr = Len(s.origin_recv)
  BY DEF Early, Legs, Online, Expected, WriteOk, Whole
<1>2. /\ Does(s, t, X, F) /\ t.csm = "cache_open_rd"
      /\ "org_recv_paused" \in t.sm /\ t.flags = s.flags \cup {"recv_paused"}
      /\ t.cache_op = "open_rd"
      /\ t.obj_at = s.trans[1].at /\ t.obj_len = s.trans[1].len
  <2>1. HasCacheKey(s.trans[1])
    BY <1>1 DEF HasCacheKey, RespHdrsCompleted
  <2>2. Free(s, "none")
    <3>1. s.handle \in {"none", "rd", "wr"}
      BY <1>1 DEF Mach, Conns
    <3> QED
      BY <3>1 DEF Early, Legs, OpFits, Free
  <2> QED
    BY <1>1, <2>1, <2>2, OpenRdWaitDoes
<1> HIDE DEF t
<1>3. /\ t.origin_recv = s.origin_recv /\ t.origin_rdr = s.origin_rdr
      /\ t.client_rdr = s.client_rdr /\ t.client_recv = s.client_recv
      /\ t.cln_script = s.cln_script /\ t.trans = s.trans
      /\ t.wrote = s.wrote /\ t.org_cache_rdr = s.org_cache_rdr
      /\ t.tunnel = s.tunnel /\ t.strm = s.strm /\ t.handle = s.handle
  BY <1>2 DEF Does, Keep, Fields
<1>4. Online(t) /\ Steps(t)
  <2>1. X \subseteq LegsX
    BY DEF LegsX
  <2> HIDE DEF X, F
  <2> QED
    BY <1>1, <1>2, <2>1, LegsSteps
<1>5. Served(t) /\ ~t.tunnel /\ Place(t) /\ Wrote(t)
  BY <1>1, <1>3 DEF Early, Legs, Served, Place, Wrote
<1>6. Paused(t) /\ OpFits(t)
  BY <1>2, <1>3 DEF Paused, OpFits, Deciding, Early, Legs
<1>7. Cached(t)
  BY <1>1, <1>2, <1>3 DEF Cached
<1> DEFINE l == Len(s.origin_recv)
           b == RespBody(s.trans[1])
           at == s.trans[1].at
           o == s.org_cache_rdr
<1>8. l \in Nat /\ b \in Int /\ at \in Nat
  BY <1>1, ReceivedTyped, FirstTyped
<1>9. o = l - b /\ at + b - 1 = l /\ b >= 1
  BY <1>1 DEF Told, Place
<1>10. Len(t.wrote) = 0
  BY <1>1, <1>3
<1> HIDE DEF l, b, at, o
<1>11. l - o = b /\ o = at - 1 + 0 /\ o <= l
  BY <1>8, <1>9
<1>12. Asked(t)
  BY <1>1, <1>2, <1>3, <1>11 DEF Asked, l, b, o
<1>13. Bytes(t)
  BY <1>2, <1>3, <1>5, <1>10, <1>11 DEF Bytes, Waiting, l, at, o
<1>16. Entry(t)
  BY <1>1, <1>2, <1>3 DEF Entry, Deciding, Early, Legs, Marked, Waiting
<1>17. Waits(t)
  BY <1>2, <1>3 DEF Waits, Waiting, Early, Legs, Marked
<1>18. Ledger(t) /\ SameSend(s, t)
  <2>1. "cln_recv_eof" \notin X
    BY DEF X
  <2>2. /\ F \cap {"client_rdr", "client_recv", "origin_rdr", "trans", "client_rbuf_rdr",
                  "origin_rbuf_rdr", "client_pending", "origin_pending"} = {}
        /\ F \cap {"tunnel", "origin_rdr", "origin_rbuf_rdr", "client_pending"} = {}
    BY DEF F
  <2>3. "pend_tunnel" \in s.flags => "pend_tunnel" \in t.flags
    BY <1>2
  <2> HIDE DEF X, F
  <2> QED
    BY <1>2, <2>1, <2>2, <2>3, LedgerSame, SendSame DEF Early, Legs
<1>14. Good(t)
  BY <1>4, <1>5, <1>6, <1>7, <1>12, <1>13, <1>16, <1>17, <1>18, BodyGood DEF Body, Core
<1>15. Left(s, t)
  BY <1>2, <1>3, <1>4, <1>14 DEF Left, Does
<1> QED
  BY <1>15, <1>18 DEF t

\* A response that goes on: the cache is asked for it once.
LEMMA StartCachingLeft ==
    ASSUME NEW s, Early(s), Told(s), s.trans[1].resp_state = "open"
    PROVE  LET t == StartCaching(s) IN Left(s, t) /\ SameSend(s, t)
<1> DEFINE u == Set(s, "caching_started")
           t1 == s.trans[1]
<1>1. Mach(s)
  BY DEF Early, Legs, Online
<1>2. Does(s, u, {}, {"flags"}) /\ u.flags = s.flags \cup {"caching_started"}
  <2>1. "caching_started" \in Flags
    BY DEF Flags
  <2> QED
    BY <1>1, <2>1, SetEffect
<1> HIDE DEF u
<1>3. u.csm = s.csm /\ u.org_cache_rdr = s.org_cache_rdr
  BY <1>2 DEF Does, Keep, Fields
<1>4. Early(u) /\ u.trans = s.trans /\ u.origin_recv = s.origin_recv /\ SameSend(s, u)
  <2> DEFINE F == {"flags"}
  <2>1. F \subseteq {"flags", "org_cache_rdr", "csm"} /\ Does(s, u, {}, F)
    BY <1>2
  <2> HIDE DEF F
  <2>2. Flagged(s, u)
    BY <1>2 DEF Flagged
  <2> QED
    BY <1>2, <1>3, <2>1, <2>2, EarlyStep DEF Early
<1>5. Told(u)
  BY <1>3, <1>4 DEF Told
<1>6. CASE Has(s, "caching_started") \/ ~HasCacheKey(t1)
  <2>1. StartCaching(s) = s
    BY <1>6 DEF StartCaching
  <2>2. Started(s)
    BY <1>6 DEF Early, Started, Has, HasCacheKey, RespCompleted, RespHdrsCompleted, Told
  <2> QED
    BY <2>1, <2>2, EarlyGood DEF SameSend
<1>7. CASE ~(Has(s, "caching_started") \/ ~HasCacheKey(t1))
  <2>1. /\ ~t1.tunnel /\ t1.at > 0 /\ s.csm = "wait_body_data"
    BY <1>7 DEF Early, Has, HasCacheKey, RespHdrsCompleted, RespCompleted
  <2>5. "params_set" \notin u.flags
    BY <1>2, <1>7, <2>1 DEF Early, Legs, Marked, Has
  <2>2. CASE ~t1.allowed
    <3> DEFINE v == SetBpCurrTransLen(u)
               w == HandlerEvent(v, "skip_trans")
               x == HandlerEvent(w, "org_data")
    <3>1. StartCaching(s) = x
      BY <1>7, <2>2 DEF StartCaching, u
    <3>2. /\ Does(u, v, {}, {"flags"})
          /\ u.flags \subseteq v.flags /\ v.flags \subseteq u.flags \cup {"params_set"}
      <4>1. Limitable(u)
        <5>1. s.strm = "sock" /\ "pend_tunnel" \notin s.flags
          <6>1. s.strm \in {"sock", "cache"}
            BY <1>1 DEF Mach, Conns
          <6> QED
            BY <2>1, <6>1 DEF Early, Legs, Marked
        <5>2. "bpctrl_added" \in u.flags
          BY <1>2, <5>1 DEF Early, Legs, Marked
        <5>3. s.trans # <<>> /\ TransOk(t1)
          <6>1. 1 \in DOMAIN s.trans
            BY <1>1, FirstTyped DEF Early, Expected
          <6> QED
            BY <6>1 DEF Early, Legs, Place, Expected
        <5>4. t1.len > 0
          <6>1. t1.len \in Nat /\ RespBody(t1) \in Int
            BY <1>1, <5>3, FirstTyped
          <6> QED
            BY <2>1, <5>3, <6>1 DEF TransOk
        <5> QED
          BY <1>4, <2>1, <2>5, <5>2, <5>3, <5>4 DEF Limitable
      <4> QED
        BY <1>2, <4>1, SetBpCurrTransLenDoes DEF Does
    <3> HIDE DEF v
    <3>3. /\ Early(v) /\ v.trans = s.trans /\ v.origin_recv = s.origin_recv
          /\ v.csm = "wait_body_data" /\ "caching_started" \in v.flags /\ SameSend(u, v)
      <4>1. v.csm = u.csm
        BY <3>2 DEF Does, Keep, Fields
      <4> DEFINE F == {"flags"}
      <4>2. F \subseteq {"flags", "org_cache_rdr", "csm"} /\ Does(u, v, {}, F)
        BY <3>2
      <4> HIDE DEF F
      <4>4. Flagged(u, v)
        BY <1>2, <3>2 DEF Flagged
      <4>3. Early(v) /\ v.trans = u.trans /\ v.origin_recv = u.origin_recv /\ SameSend(u, v)
        BY <1>3, <1>4, <2>1, <3>2, <4>1, <4>2, <4>4, EarlyStep
      <4> QED
        BY <1>2, <1>3, <1>4, <2>1, <3>2, <4>1, <4>3
    <3>4. Does(v, w, {}, {"csm"}) /\ w.csm = "cache_closed"
      BY <3>2, <3>3, SkipWaitDoes DEF Does
    <3> HIDE DEF w
    <3>5. /\ Early(w) /\ w.origin_recv = s.origin_recv /\ "caching_started" \in w.flags
          /\ SameSend(v, w)
      <4>1. w.flags = v.flags
        BY <3>4 DEF Does, Keep, Fields
      <4> DEFINE F == {"csm"}
      <4>2. F \subseteq {"flags", "org_cache_rdr", "csm"} /\ Does(v, w, {}, F)
        BY <3>4
      <4> HIDE DEF F
      <4>4. Flagged(v, w)
        BY <4>1 DEF Flagged
      <4>3. Early(w) /\ w.origin_recv = v.origin_recv /\ SameSend(v, w)
        BY <3>3, <3>4, <4>1, <4>2, <4>4, EarlyStep
      <4> QED
        BY <3>3, <4>1, <4>3
    <3>6. Does(w, x, {}, {"org_cache_rdr", "csm"}) /\ x.csm = "cache_closed"
      BY <3>4, OrgDataClosedDoes DEF Does
    <3> HIDE DEF x
    <3>7. /\ Early(x) /\ x.origin_recv = s.origin_recv /\ "caching_started" \in x.flags
          /\ SameSend(w, x)
      <4>1. x.flags = w.flags
        BY <3>6 DEF Does, Keep, Fields
      <4> DEFINE F == {"org_cache_rdr", "csm"}
      <4>2. F \subseteq {"flags", "org_cache_rdr", "csm"} /\ Does(w, x, {}, F)
        BY <3>6
      <4> HIDE DEF F
      <4>4. Flagged(w, x)
        BY <4>1 DEF Flagged
      <4>3. Early(x) /\ x.origin_recv = w.origin_recv /\ SameSend(w, x)
        BY <3>4, <3>5, <3>6, <4>1, <4>2, <4>4, EarlyStep
      <4> QED
        BY <3>5, <4>1, <4>3
    <3>8. Good(x) /\ Online(x)
      BY <3>6, <3>7, EarlyGood DEF Started, Told
    <3>9. x.bug = s.bug
      BY <1>2, <3>2, <3>4, <3>6 DEF Does
    <3> QED
      BY <1>4, <3>1, <3>3, <3>5, <3>7, <3>8, <3>9 DEF Left, SameSend
  <2>3. CASE t1.allowed /\ RespBody(t1) >= 1
    <3> DEFINE x == HandlerEvent(u, "cache_open_rd")
    <3>1. StartCaching(s) = x
      BY <1>7, <2>3 DEF StartCaching, u
    <3>2. Left(u, x) /\ SameSend(u, x)
      BY <1>2, <1>3, <1>4, <1>5, <2>1, <2>3, <2>5, OpenRdLeft
    <3> HIDE DEF x
    <3> QED
      BY <1>2, <1>4, <3>1, <3>2, ThenLeft DEF SameSend
  <2>4. CASE t1.allowed /\ ~(RespBody(t1) >= 1)
    <3>1. StartCaching(s) = s
      BY <1>7, <2>4 DEF StartCaching
    <3>2. Started(s)
      BY <2>1 DEF Started
    <3> QED
      BY <3>1, <3>2, EarlyGood DEF SameSend
  <2> QED
    BY <2>2, <2>3, <2>4
<1> QED
  BY <1>6, <1>7

\* The response is complete.
LEMMA EarlyCompleted ==
    ASSUME NEW s, Early(s), RespCompleted(s.trans[1]), s.origin_rdr = Len(s.origin_recv)
    PROVE  LET t == HandlerEvent(s, "trans_completed") IN Left(s, t) /\ SameSend(s, t)
<1> DEFINE t == HandlerEvent(s, "trans_completed")
           X == {"org_send_idle", "org_send"}
           G == {"org_cache_rdr", "handle", "trans", "wrote", "flags", "csm",
                 "origin_pending"}
<1>1. /\ Online(s) /\ Steps(s) /\ ~s.tunnel /\ Paused(s) /\ Place(s) /\ Mach(s)
      /\ s.csm \notin Deciding /\ s.strm # "cache" /\ s.trans # <<>>
      /\ s.cache_op = "none" /\ Ledger(s)
  BY DEF Early, Legs, Online, Expected, Deciding, OpFits
<1>3. "pend_tunnel" \notin s.flags
  BY DEF Early, Legs, Marked
<1>4. {"bpctrl_added"} = s.flags \cap {"bpctrl_added", "pend_tunnel"}
  <2>1. s.strm \in {"sock", "cache"}
    BY <1>1 DEF Mach, Conns
  <2> QED
    BY <1>1, <1>3, <2>1 DEF Early, Legs, Marked
<1>5. Over(s)
  BY <1>1, <1>3, OverIs
<1>6. s.handle = "none"
  <2>1. s.handle \in {"none", "rd", "wr"}
    BY <1>1 DEF Mach, Conns
  <2> QED
    BY <2>1 DEF Early, Legs, OpFits
<1>2. \E F \in SUBSET G :
        /\ "handle" \notin F
        /\ Does(s, t, X, F) /\ t.csm = "wait_body_data"
        /\ t.trans = Tail(s.trans) /\ t.wrote = <<>>
        /\ t.flags = s.flags \ {"params_set", "caching_started", "after_end_data",
            "trans_completed"}
        /\ t.origin_pending = s.origin_pending + NextReq(s)
  <2>1. CASE s.csm = "wait_body_data"
    <3> DEFINE F == {"org_cache_rdr", "trans", "wrote", "flags", "csm", "origin_pending"}
    <3>1. /\ Does(s, t, X, F) /\ t.csm = "wait_body_data"
          /\ t.trans = Tail(s.trans) /\ t.wrote = <<>>
          /\ t.flags = s.flags \ {"params_set", "caching_started", "after_end_data",
              "trans_completed"}
          /\ t.origin_pending = s.origin_pending + NextReq(s)
      BY <1>1, <1>5, <2>1, CompletedWaitDoes
    <3>2. F \in SUBSET G /\ "handle" \notin F
      OBVIOUS
    <3> HIDE DEF F, t, X, G
    <3> QED
      BY <3>1, <3>2
  <2>2. CASE s.csm = "cache_closed"
    <3> DEFINE F == {"trans", "wrote", "flags", "csm", "origin_pending"}
    <3>1. /\ Does(s, t, X, F) /\ t.csm = "wait_body_data"
          /\ t.trans = Tail(s.trans) /\ t.wrote = <<>>
          /\ t.flags = s.flags \ {"params_set", "caching_started", "after_end_data",
              "trans_completed"}
          /\ t.origin_pending = s.origin_pending + NextReq(s)
      BY <1>1, <1>5, <2>2, CompletedClosedDoes
    <3>2. F \in SUBSET G /\ "handle" \notin F
      OBVIOUS
    <3> HIDE DEF F, t, X, G
    <3> QED
      BY <3>1, <3>2
  <2> QED
    BY <2>1, <2>2 DEF Early
<1> HIDE DEF t
<1>7. PICK F \in SUBSET G :
        /\ "handle" \notin F
        /\ Does(s, t, X, F) /\ t.csm = "wait_body_data"
        /\ t.trans = Tail(s.trans) /\ t.wrote = <<>>
        /\ t.flags = s.flags \ {"params_set", "caching_started", "after_end_data",
            "trans_completed"}
        /\ t.origin_pending = s.origin_pending + NextReq(s)
  BY <1>2
<1>8. t.handle = "none"
  BY <1>6, <1>7 DEF Does, Keep, Fields
<1>9. Left(s, t)
  <2>1. X \subseteq {"org_send_idle", "org_send"}
    OBVIOUS
  <2> HIDE DEF X
  <2> QED
    BY <1>1, <1>4, <1>7, <1>8, <2>1, NextTrans
<1>10. SameSend(s, t)
  <2>1. F \cap {"tunnel", "origin_rdr", "origin_rbuf_rdr", "client_pending"} = {}
    BY <1>7 DEF G
  <2> QED
    BY <1>7, <2>1, SendSame
<1> QED
  BY <1>9, <1>10 DEF t

\* The client is sent what has been received.
LEMMA SendClnLeft ==
    ASSUME NEW s, Good(s), Up(s.sm), ~s.tunnel, NEW n \in Nat,
           ToClient(s) + n <= s.origin_rdr
    PROVE  Left(s, SendToClient(s, n))
<1> DEFINE t == SendToClient(s, n)
           X == {"cln_send_idle", "cln_send"}
           F == {"client_pending"}
<1>1. Mach(s) /\ Hand(s)
  BY DEF Good
<1>2. /\ s.origin_rbuf_rdr \in Int /\ s.client_pending \in Int /\ s.origin_rdr \in Int
      /\ Len(s.origin_recv) \in Nat
  BY <1>1, ReceivedTyped DEF Mach, Conns
<1>3. s.client_pending + n <= OrgAvail(s)
  <2>1. s.origin_rdr <= Len(s.origin_recv)
    BY <1>1 DEF Hand, Place
  <2> QED
    BY <1>2, <2>1 DEF ToClient, OrgAvail
<1>4. Does(s, t, X, F) /\ t.client_pending = s.client_pending + n
  BY <1>1, <1>3, SendToClientDoes
<1>5. X \cap Marks = {} /\ X \cap (ClnEndX \cup OrgEndX) = {} /\ X \cap Eofs = {}
      /\ X \cap (Marks \ Eofs) = {}
  BY DEF Marks, Eofs, ClnEndX, OrgEndX
<1>6. F \subseteq {"trans", "client_rdr", "client_recv", "origin_pending",
                   "client_pending", "flags"}
  OBVIOUS
<1> HIDE DEF t
<1>7. /\ t.flags = s.flags /\ t.trans = s.trans /\ t.origin_recv = s.origin_recv
      /\ t.origin_rdr = s.origin_rdr /\ t.client_rdr = s.client_rdr
      /\ t.client_recv = s.client_recv /\ t.cln_script = s.cln_script
      /\ t.origin_rbuf_rdr = s.origin_rbuf_rdr /\ ToOrigin(t) = ToOrigin(s)
      /\ t.tunnel = s.tunnel
  BY <1>4 DEF Does, Keep, Fields, ToOrigin
<1> HIDE DEF X, F
<1>8. Quiet(s, t)
  BY <1>4, <1>5, QuietKept
<1>9. \A x \in Eofs : x \in s.sm <=> x \in t.sm
  BY <1>4, <1>5 DEF Does, Only
<1>10. Place(t)
  BY <1>1, <1>7 DEF Hand, Place
<1>11. FirstKept(s, t)
  BY <1>7 DEF FirstKept
<1>12. Ledger(t)
  <2>1. ToClient(t) <= t.origin_rdr
    BY <1>2, <1>4, <1>7 DEF ToClient
  <2>2. "cln_recv_eof" \in t.sm <=> "cln_recv_eof" \in s.sm
    BY <1>9 DEF Eofs
  <2> QED
    BY <1>1, <1>7, <2>1, <2>2 DEF Hand, Ledger
<1>13. Good(t) /\ Online(t)
  BY <1>4, <1>5, <1>6, <1>7, <1>8, <1>9, <1>10, <1>11, <1>12, GoodMoved DEF Quiet
<1>14. Left(s, t)
  BY <1>4, <1>7, <1>13 DEF Left, Does
<1> QED
  BY <1>14 DEF t

\* The current transaction is dealt with.
LEMMA EarlyCurrLeft ==
    ASSUME NEW s, Early(s), Told(s), NEW avail, Owed(s, avail)
    PROVE  Left(s, ProcessCurrTrans(s, avail))
<1>1. Mach(s) /\ s.trans # <<>> /\ s.csm # "cache_read" /\ Legs(s)
  BY DEF Early, Legs, Online, Expected
<1>2. CASE RespCompleted(s.trans[1]) /\ OrgRdrAvail(s) > 0
  <2> DEFINE u == Set(s, "after_end_data")
             F == {"flags"}
  <2>1. ProcessCurrTrans(s, avail) = TryBlindTunnel(u)
    BY <1>1, <1>2 DEF ProcessCurrTrans
  <2>2. Does(s, u, {}, F) /\ u.flags = s.flags \cup {"after_end_data"}
    <3>1. "after_end_data" \in Flags
      BY DEF Flags
    <3> QED
      BY <1>1, <3>1, SetEffect
  <2> HIDE DEF u
  <2>3. u.csm = s.csm
    BY <2>2 DEF Does, Keep, Fields
  <2>4. F \subseteq {"flags", "org_cache_rdr", "csm"} /\ "origin_recv" \notin F
    OBVIOUS
  <2> HIDE DEF F
  <2>7. Flagged(s, u)
    BY <2>2 DEF Flagged
  <2>5. Early(u)
    BY <2>2, <2>3, <2>4, <2>7, EarlyStep DEF Early
  <2>6. Left(u, TryBlindTunnel(u))
    BY <2>5, LegsTunnel DEF Early
  <2> QED
    BY <2>1, <2>2, <2>4, <2>6, ThenLeft
<1>3. CASE ~(RespCompleted(s.trans[1]) /\ OrgRdrAvail(s) > 0)
  <2> DEFINE p == ProcessCurrTransResp(s)
             t == SendToClient(p, avail)
  <2>1. ProcessCurrTrans(s, avail) = t
    BY <1>3 DEF ProcessCurrTrans
  <2>5. s.origin_rdr = Len(s.origin_recv)
    <3>4. s.origin_rdr \in Int
      BY <1>1 DEF Mach, Conns
    <3>1. s.trans[1] \in Trans /\ s.origin_rdr \in Int /\ Len(s.origin_recv) \in Nat
      BY <1>1, <3>4, FirstTyped, ReceivedTyped
    <3>2. CASE RespCompleted(s.trans[1])
      <4>1. s.origin_rdr <= Len(s.origin_recv)
        BY DEF Early, Legs, Place
      <4> QED
        BY <1>3, <3>1, <3>2, <4>1 DEF OrgRdrAvail
    <3>3. CASE ~RespCompleted(s.trans[1])
      BY <3>1, <3>3 DEF Early, Whole, RespCompleted, Trans
    <3> QED
      BY <3>2, <3>3
  <2>2. Left(s, p) /\ SameSend(s, p)
    <3>1. CASE RespCompleted(s.trans[1])
      BY <2>5, <3>1, EarlyCompleted DEF ProcessCurrTransResp
    <3>2. CASE ~RespCompleted(s.trans[1])
      <4>1. s.trans[1] \in Trans
        BY <1>1, FirstTyped
      <4>2. s.trans[1].resp_state = "open"
        BY <3>2, <4>1 DEF Early, RespCompleted, Trans
      <4> QED
        BY <3>2, <4>2, StartCachingLeft DEF ProcessCurrTransResp
    <3> QED
      BY <3>1, <3>2
  <2> HIDE DEF p
  <2>3. Left(p, t)
    <3>1. ~p.tunnel /\ avail \in Nat /\ ToClient(p) + avail <= p.origin_rdr
      BY <1>1, <2>2, <2>5 DEF SameSend, Legs, Owed
    <3> QED
      BY <2>2, <3>1, LeftUp, SendClnLeft
  <2> HIDE DEF t
  <2> QED
    BY <2>1, <2>2, <2>3, LeftBoth
<1> QED
  BY <1>2, <1>3

\* The same after the length has been told to bpctrl.
LEMMA EarlyBackLeft ==
    ASSUME NEW s, Early(s), Told(s), NEW avail, Owed(s, avail)
    PROVE  Left(s, SetBackpressure(s, avail))
<1>1. CASE ~SetsBpParams(s)
  BY <1>1, EarlyCurrLeft DEF SetBackpressure
<1>2. CASE SetsBpParams(s)
  <2> DEFINE u == SetBpContentLen(s)
             F == {"flags"}
  <2>1. SetBackpressure(s, avail) = IF SetsBpParams(u) THEN TryBlindTunnel(u)
                                    ELSE ProcessCurrTrans(u, avail)
    BY <1>2 DEF SetBackpressure
  <2>2. Mach(s)
    BY DEF Early, Legs, Online
  <2>3. /\ Does(s, u, {}, F)
        /\ s.flags \subseteq u.flags /\ u.flags \subseteq s.flags \cup {"params_set"}
    <3>1. "bpctrl_added" \in s.flags
      <4>1. s.strm \in {"sock", "cache"}
        BY <2>2 DEF Mach, Conns
      <4> QED
        BY <4>1 DEF Early, Legs, Marked
    <3> QED
      BY <2>2, <3>1, SetBpContentLenDoes
  <2> HIDE DEF u
  <2>4. u.csm = s.csm /\ u.org_cache_rdr = s.org_cache_rdr
    BY <2>3 DEF Does, Keep, Fields
  <2>5. F \subseteq {"flags", "org_cache_rdr", "csm"} /\ "origin_recv" \notin F
    OBVIOUS
  <2> HIDE DEF F
  <2>6. Early(u) /\ u.trans = s.trans /\ u.origin_recv = s.origin_recv
         /\ SameSend(s, u)
    <3>1. Flagged(s, u)
      BY <1>2, <2>3 DEF Flagged, SetsBpParams
    <3> QED
      BY <2>3, <2>4, <2>5, <3>1, EarlyStep DEF Early
  <2>7. Told(u)
    BY <2>4, <2>6 DEF Told
  <2>8. Left(u, TryBlindTunnel(u)) /\ Left(u, ProcessCurrTrans(u, avail))
    <3>1. Owed(u, avail)
      BY <2>6 DEF Owed, SameSend
    <3> QED
      BY <2>6, <2>7, <3>1, LegsTunnel, EarlyCurrLeft DEF Early
  <2>9. Left(u, SetBackpressure(s, avail))
    BY <2>1, <2>8
  <2> QED
    BY <2>3, <2>5, <2>9, ThenLeft
<1> QED
  BY <1>1, <1>2

\* The handler is told of the bytes.
LEMMA EarlyTold ==
    ASSUME NEW s, Early(s), Behind(s), NEW had
    PROVE  LET t == TellOrgData(s, had) IN
           /\ Early(t) /\ Told(t) /\ Does(s, t, {}, {"org_cache_rdr", "csm"})
           /\ t.trans = s.trans /\ SameSend(s, t) /\ (t.csm = "wait_body_data" => s.csm = t.csm)
<1> DEFINE u == IF SkipsTrans(s, had) THEN HandlerEvent(s, "skip_trans") ELSE s
           t == HandlerEvent(u, "org_data")
<1>1. Mach(s) /\ s.csm \in {"wait_body_data", "cache_closed"}
  BY DEF Early, Legs, Online
<1>2. /\ Early(u) /\ Does(s, u, {}, {"csm"})
      /\ u.csm = "wait_body_data" => s.csm = "wait_body_data"
  <2>1. CASE SkipsTrans(s, had)
    <3> DEFINE v == HandlerEvent(s, "skip_trans")
               F == {"csm"}
    <3>1. Does(s, v, {}, F) /\ v.csm = "cache_closed"
      BY <1>1, SkipWaitDoes, SkipClosedDoes
    <3>2. s.trans[1].tunnel \/ RespCompleted(s.trans[1])
      BY <2>1 DEF SkipsTrans
    <3> HIDE DEF v
    <3>3. v.flags = s.flags
      BY <3>1 DEF Does, Keep, Fields
    <3>4. F \subseteq {"flags", "org_cache_rdr", "csm"}
      OBVIOUS
    <3>5. Early(v)
      <4> HIDE DEF F
      <4> QED
        BY <3>1, <3>2, <3>3, <3>4, EarlyStep DEF Flagged
    <3> QED
      BY <2>1, <3>1, <3>5 DEF v
  <2>2. CASE ~SkipsTrans(s, had)
    <3>1. Does(s, s, {}, {"csm"})
      BY <1>1, SameDoes DEF Does, Keep
    <3> QED
      BY <2>2, <3>1
  <2> QED
    BY <2>1, <2>2
<1> HIDE DEF u
<1>3. Mach(u) /\ u.csm \in {"wait_body_data", "cache_closed"} /\ u.trans # <<>>
  BY <1>2 DEF Early, Does, Expected
<1>4. /\ Does(u, t, {}, {"org_cache_rdr", "csm"}) /\ t.csm = u.csm
      /\ u.csm = "wait_body_data" /\ RespHdrsCompleted(u.trans[1]) =>
            t.org_cache_rdr = Len(u.origin_recv) - RespBody(u.trans[1])
  <2>1. CASE u.csm = "wait_body_data"
    <3> DEFINE at == s.trans[1].at
               b == RespBody(s.trans[1])
               l == Len(s.origin_recv)
    <3>1. u.trans = s.trans /\ u.origin_recv = s.origin_recv /\ u.org_cache_rdr = s.org_cache_rdr
          /\ s.csm = "wait_body_data" /\ s.trans # <<>>
      BY <1>2, <2>1 DEF Does, Keep, Fields, Early, Expected
    <3>7. s.org_cache_rdr \in Int /\ s.origin_rdr \in Int
      BY <1>1 DEF Mach, Conns
    <3>8. at \in Nat /\ b \in Int /\ l \in Nat
      BY <1>1, <3>1, FirstTyped, ReceivedTyped
    <3>2. at \in Nat /\ b \in Int /\ l \in Nat /\ s.org_cache_rdr \in Int /\ s.origin_rdr \in Int
          /\ 1 \in DOMAIN s.trans
      BY <1>1, <3>1, <3>7, <3>8, FirstTyped
    <3>3. at > 0 => /\ at + b - 1 = s.origin_rdr /\ 0 <= b /\ s.org_cache_rdr < at
      BY <3>1, <3>2 DEF Early, Legs, Place, TransOk, Behind
    <3>4. s.origin_rdr <= l
      BY DEF Early, Legs, Place
    <3> HIDE DEF at, b, l
    <3>5. at > 0 => 0 <= b /\ s.org_cache_rdr + b <= l
      BY <3>2, <3>3, <3>4
    <3>6. RespHdrsCompleted(u.trans[1]) =>
                /\ 0 <= RespBody(u.trans[1])
                /\ u.org_cache_rdr + RespBody(u.trans[1]) <= Len(u.origin_recv)
      BY <3>1, <3>5 DEF at, b, l, RespHdrsCompleted
    <3> QED
      BY <1>3, <2>1, <3>6, OrgDataWaitDoes
  <2>2. CASE u.csm = "cache_closed"
    BY <1>3, <2>2, OrgDataClosedDoes
  <2> QED
    BY <1>3, <2>1, <2>2
<1> HIDE DEF t
<1>5. Early(t) /\ t.trans = u.trans /\ t.origin_recv = u.origin_recv
  <2> DEFINE F == {"org_cache_rdr", "csm"}
  <2>1. F \subseteq {"flags", "org_cache_rdr", "csm"} /\ Does(u, t, {}, F)
    BY <1>4
  <2> HIDE DEF F
  <2>2. t.flags = u.flags
    BY <1>4 DEF Does, Keep, Fields
  <2> QED
    BY <1>2, <1>3, <1>4, <2>1, <2>2, EarlyStep DEF Flagged
<1>6. Told(t)
  BY <1>4, <1>5 DEF Told, RespHdrsCompleted
<1>7. Does(s, t, {}, {"org_cache_rdr", "csm"})
  <2>1. Does(s, t, {} \cup {}, {"csm"} \cup {"org_cache_rdr", "csm"})
    BY <1>2, <1>4, DoesBoth
  <2> QED
    BY <2>1 DEF Does, Only, Keep
<1> QED
  <2>1. t.trans = s.trans
    BY <1>7 DEF Does, Keep, Fields
  <2>2. SameSend(s, t)
    <3> DEFINE F == {"org_cache_rdr", "csm"}
    <3>1. F \cap {"tunnel", "origin_rdr", "origin_rbuf_rdr", "client_pending"} = {}
      OBVIOUS
    <3> QED
      BY <1>7, <3>1, SendSame
  <2>3. t.csm = "wait_body_data" => s.csm = t.csm
    BY <1>2, <1>4
  <2> QED
    BY <1>5, <1>6, <1>7, <2>1, <2>2, <2>3 DEF TellOrgData, t, u

\* The response's headers are too long to be those of an object.
LEMMA AdjustedLegs ==
    ASSUME NEW s, Legs(s), Started(s), Expected(s), Whole(s), ReadOk(s), Behind(s),
           NEW force \in BOOLEAN, s.csm \in Caching => ~force
    PROVE  LET t == [s EXCEPT !.trans[1].tunnel = @ \/ force] IN
           /\ Legs(t) /\ Started(t) /\ Expected(t) /\ Whole(t) /\ ReadOk(t) /\ Behind(t)
           /\ Does(s, t, {}, {"trans", "origin_rdr"}) /\ t.csm = s.csm
           /\ t.trans[1].resp_state = s.trans[1].resp_state
<1> DEFINE b == s.trans[1].tunnel \/ force
           v == [s.trans[1] EXCEPT !.tunnel = b]
           n == s.origin_rdr
           r == [s EXCEPT !.trans[1].tunnel = @ \/ force]
           t == WithFirst(s, v, n)
<1>1. s \in Conns /\ Mach(s) /\ s.trans # <<>> /\ s.trans \in Seq(Trans)
  BY DEF Legs, Online, Mach, Conns, Expected
<1>2. s.trans[1] \in Trans /\ 1 \in DOMAIN s.trans /\ n \in Nat
  BY <1>1, FirstTyped, ReceivedTyped
<1>3. b \in BOOLEAN /\ (s.trans[1].tunnel => b)
  OBVIOUS
<1>4. s.csm \in Caching => ~b
  BY DEF Legs, Use
<1>5. r = [s EXCEPT !.trans[1].tunnel = b]
  OBVIOUS
<1> HIDE DEF b
<1>6. [s EXCEPT !.trans[1].tunnel = b] = t
  BY <1>1, <1>2 DEF WithFirst, Conns
<1>7. /\ v \in Trans /\ v.req_state = s.trans[1].req_state
      /\ v.at = s.trans[1].at /\ v.resp = s.trans[1].resp /\ v.hdr = s.trans[1].hdr
      /\ v.len = s.trans[1].len /\ v.req = s.trans[1].req /\ v.resp_state = s.trans[1].resp_state
      /\ (v.tunnel <=> b)
  BY <1>2, <1>3 DEF Trans
<1> HIDE DEF v
<1>8. RespBody(v) = RespBody(s.trans[1]) /\ RespBody(v) \in Int
  BY <1>1, <1>7, FirstTyped DEF RespBody
<1>9. TransOk(s.trans[1]) /\ n <= Len(s.origin_recv)
      /\ (s.trans[1].at > 0 => s.trans[1].at + RespBody(s.trans[1]) - 1 = n)
  BY <1>1, <1>2 DEF Legs, Place
<1>10. TransOk(v)
  BY <1>7, <1>8, <1>9 DEF TransOk
<1>11. RespBody(s.trans[1]) <= RespBody(v)
  BY <1>8
<1> HIDE DEF n, t
<1>16. n <= n /\ (v.at > 0 => s.trans[1].at > 0)
  BY <1>2, <1>7
<1>12. /\ Legs(t) /\ Started(t) /\ Expected(t) /\ Behind(t)
       /\ Does(s, t, {}, {"trans", "origin_rdr"})
       /\ t.csm = s.csm /\ t.trans[1] = v /\ t.origin_rdr = n
  BY <1>2, <1>3, <1>4, <1>7, <1>8, <1>9, <1>10, <1>11, <1>16, LegsFirst DEF t, n
<1>13. /\ t.origin_recv = s.origin_recv /\ t.obj_len = s.obj_len /\ t.strm = s.strm
       /\ t.cache_offs = s.cache_offs
  BY <1>12 DEF Does, Keep, Fields
<1>14. Whole(t)
  BY <1>7, <1>12, <1>13 DEF Whole, n
<1>15. ReadOk(t)
  BY <1>7, <1>8, <1>12, <1>13 DEF ReadOk, RespCompleted, n
<1> QED
  BY <1>5, <1>6, <1>7, <1>12, <1>14, <1>15

-----------------------------------------------------------------------------
(* A response that is written to the cache.                                *)

\* A response that is being written to the cache.
Writes(s) ==
    /\ Legs(s) /\ Expected(s) /\ Whole(s) /\ s.trans[1].resp_state # "bad"
    /\ s.csm \in {"cache_write", "cache_idle_wr"}

\* Flags are set, or a write is started.
LEMMA WritesStep ==
    ASSUME NEW s, Writes(s), NEW t, NEW F,
           F \subseteq {"flags", "csm", "cache_op", "writing"}, Does(s, t, {}, F),
           t.csm = "cache_write", t.cache_op = "write",
           \/ t.writing = s.writing /\ s.csm = "cache_write"
           \/ t.writing = Len(s.origin_recv) - s.org_cache_rdr,
           Flagged(s, t)
    PROVE  Writes(t) /\ t.trans = s.trans /\ t.origin_recv = s.origin_recv /\ SameSend(s, t)
<1>1. /\ t.origin_recv = s.origin_recv /\ t.origin_rdr = s.origin_rdr
      /\ t.client_rdr = s.client_rdr /\ t.client_recv = s.client_recv
      /\ t.cln_script = s.cln_script /\ t.trans = s.trans
      /\ t.wrote = s.wrote /\ t.org_cache_rdr = s.org_cache_rdr
      /\ t.tunnel = s.tunnel /\ t.strm = s.strm /\ t.obj_at = s.obj_at
      /\ t.obj_len = s.obj_len /\ t.cache_offs = s.cache_offs
      /\ t.handle = s.handle
  BY DEF Does, Keep, Fields
<1>2. Online(t) /\ Steps(t)
  <2> DEFINE X == {}
  <2>1. Does(s, t, X, F) /\ X \subseteq LegsX
    OBVIOUS
  <2> HIDE DEF X
  <2> QED
    BY <2>1, LegsSteps DEF Writes, Legs
<1>3. \A x : x \in t.sm <=> x \in s.sm
  BY DEF Does, Only
<1>4. /\ s.csm \notin Deciding /\ t.csm \notin Deciding
      /\ s.csm \in Caching /\ s.csm # "cache_read" /\ s.csm # "wait_body_data"
  BY DEF Writes, Deciding, Caching, Waiting
<1>5. Served(t) /\ ~t.tunnel /\ Place(t)
  BY <1>1 DEF Writes, Legs, Served, Place
<1>6. Paused(t)
  BY <1>3, <1>4 DEF Writes, Legs, Paused, Flagged
<1>7. OpFits(t)
  BY <1>1 DEF OpFits, Writes, Legs
<1>8. Use(t)
  BY <1>1, <1>4 DEF Writes, Legs, Use, Flagged
<1>9. WriteOk(t)
  <2>1. s.org_cache_rdr = s.trans[1].at - 1 + Len(s.wrote)
        /\ s.org_cache_rdr <= Len(s.origin_recv)
    BY DEF Writes, Legs, WriteOk
  <2>2. s.org_cache_rdr \in Int /\ Len(s.origin_recv) \in Nat
    <3>1. Mach(s) /\ s \in Conns
      BY DEF Writes, Legs, Online, Mach
    <3> QED
      BY <3>1, ReceivedTyped DEF Conns
  <2>3. 0 <= t.writing /\ s.org_cache_rdr + t.writing <= Len(s.origin_recv)
    <3>1. CASE t.writing = s.writing /\ s.csm = "cache_write"
      BY <3>1 DEF Writes, Legs, WriteOk
    <3>2. CASE t.writing = Len(s.origin_recv) - s.org_cache_rdr
      BY <2>1, <2>2, <3>2
    <3> QED
      BY <3>1, <3>2
  <2>4. Wrote(t)
    BY <1>1 DEF Writes, Legs, WriteOk, Wrote
  <2> QED
    BY <1>1, <2>1, <2>3, <2>4 DEF WriteOk
<1>12. Marked(t)
  <2>1. t.csm = s.csm \/ (s.csm = "cache_idle_wr" /\ t.csm = "cache_write")
    BY DEF Writes
  <2> QED
    BY <1>1, <2>1, MarkedKept DEF Writes, Legs, Expected
<1>13. Ledger(t)
  <2> DEFINE X == {}
  <2>1. Does(s, t, X, F) /\ "cln_recv_eof" \notin X
        /\ F \cap {"client_rdr", "client_recv", "origin_rdr", "trans", "client_rbuf_rdr",
                  "origin_rbuf_rdr", "client_pending", "origin_pending"} = {}
    OBVIOUS
  <2>2. "pend_tunnel" \in s.flags => "pend_tunnel" \in t.flags
    BY DEF Flagged
  <2> HIDE DEF X
  <2> QED
    BY <2>1, <2>2, LedgerSame DEF Writes, Legs
<1>14. SameSend(s, t)
  BY SendSame
<1>10. Legs(t)
  BY <1>1, <1>2, <1>3, <1>4, <1>5, <1>6, <1>7, <1>8, <1>9, <1>12, <1>13 DEF Writes, Legs
<1>11. Expected(t) /\ Whole(t)
  BY <1>1 DEF Writes, Expected, Whole
<1> QED
  BY <1>1, <1>10, <1>11, <1>14 DEF Writes

\* The handler is told of more bytes to write.
LEMMA WritesTold ==
    ASSUME NEW s, Writes(s), NEW had, had
    PROVE  LET t == TellOrgData(s, had) IN
           /\ Writes(t) /\ t.csm = "cache_write" /\ t.trans = s.trans
           /\ t.bug = s.bug /\ t.origin_recv = s.origin_recv /\ SameSend(s, t)
<1> DEFINE t == HandlerEvent(s, "org_data")
           F == {"cache_op", "writing", "csm"}
<1>1. Mach(s) /\ ~s.trans[1].tunnel
  BY DEF Writes, Legs, Online, Use, Caching, Waiting
<1>2. TellOrgData(s, had) = t
  BY <1>1 DEF TellOrgData, SkipsTrans
<1>3. /\ Does(s, t, {}, F) /\ t.csm = "cache_write" /\ t.cache_op = "write"
      /\ \/ t.writing = s.writing /\ s.csm = "cache_write"
         \/ t.writing = Len(s.origin_recv) - s.org_cache_rdr
  <2>1. CASE s.csm = "cache_write"
    <3>1. Does(s, t, {}, {"csm"}) /\ t.csm = "cache_write"
      BY <1>1, <2>1, OrgDataWriteDoes
    <3> HIDE DEF t
    <3>2. t.cache_op = s.cache_op /\ t.writing = s.writing
      BY <3>1 DEF Does, Keep, Fields
    <3>3. s.cache_op = "write"
      BY <2>1 DEF Writes, Legs, OpFits
    <3>4. Does(s, t, {}, F)
      BY <3>1 DEF Does, Keep
    <3> QED
      BY <2>1, <3>1, <3>2, <3>3, <3>4
  <2>2. CASE s.csm = "cache_idle_wr"
    <3>1. HasCacheWrData(s)
      <4>1. s.org_cache_rdr < Len(s.origin_recv)
        BY <2>2 DEF Writes, Legs, WriteOk
      <4>2. s.org_cache_rdr \in Int /\ Len(s.origin_recv) \in Nat
        BY <1>1, ReceivedTyped
      <4> QED
        BY <4>1, <4>2 DEF HasCacheWrData
    <3>2. Free(s, "wr")
      BY <2>2 DEF Writes, Legs, OpFits, Free
    <3> QED
      BY <1>1, <2>2, <3>1, <3>2, OrgDataIdleDoes
  <2> QED
    BY <2>1, <2>2 DEF Writes
<1> HIDE DEF t
<1>4. t.flags = s.flags
  BY <1>3 DEF Does, Keep, Fields
<1>5. F \subseteq {"flags", "csm", "cache_op", "writing"}
  OBVIOUS
<1> HIDE DEF F
<1>6. Writes(t) /\ t.trans = s.trans /\ t.origin_recv = s.origin_recv /\ SameSend(s, t)
  BY <1>3, <1>4, <1>5, WritesStep DEF Flagged
<1> QED
  BY <1>2, <1>3, <1>6 DEF Does

\* The handler has dealt with what is written, all of it consumed.
LEMMA WritesGood ==
    ASSUME NEW s, Writes(s), s.csm = "cache_write",
           s.origin_rdr = Len(s.origin_recv)
    PROVE  Good(s) /\ Online(s) /\ Left(s, s)
<1>1. s.csm \in Caching /\ s.csm \in Waiting
  BY DEF Caching, Waiting
<1>2. Cached(s)
  BY <1>1 DEF Writes, Legs, Use, Cached
<1>3. s.strm # "cache"
  BY DEF Writes, Legs
<1>4. Asked(s)
  BY <1>3 DEF Writes, Asked
<1>5. Bytes(s)
  BY <1>1 DEF Writes, Legs, WriteOk, Bytes
<1>7. Entry(s)
  BY DEF Writes, Legs, Marked, Entry, Deciding
<1>8. Waits(s)
  <2>1. s.trans[1] \in Trans
    BY FirstTyped DEF Writes, Legs, Online, Expected
  <2>2. s.trans[1].resp_state # "open" => RespCompleted(s.trans[1])
    BY <2>1 DEF Writes, RespCompleted, Trans
  <2> QED
    BY <1>1, <2>2 DEF Writes, Legs, Marked, Waits, Deciding
<1>6. Good(s)
  BY <1>2, <1>4, <1>5, <1>7, <1>8, BodyGood DEF Writes, Legs, Body, Core
<1> QED
  BY <1>6 DEF Writes, Legs, Left

\* The current transaction is dealt with while it is written.
LEMMA WritesBackLeft ==
    ASSUME NEW s, Writes(s), s.csm = "cache_write", NEW avail,
           Owed(s, avail)
    PROVE  Left(s, SetBackpressure(s, avail))
<1>1. Mach(s) /\ s \in Conns /\ s.trans # <<>> /\ Legs(s) /\ ~s.trans[1].tunnel
      /\ "caching_started" \in s.flags /\ s.cache_op = "write"
  BY DEF Writes, Legs, Online, Mach, Expected, Use, OpFits, Caching, Waiting
<1>2. SetBackpressure(s, avail) = ProcessCurrTrans(s, avail)
  BY <1>1 DEF SetBackpressure, SetsBpParams
<1>3. CASE RespCompleted(s.trans[1]) /\ OrgRdrAvail(s) > 0
  <2> DEFINE u == Set(s, "after_end_data")
             F == {"flags"}
  <2>1. ProcessCurrTrans(s, avail) = TryBlindTunnel(u)
    BY <1>3 DEF ProcessCurrTrans
  <2>2. Does(s, u, {}, F) /\ u.flags = s.flags \cup {"after_end_data"}
    <3>1. "after_end_data" \in Flags
      BY DEF Flags
    <3> QED
      BY <1>1, <3>1, SetEffect
  <2> HIDE DEF u
  <2>3. u.csm = s.csm /\ u.writing = s.writing /\ u.cache_op = s.cache_op
    BY <2>2 DEF Does, Keep, Fields
  <2>4. F \subseteq {"flags", "csm", "cache_op", "writing"} /\ "origin_recv" \notin F
    OBVIOUS
  <2> HIDE DEF F
  <2>7. Flagged(s, u)
    BY <2>2 DEF Flagged
  <2>5. Writes(u)
    BY <1>1, <2>2, <2>3, <2>4, <2>7, WritesStep
  <2>6. Left(u, TryBlindTunnel(u))
    BY <2>5, LegsTunnel DEF Writes
  <2> QED
    BY <1>2, <2>1, <2>2, <2>4, <2>6, ThenLeft
<1>4. CASE ~(RespCompleted(s.trans[1]) /\ OrgRdrAvail(s) > 0)
  <2> DEFINE p == ProcessCurrTransResp(s)
             t == SendToClient(p, avail)
  <2>1. ProcessCurrTrans(s, avail) = t
    BY <1>4 DEF ProcessCurrTrans
  <2>2. s.origin_rdr = Len(s.origin_recv)
    <3>1. CASE RespCompleted(s.trans[1])
      <4>1. ~(OrgRdrAvail(s) > 0)
        BY <1>4, <3>1
      <4>2. s.origin_rdr \in Int /\ Len(s.origin_recv) \in Int
        BY <1>1, ReceivedTyped DEF Conns
      <4>3. s.origin_rdr <= Len(s.origin_recv)
        BY <1>1 DEF Legs, Place
      <4> QED
        BY <4>1, <4>2, <4>3 DEF OrgRdrAvail
    <3>2. CASE ~RespCompleted(s.trans[1])
      <4>1. s.trans[1] \in Trans
        BY <1>1, FirstTyped
      <4>2. s.trans[1].resp_state = "open"
        BY <3>2, <4>1 DEF Writes, RespCompleted, Trans
      <4> QED
        BY <4>2 DEF Writes, Whole
    <3> QED
      BY <3>1, <3>2
  <2>3. Left(s, p) /\ SameSend(s, p)
    <3>1. CASE RespCompleted(s.trans[1])
      <4> DEFINE c == HandlerEvent(s, "trans_completed")
                 F == {"flags", "csm"}
      <4>1. p = c
        BY <3>1 DEF ProcessCurrTransResp
      <4>2. /\ Does(s, c, {}, F) /\ c.csm = "cache_write"
            /\ c.flags = s.flags \cup {"trans_completed"}
        BY <1>1, CompletedWriteDoes
      <4> HIDE DEF c, p
      <4>3. c.writing = s.writing /\ c.cache_op = s.cache_op
            /\ c.origin_rdr = s.origin_rdr /\ c.origin_recv = s.origin_recv
        BY <4>2 DEF Does, Keep, Fields
      <4>4. F \subseteq {"flags", "csm", "cache_op", "writing"}
        OBVIOUS
      <4> HIDE DEF F
      <4>7. Flagged(s, c)
        BY <1>1, <3>1, <4>2 DEF Flagged, Writes
      <4>5. Writes(c) /\ SameSend(s, c)
        BY <1>1, <4>2, <4>3, <4>4, <4>7, WritesStep
      <4>6. Good(c) /\ Online(c)
        BY <2>2, <4>2, <4>3, <4>5, WritesGood
      <4> QED
        BY <4>1, <4>2, <4>3, <4>5, <4>6 DEF Left, Does
    <3>2. CASE ~RespCompleted(s.trans[1])
      <4>1. p = s
        BY <1>1, <3>2 DEF ProcessCurrTransResp, StartCaching, Has
      <4> QED
        BY <2>2, <4>1, WritesGood DEF SameSend
    <3> QED
      BY <3>1, <3>2
  <2> HIDE DEF p
  <2>4. Left(p, t)
    <3>1. ~p.tunnel /\ avail \in Nat /\ ToClient(p) + avail <= p.origin_rdr
      BY <1>1, <2>2, <2>3 DEF SameSend, Legs, Owed
    <3> QED
      BY <2>3, <3>1, LeftUp, SendClnLeft
  <2> HIDE DEF t
  <2> QED
    BY <1>2, <2>1, <2>3, <2>4, LeftBoth
<1> QED
  BY <1>3, <1>4

-----------------------------------------------------------------------------
(* A response that the cache serves.                                       *)

\* A response that is served by the cache.
Reads(s) == Legs(s) /\ Expected(s) /\ ReadOk(s) /\ s.csm = "cache_read"

\* Steps that leave it so.
LEMMA ReadsStep ==
    ASSUME NEW s, Reads(s), NEW t, NEW X, NEW F, Does(s, t, X, F),
           X \subseteq {"cln_send_idle", "cln_send"},
           F \subseteq {"flags", "csm", "org_cache_rdr", "client_pending"},
           t.csm = "cache_read", Ledger(t),
           Flagged(s, t)
    PROVE  /\ Reads(t) /\ t.trans = s.trans /\ t.origin_recv = s.origin_recv
           /\ t.bug = s.bug
<1>1. /\ t.origin_recv = s.origin_recv /\ t.origin_rdr = s.origin_rdr
      /\ t.client_rdr = s.client_rdr /\ t.client_recv = s.client_recv
      /\ t.cln_script = s.cln_script /\ t.trans = s.trans
      /\ t.wrote = s.wrote /\ t.cache_op = s.cache_op
      /\ t.tunnel = s.tunnel /\ t.strm = s.strm /\ t.obj_at = s.obj_at
      /\ t.obj_len = s.obj_len /\ t.cache_offs = s.cache_offs
      /\ t.handle = s.handle
  BY DEF Does, Keep, Fields
<1>2. Online(t) /\ Steps(t)
  <2>1. X \subseteq LegsX
    BY DEF LegsX
  <2> QED
    BY <2>1, LegsSteps DEF Reads, Legs
<1>3. /\ "org_recv_idle" \in t.sm <=> "org_recv_idle" \in s.sm
      /\ "org_recv_paused" \in t.sm <=> "org_recv_paused" \in s.sm
  BY DEF Does, Only
<1>4. s.csm \in Caching /\ s.csm \notin Deciding
  BY DEF Reads, Deciding, Caching, Waiting
<1>5. Served(t) /\ ~t.tunnel /\ Place(t)
  BY <1>1 DEF Reads, Legs, Served, Place
<1>6. Paused(t)
  BY <1>3, <1>4 DEF Reads, Legs, Paused, Flagged
<1>7. OpFits(t)
  BY <1>1 DEF Reads, Legs, OpFits
<1>8. Use(t)
  BY <1>1, <1>4 DEF Reads, Legs, Use, Flagged
<1>9. WriteOk(t)
  BY <1>1 DEF Reads, Legs, WriteOk, Wrote
<1>12. Marked(t)
  BY <1>1, MarkedKept DEF Reads, Legs, Expected
<1>10. Legs(t)
  BY <1>1, <1>2, <1>3, <1>4, <1>5, <1>6, <1>7, <1>8, <1>9, <1>12 DEF Reads, Legs
<1>11. Expected(t) /\ ReadOk(t)
  BY <1>1 DEF Reads, Expected, ReadOk
<1> QED
  BY <1>1, <1>10, <1>11 DEF Reads, Does

\* The handler is told of the bytes the cache has served.
LEMMA ReadsTold ==
    ASSUME NEW s, Reads(s), NEW had, had
    PROVE  LET t == TellOrgData(s, had) IN
           /\ Reads(t) /\ t.origin_recv = s.origin_recv /\ t.bug = s.bug /\ SameSend(s, t)
<1> DEFINE t == HandlerEvent(s, "org_data")
           F == {"org_cache_rdr", "csm"}
           X == {}
<1>1. Mach(s) /\ ~s.trans[1].tunnel /\ s.csm = "cache_read"
  BY DEF Reads, Legs, Online, Use, Caching, Waiting
<1>2. TellOrgData(s, had) = t
  BY <1>1 DEF TellOrgData, SkipsTrans
<1>3. Does(s, t, X, F) /\ t.csm = "cache_read"
  BY <1>1, OrgDataReadDoes
<1> HIDE DEF t
<1>4. t.flags = s.flags
  BY <1>3 DEF Does, Keep, Fields
<1>5. /\ F \subseteq {"flags", "csm", "org_cache_rdr", "client_pending"}
      /\ X \subseteq {"cln_send_idle", "cln_send"} /\ "cln_recv_eof" \notin X
      /\ F \cap {"tunnel", "origin_rdr", "origin_rbuf_rdr", "client_pending"} = {}
      /\ F \cap {"client_rdr", "client_recv", "origin_rdr", "trans", "client_rbuf_rdr",
                  "origin_rbuf_rdr", "client_pending", "origin_pending"} = {}
  OBVIOUS
<1> HIDE DEF F, X
<1> QED
  <2>1. Ledger(t) /\ SameSend(s, t)
    BY <1>3, <1>4, <1>5, LedgerSame, SendSame DEF Reads, Legs
  <2>2. Flagged(s, t)
    BY <1>4 DEF Flagged
  <2> QED
    BY <1>2, <1>3, <1>5, <2>1, <2>2, ReadsStep

\* The current transaction is dealt with while it is served.
LEMMA ReadsBack ==
    ASSUME NEW s, Reads(s), NEW avail, Owed(s, avail)
    PROVE  LET t == SetBackpressure(s, avail) IN
           /\ Reads(t) /\ t.origin_recv = s.origin_recv /\ t.bug = s.bug
<1> DEFINE p == ProcessCurrTransResp(s)
           t == SendToClient(p, avail)
<1>1. Mach(s) /\ ~s.trans[1].tunnel /\ s.csm = "cache_read"
      /\ "caching_started" \in s.flags /\ s.origin_rdr = Len(s.origin_recv)
      /\ s.origin_rdr \in Nat
  BY ReceivedTyped DEF Reads, Legs, Online, Use, ReadOk, Caching, Waiting
<1>2. SetBackpressure(s, avail) = t
  <2>1. ~(OrgRdrAvail(s) > 0)
    BY <1>1 DEF OrgRdrAvail
  <2> QED
    BY <1>1, <2>1 DEF SetBackpressure, SetsBpParams, ProcessCurrTrans
<1>3. Reads(p) /\ p.origin_recv = s.origin_recv /\ p.bug = s.bug /\ SameSend(s, p)
  <2>1. CASE RespCompleted(s.trans[1])
    <3> DEFINE F == {"flags", "csm"}
               X == {}
    <3>1. /\ Does(s, p, X, F) /\ p.csm = "cache_read"
          /\ p.flags = s.flags \cup {"trans_completed"}
      BY <1>1, <2>1, CompletedReadDoes DEF ProcessCurrTransResp
    <3> HIDE DEF p
    <3>2. /\ F \subseteq {"flags", "csm", "org_cache_rdr", "client_pending"}
          /\ X \subseteq {"cln_send_idle", "cln_send"} /\ "cln_recv_eof" \notin X
          /\ F \cap {"tunnel", "origin_rdr", "origin_rbuf_rdr", "client_pending"} = {}
          /\ F \cap {"client_rdr", "client_recv", "origin_rdr", "trans", "client_rbuf_rdr",
                  "origin_rbuf_rdr", "client_pending", "origin_pending"} = {}
      OBVIOUS
    <3> HIDE DEF F, X
    <3>3. Ledger(p) /\ SameSend(s, p)
      BY <3>1, <3>2, LedgerSame, SendSame DEF Reads, Legs
    <3>4. Flagged(s, p)
      BY <1>1, <2>1, <3>1 DEF Flagged
    <3> QED
      BY <3>1, <3>2, <3>3, <3>4, ReadsStep
  <2>2. CASE ~RespCompleted(s.trans[1])
    <3>1. p = s
      BY <1>1, <2>2 DEF ProcessCurrTransResp, StartCaching, Has
    <3> QED
      BY <3>1 DEF SameSend
  <2> QED
    BY <2>1, <2>2
<1> HIDE DEF p
<1>4. Reads(t) /\ t.origin_recv = p.origin_recv /\ t.bug = p.bug
  <2> DEFINE X == {"cln_send_idle", "cln_send"}
             F == {"client_pending"}
  <2>1. Mach(p) /\ p.csm = "cache_read"
    BY <1>3 DEF Reads, Legs, Online
  <2>5. /\ p.origin_rbuf_rdr \in Int /\ p.client_pending \in Int /\ avail \in Nat
        /\ p.origin_rdr \in Int /\ Len(p.origin_recv) \in Nat
    <3>1. p.origin_rbuf_rdr \in Int /\ p.client_pending \in Int
      BY <2>1 DEF Mach, Conns
    <3> QED
      BY <2>1, <3>1, ReceivedTyped DEF Owed
  <2>6. /\ ToClient(p) + avail <= p.origin_rdr /\ p.origin_rdr = Len(p.origin_recv)
    BY <1>1, <1>3 DEF SameSend, Owed
  <2>7. p.client_pending + avail <= OrgAvail(p)
    BY <2>5, <2>6 DEF ToClient, OrgAvail
  <2>2. Does(p, t, X, F) /\ t.client_pending = p.client_pending + avail
    BY <2>1, <2>5, <2>7, SendToClientDoes
  <2> HIDE DEF t
  <2>3. t.csm = p.csm /\ t.flags = p.flags
    BY <2>2 DEF Does, Keep, Fields
  <2>8. Ledger(t)
    <3>1. /\ t.client_rdr = p.client_rdr /\ t.client_recv = p.client_recv
          /\ t.origin_rdr = p.origin_rdr /\ t.trans = p.trans
          /\ t.origin_rbuf_rdr = p.origin_rbuf_rdr /\ ToOrigin(t) = ToOrigin(p)
      BY <2>2 DEF Does, Keep, Fields, ToOrigin
    <3>2. "cln_recv_eof" \in t.sm <=> "cln_recv_eof" \in p.sm
      BY <2>2 DEF Does, Only
    <3>3. ToClient(t) <= t.origin_rdr
      BY <2>2, <2>5, <2>6, <3>1 DEF ToClient
    <3> QED
      BY <1>3, <2>3, <3>1, <3>2, <3>3 DEF Reads, Legs, Ledger
  <2>9. Flagged(p, t)
    BY <2>3 DEF Flagged
  <2>4. /\ F \subseteq {"flags", "csm", "org_cache_rdr", "client_pending"}
        /\ X \subseteq {"cln_send_idle", "cln_send"}
    OBVIOUS
  <2> HIDE DEF F, X
  <2> QED
    BY <1>3, <2>1, <2>2, <2>3, <2>4, <2>8, <2>9, ReadsStep
<1> HIDE DEF t
<1> QED
  BY <1>2, <1>3, <1>4

\* The cache has served all of the response.
LEMMA ServedEnd ==
    ASSUME NEW s, Reads(s), NEW t, NEW X, NEW F, Does(s, t, X, F),
           X = {"org_recv", "org_recv_eof", "org_recv_idle"}, F = {"csm"},
           "org_recv_eof" \in t.sm, t.csm = "cache_closed"
    PROVE  Good(t) /\ Online(t) /\ t.origin_recv = s.origin_recv
<1>1. /\ t.origin_recv = s.origin_recv /\ t.origin_rdr = s.origin_rdr
      /\ t.client_rdr = s.client_rdr /\ t.client_recv = s.client_recv
      /\ t.cln_script = s.cln_script /\ t.trans = s.trans
      /\ t.wrote = s.wrote /\ t.cache_op = s.cache_op
      /\ t.tunnel = s.tunnel /\ t.strm = s.strm /\ t.obj_at = s.obj_at
      /\ t.obj_len = s.obj_len /\ t.cache_offs = s.cache_offs
      /\ t.flags = s.flags /\ t.handle = s.handle
  BY DEF Does, Keep, Fields
<1>2. \A x : x \notin {"org_recv", "org_recv_eof", "org_recv_idle"}
            => (x \in t.sm <=> x \in s.sm)
  BY DEF Does, Only
<1>3. Mach(t) /\ Online(s) /\ Steps(s)
  BY DEF Does, Reads, Legs
<1>4. Online(t)
  BY <1>2, <1>3 DEF Online, Up
<1>5. Steps(t)
  BY <1>2, <1>3, <1>4 DEF Online, Up, Steps, ShutC, ShutO
<1>6. Served(t) /\ ~t.tunnel /\ Place(t)
  BY <1>1 DEF Reads, Legs, Served, Place
<1>7. Paused(t) /\ OpFits(t)
  <2>1. "org_recv_paused" \in t.sm <=> "org_recv_paused" \in s.sm
    BY <1>2
  <2>2. t.csm \notin Deciding /\ s.csm \notin Deciding
    BY DEF Deciding, Reads
  <2>3. Paused(t)
    BY <1>1, <2>1, <2>2 DEF Reads, Legs, Paused
  <2>4. OpFits(t)
    BY <1>1 DEF Reads, Legs, OpFits
  <2> QED
    BY <2>3, <2>4
<1>8. t.csm \notin Caching /\ s.csm \in Caching
  BY DEF Caching, Waiting, Reads
<1>9. Cached(t)
  BY <1>1, <1>8 DEF Reads, Legs, Use, Expected, Cached
<1>10. Asked(t)
  BY <1>1 DEF Asked
<1>11. Bytes(t)
  BY <1>1 DEF Reads, Legs, WriteOk, Wrote, Bytes, Waiting
<1>13. Entry(t)
  BY <1>1, <1>8 DEF Reads, ReadOk, Legs, Marked, Entry, Deciding
<1>14. Waits(t)
  BY <1>1 DEF Reads, Legs, Marked, Waits, Deciding
<1>15. Ledger(t)
  <2>1. "cln_recv_eof" \notin X
    OBVIOUS
  <2>2. F \cap {"client_rdr", "client_recv", "origin_rdr", "trans", "client_rbuf_rdr",
                  "origin_rbuf_rdr", "client_pending", "origin_pending"} = {}
    OBVIOUS
  <2> QED
    BY <1>1, <2>1, <2>2, LedgerSame DEF Reads, Legs
<1>12. Good(t)
  BY <1>4, <1>5, <1>6, <1>7, <1>9, <1>10, <1>11, <1>13, <1>14, <1>15, BodyGood
     DEF Body, Core
<1> QED
  BY <1>1, <1>4, <1>12

\* A response that is still being served.
LEMMA ReadsGood ==
    ASSUME NEW s, Reads(s), s.cache_offs < s.obj_len
    PROVE  Good(s) /\ Up(s.sm)
<1>1. Mach(s) /\ s.trans # <<>> /\ s.csm = "cache_read" /\ s.csm \in Caching
  BY DEF Reads, Legs, Online, Expected, Caching, Waiting
<1>2. s.trans[1].resp_state = "open"
  <2>1. s.trans[1] \in Trans
    BY <1>1, FirstTyped
  <2>2. s.cache_offs \in Int /\ s.obj_len \in Int
    BY <1>1, ReceivedTyped
  <2>3. ~RespCompleted(s.trans[1])
    BY <2>2 DEF Reads, ReadOk
  <2> QED
    BY <2>1, <2>3 DEF Reads, ReadOk, RespCompleted, Trans
<1>3. Cached(s)
  BY <1>1 DEF Reads, Legs, Use, Cached
<1>4. Asked(s)
  BY <1>1, <1>2 DEF Reads, ReadOk, Asked
<1>5. Bytes(s)
  BY <1>1 DEF Reads, Legs, WriteOk, Bytes, Waiting
<1>6. Entry(s)
  BY <1>1 DEF Reads, ReadOk, Legs, Marked, Entry, Deciding
<1>7. Waits(s)
  BY <1>1 DEF Reads, Legs, Marked, Waits, Deciding
<1> QED
  BY <1>3, <1>4, <1>5, <1>6, <1>7, BodyGood DEF Reads, Legs, Online, Body, Core

\* Whether it is the end or not.
LEMMA ReadsEnd ==
    ASSUME NEW s, Reads(s)
    PROVE  Left(s, CacheEnd(s))
<1>1. CASE s.cache_offs < s.obj_len
  <2>1. Good(s) /\ Up(s.sm)
    BY <1>1, ReadsGood
  <2> QED
    BY <1>1, <2>1, LeftEvents DEF CacheEnd
<1>2. CASE ~(s.cache_offs < s.obj_len)
  <2> DEFINE a == ProcessEvent(s, "org_recv_eof")
             m == MarkHalfClosed(a)
             c == CloseOrg(m)
             h == HandlerEvent(c, "cache_op_done")
             t == ProcessEvent(h, "cln_close")
             X == {"org_recv", "org_recv_eof", "org_recv_idle"}
             F == {"csm"}
  <2>1. CacheEnd(s) = SwitchedEof(c)
    BY <1>2 DEF CacheEnd
  <2>2. Mach(s) /\ "org_recv_idle" \in s.sm /\ s.csm = "cache_read" /\ ~s.tunnel
    BY DEF Reads, Legs, Online
  <2>3. s.ops["org_recv"] = "none"
    <3>1. "org_recv" \notin s.sm
      BY <2>2 DEF Mach, Sm, One, In, ORecv
    <3> QED
      BY <2>2, <3>1 DEF Mach, OpsOk
  <2>4. Does(s, a, X, {}) /\ "org_recv_eof" \in a.sm
    BY <2>2, <2>3, EvOrgRecvEof
  <2> HIDE DEF a
  <2>5. Does(a, m, {}, {}) /\ m.sm = a.sm
    BY <2>4, PortsDoes DEF Does
  <2> HIDE DEF m
  <2>6. Does(m, c, {}, {}) /\ c.sm = m.sm
    BY <2>5, PortsDoes DEF Does
  <2> HIDE DEF c
  <2>7. Does(s, c, X, {})
    <3>1. Does(s, m, X, {})
      BY <2>4, <2>5, DoesBoth DEF Does, Only, Keep
    <3> QED
      BY <2>6, <3>1 DEF Does, Only, Keep
  <2>8. Mach(c) /\ c.csm = s.csm /\ c.tunnel = s.tunnel /\ "org_recv_eof" \in c.sm
    BY <2>4, <2>5, <2>6, <2>7 DEF Does, Keep, Fields
  <2>9. SwitchedEof(c) = t
    BY <2>2, <2>8 DEF SwitchedEof, OnSwitchedStreamEof
  <2>10. Does(c, h, {}, F) /\ h.csm = "cache_closed"
    BY <2>2, <2>8, DoneReadDoes
  <2> HIDE DEF h
  <2>11. Does(s, h, X, F) /\ "org_recv_eof" \in h.sm
    <3>1. Does(s, h, X \cup {}, {} \cup F)
      BY <2>7, <2>10, DoesBoth
    <3> QED
      BY <2>8, <2>10, <3>1 DEF Does, Only, Keep
  <2>12. Good(h) /\ Online(h) /\ h.origin_recv = s.origin_recv
    BY <2>10, <2>11, ServedEnd
  <2>13. Left(s, h)
    BY <2>11, <2>12 DEF Left, Does
  <2>14. Left(h, t)
    BY <2>13, LeftUp, LeftEvents
  <2> HIDE DEF t
  <2> QED
    BY <2>1, <2>9, <2>13, <2>14, LeftBoth
<1> QED
  BY <1>1, <1>2

-----------------------------------------------------------------------------
(* All of them.                                                            *)

\* The transaction is dealt with, whatever is done with its response.
LEMMA ToldBack ==
    ASSUME NEW s, Legs(s), Started(s), Expected(s), Whole(s), ReadOk(s),
           s.trans[1].resp_state # "bad", NEW had, s.csm \in Caching => had,
           NEW avail, Owed(s, avail), Behind(s)
    PROVE  LET t == SetBackpressure(TellOrgData(s, had), avail) IN
           /\ s.csm # "cache_read" => Left(s, t)
           /\ s.csm = "cache_read" => /\ Reads(t) /\ t.origin_recv = s.origin_recv
                                      /\ t.bug = s.bug
<1> DEFINE u == TellOrgData(s, had)
           t == SetBackpressure(u, avail)
<1>1. s.csm \in {"wait_body_data", "cache_closed", "cache_write", "cache_idle_wr",
                 "cache_read"}
  <2>1. s.csm \in Csms /\ s.csm \notin Deciding
    BY DEF Legs, Online, Mach, Conns
  <2> QED
    BY <2>1 DEF Csms, Deciding
<1>2. CASE s.csm \in {"wait_body_data", "cache_closed"}
  <2>1. Early(s)
    BY <1>2 DEF Early, Started
  <2>5. /\ Early(u) /\ Told(u) /\ Does(s, u, {}, {"org_cache_rdr", "csm"})
        /\ SameSend(s, u)
    BY <2>1, EarlyTold
  <2>2. Early(u) /\ Told(u) /\ Does(s, u, {}, {"org_cache_rdr", "csm"}) /\ Owed(u, avail)
    BY <2>5 DEF Does, Keep, Fields, SameSend, Owed
  <2> HIDE DEF u
  <2>3. Left(u, t)
    BY <2>2, EarlyBackLeft
  <2> HIDE DEF t
  <2>4. Left(s, t)
    BY <2>2, <2>3 DEF Left, Does, Keep, Fields
  <2> QED
    BY <1>2, <2>4 DEF t, u
<1>3. CASE s.csm \in {"cache_write", "cache_idle_wr"}
  <2>1. Writes(s) /\ had
    BY <1>3 DEF Writes, Caching, Waiting
  <2>2. Writes(u) /\ u.csm = "cache_write" /\ u.bug = s.bug
        /\ u.origin_recv = s.origin_recv /\ Owed(u, avail)
    BY <2>1, WritesTold DEF SameSend, Owed
  <2> HIDE DEF u
  <2>3. Left(u, t)
    BY <2>2, WritesBackLeft
  <2> HIDE DEF t
  <2>4. Left(s, t)
    BY <2>2, <2>3 DEF Left
  <2> QED
    BY <1>3, <2>4 DEF t, u
<1>4. CASE s.csm = "cache_read"
  <2>1. Reads(s) /\ had
    BY <1>4 DEF Reads, Caching, Waiting
  <2>2. Reads(u) /\ u.bug = s.bug /\ u.origin_recv = s.origin_recv /\ Owed(u, avail)
    BY <2>1, ReadsTold DEF SameSend, Owed
  <2> HIDE DEF u
  <2>3. Reads(t) /\ t.bug = u.bug /\ t.origin_recv = u.origin_recv
    BY <2>2, ReadsBack
  <2> HIDE DEF t
  <2> QED
    BY <1>4, <2>2, <2>3 DEF t, u
<1> QED
  BY <1>1, <1>2, <1>3, <1>4

\* on_origin_data.
LEMMA OnOriginDataLeft ==
    ASSUME NEW s, Legs(s), Started(s), NewRead(s), Behind(s)
    PROVE  LET t == OnOriginData(s) IN
           /\ s.csm # "cache_read" => Left(s, t)
           /\ s.csm = "cache_read" => /\ Reads(t) /\ t.origin_recv = s.origin_recv
                                      /\ t.bug = s.bug
<1> DEFINE avail == OrgRdrAvail(s)
<1>1. Mach(s) /\ "recv_paused" \notin s.flags
  BY DEF Legs, Online, Paused
<1>2. Owed(s, avail)
  <2>1. s.origin_rbuf_rdr \in Int /\ s.client_pending \in Int
    BY <1>1 DEF Mach, Conns
  <2>2. s.origin_rdr \in Nat /\ Len(s.origin_recv) \in Nat
    BY <1>1, ReceivedTyped
  <2>3. s.origin_rdr <= Len(s.origin_recv) /\ ToClient(s) <= s.origin_rdr
    BY DEF Legs, Place, Ledger
  <2>4. ToClient(s) \in Int
    BY <2>1 DEF ToClient
  <2> QED
    BY <2>2, <2>3, <2>4 DEF Owed, OrgRdrAvail
<1>3. OnOriginData(s) = IF Expected(s) THEN Consume(s, avail) ELSE TryBlindTunnel(s)
  BY <1>1 DEF OnOriginData, Check, Has, IsRespExpected, Expected
<1> HIDE DEF avail
<1>4. CASE ~Expected(s)
  <2>1. s.csm # "cache_read"
    BY <1>4 DEF Legs, Use, Expected, Caching, Waiting
  <2>2. Left(s, TryBlindTunnel(s))
    BY LegsTunnel
  <2> QED
    BY <1>3, <1>4, <2>1, <2>2
<1>5. CASE Expected(s)
  <2> DEFINE u == ConsumeCurrRespData(s)
             had == RespHdrsCompleted(s.trans[1])
  <2>1. /\ Legs(u) /\ Started(u) /\ Expected(u) /\ Whole(u) /\ ReadOk(u) /\ Behind(u)
        /\ Does(s, u, {}, {"trans", "origin_rdr"}) /\ u.csm = s.csm
    BY <1>5, ConsumedLegs
  <2>2. OnOriginData(s) = IF u.trans[1].resp_state = "bad" THEN TryBlindTunnel(u)
                          ELSE SetBackpressure(AdjustTransState(u, had), avail)
    BY <1>3, <1>5 DEF Consume
  <2> HIDE DEF u
  <2>3. u.origin_recv = s.origin_recv /\ u.bug = s.bug /\ ToClient(u) = ToClient(s)
    BY <2>1 DEF Does, Keep, Fields, ToClient
  <2>4. CASE u.trans[1].resp_state = "bad"
    <3>1. s.csm # "cache_read"
      BY <2>1, <2>4 DEF ReadOk
    <3>2. Left(u, TryBlindTunnel(u))
      BY <2>1, LegsTunnel
    <3> QED
      BY <2>2, <2>3, <2>4, <3>1, <3>2 DEF Left
  <2>5. CASE u.trans[1].resp_state # "bad"
    <3> DEFINE force == /\ ~u.trans[1].tunnel /\ u.trans[1].resp > BpWindow
                        /\ RespBody(u.trans[1]) < 1
               w == [u EXCEPT !.trans[1].tunnel = @ \/ force]
               t == SetBackpressure(TellOrgData(w, had), avail)
    <3>1. OnOriginData(s) = t
      BY <2>2, <2>5 DEF AdjustTransState
    <3>2. u.csm \in Caching => ~force
      <4>1. Mach(u) /\ u.trans # <<>>
        BY <2>1 DEF Legs, Online, Expected
      <4>2. RespBody(u.trans[1]) \in Int
        BY <4>1, FirstTyped
      <4>3. u.csm \in Caching => RespBody(u.trans[1]) >= 1
        BY <2>1 DEF Legs, Use
      <4> QED
        BY <4>2, <4>3
    <3>3. force \in BOOLEAN
      OBVIOUS
    <3> HIDE DEF force
    <3>4. /\ Legs(w) /\ Started(w) /\ Expected(w) /\ Whole(w) /\ ReadOk(w) /\ Behind(w)
          /\ Does(u, w, {}, {"trans", "origin_rdr"}) /\ w.csm = u.csm
          /\ w.trans[1].resp_state = u.trans[1].resp_state
      BY <2>1, <3>2, <3>3, AdjustedLegs
    <3> HIDE DEF w
    <3>5. w.origin_recv = s.origin_recv /\ w.bug = s.bug /\ ToClient(w) = ToClient(s)
      BY <2>3, <3>4 DEF Does, Keep, Fields, ToClient
    <3>9. Owed(w, avail)
      BY <1>2, <3>5 DEF Owed
    <3>6. w.csm \in Caching => had
      BY <2>1, <3>4 DEF Legs, Use, RespHdrsCompleted
    <3> HIDE DEF had
    <3>7. /\ w.csm # "cache_read" => Left(w, t)
          /\ w.csm = "cache_read" => /\ Reads(t) /\ t.origin_recv = w.origin_recv
                                     /\ t.bug = w.bug
      BY <2>5, <3>4, <3>6, <3>9, ToldBack
    <3> HIDE DEF t
    <3>8. /\ s.csm # "cache_read" => Left(s, t)
          /\ s.csm = "cache_read" => /\ Reads(t) /\ t.origin_recv = s.origin_recv
                                     /\ t.bug = s.bug
      BY <2>1, <3>4, <3>5, <3>7 DEF Left
    <3> QED
      BY <3>1, <3>8
  <2> QED
    BY <2>4, <2>5
<1> QED
  BY <1>4, <1>5

\* A step that receives from the origin what comes next.
LEMMA LandsGrown ==
    ASSUME IInv, NEW t, Becomes(t),
           Good(conn) /\ Intact(conn) =>
                Good(t) /\ t.bug = conn.bug /\ Intact(t)
    PROVE  IInv'
<1>1. conn' = t /\ Good(t) /\ t.bug = {} /\ Intact(t)
  BY DEF Becomes, IInv
<1> QED
  BY <1>1 DEF IInv

\* What is received next.
LEMMA NextUnits ==
    ASSUME NEW s, Mach(s), Intact(s), NEW n \in Nat
    PROVE  LET l == Len(s.origin_recv)
               u == [i \in 1..n |-> l + i]
           IN  /\ u \in Seq(Nat) /\ Len(u) = n
               /\ \A i \in DOMAIN (s.origin_recv \o u) : (s.origin_recv \o u)[i] = i
<1> DEFINE r == s.origin_recv
           l == Len(r)
           u == [i \in 1..n |-> l + i]
           b == r \o u
<1>1. r \in Seq(Nat) /\ l \in Nat
  BY ReceivedTyped
<1>2. \A i \in DOMAIN r : r[i] = i
  BY DEF Intact
<1> HIDE DEF r
<1>3. u \in Seq(Nat) /\ Len(u) = n /\ \A i \in 1..n : u[i] = l + i
  BY <1>1
<1> HIDE DEF u
<1>4. /\ b \in Seq(Nat) /\ Len(b) = l + n
      /\ \A i \in 1..(l + n) : b[i] = IF i <= l THEN r[i] ELSE u[i - l]
  BY <1>1, <1>3, ConcatProperties
<1> HIDE DEF b
<1>5. ASSUME NEW i \in DOMAIN b PROVE b[i] = i
  <2>1. i \in 1..(l + n)
    BY <1>4
  <2>2. DOMAIN r = 1..l
    BY <1>1
  <2> HIDE DEF l
  <2>3. CASE i <= l
    BY <1>1, <1>2, <1>4, <2>1, <2>2, <2>3
  <2>4. CASE ~(i <= l)
    <3>1. i - l \in 1..n /\ l + (i - l) = i
      BY <1>1, <2>1, <2>4
    <3> QED
      BY <1>3, <1>4, <2>1, <2>4, <3>1
  <2> QED
    BY <2>3, <2>4
<1> QED
  BY <1>3, <1>5 DEF b, u, r

\* The origin's buffer takes it.
LEMMA GrowDoes ==
    ASSUME NEW s, Mach(s), NEW units \in Seq(Nat)
    PROVE  LET t == [s EXCEPT !.origin_recv = @ \o units, !.moved = TRUE] IN
           /\ Does(s, t, {}, {"origin_recv"}) /\ t.sm = s.sm /\ t.ops = s.ops
           /\ t.origin_recv = s.origin_recv \o units
<1> DEFINE v == s.origin_recv \o units
           b == TRUE
           r == [s EXCEPT !.origin_recv = @ \o units, !.moved = TRUE]
           t == [s EXCEPT !.origin_recv = v, !.moved = b]
<1>1. s \in Conns /\ s.origin_recv \in Seq(Nat)
  BY ReceivedTyped DEF Mach
<1>2. v \in Seq(Nat) /\ b \in BOOLEAN
  BY <1>1, ConcatProperties
<1>3. r = t
  BY <1>1 DEF Conns
<1> HIDE DEF v, b
<1>4. /\ t \in Conns /\ t.sm = s.sm /\ t.ops = s.ops /\ Given(t) = Given(s)
      /\ t.bug = s.bug /\ t.origin_recv = v
  BY <1>1, <1>2 DEF Conns, Given
<1>5. Keep(s, t, {"origin_recv"})
  BY <1>1 DEF Keep, Fields, Conns
<1> HIDE DEF t
<1>6. Does(s, t, {}, {"origin_recv"})
  <2>1. /\ t.client_rbuf_rdr = s.client_rbuf_rdr /\ t.origin_pending = s.origin_pending
        /\ t.client_recv = s.client_recv /\ t.origin_rbuf_rdr = s.origin_rbuf_rdr
        /\ t.client_pending = s.client_pending /\ t.org_cache_rdr = s.org_cache_rdr
    BY <1>5 DEF Keep, Fields
  <2>2. /\ s.origin_rbuf_rdr \in Int /\ s.client_pending \in Int
        /\ s.org_cache_rdr \in Int /\ s.origin_pending \in Int
    BY <1>1 DEF Conns
  <2>3. Len(v) \in Nat /\ Len(s.origin_recv) \in Nat /\ Len(s.origin_recv) <= Len(v)
    <3>1. Len(v) = Len(s.origin_recv) + Len(units) /\ Len(units) \in Nat
          /\ Len(s.origin_recv) \in Nat
      BY <1>1, ConcatProperties DEF v
    <3> QED
      BY <3>1
  <2>4. Counts(t)
    BY <1>4, <2>1, <2>2, <2>3 DEF Mach, Counts
  <2>5. s.client_pending <= t.client_pending /\ s.origin_pending <= t.origin_pending
    BY <2>1, <2>2
  <2> QED
    BY <1>4, <1>5, <2>4, <2>5, Counted
<1> QED
  BY <1>3, <1>4, <1>6 DEF v

\* The cache's stream has gone on.
LEMMA OffsDoes ==
    ASSUME NEW s, Mach(s), NEW n \in Int
    PROVE  LET t == [s EXCEPT !.cache_offs = @ + n] IN
           /\ Does(s, t, {}, {"cache_offs"}) /\ t.sm = s.sm /\ t.ops = s.ops
           /\ t.cache_offs = s.cache_offs + n
<1> DEFINE v == s.cache_offs + n
           t == [s EXCEPT !.cache_offs = v]
<1>1. s \in Conns /\ v \in Int
  BY ReceivedTyped DEF Mach
<1> HIDE DEF v
<1>2. /\ t \in Conns /\ t.sm = s.sm /\ t.ops = s.ops /\ Given(t) = Given(s)
      /\ t.bug = s.bug /\ t.cache_offs = v
  BY <1>1 DEF Conns, Given
<1>3. Keep(s, t, {"cache_offs"})
  BY <1>1 DEF Keep, Fields, Conns
<1> HIDE DEF t
<1>4. Does(s, t, {}, {"cache_offs"})
  BY <1>2, <1>3, Updated DEF CountF
<1> QED
  BY <1>2, <1>4 DEF t, v

\* What there is for the client.
LEMMA PendingDoes ==
    ASSUME NEW s, Mach(s)
    PROVE  Does(s, [s EXCEPT !.client_pending = OrgAvail(s)], {}, {"client_pending"})
<1> DEFINE v == OrgAvail(s)
           t == [s EXCEPT !.client_pending = v]
<1>1. s \in Conns /\ v \in Int /\ s.client_pending \in Int /\ s.origin_rbuf_rdr \in Int
      /\ s.client_pending <= v /\ s.origin_rbuf_rdr + v = Len(s.origin_recv)
  <2>1. s \in Conns /\ Len(s.origin_recv) \in Nat
    BY ReceivedTyped DEF Mach
  <2>2. s.origin_rbuf_rdr \in Int /\ s.client_pending \in Int
    BY <2>1 DEF Conns
  <2>3. s.origin_rbuf_rdr + s.client_pending <= Len(s.origin_recv)
    BY DEF Mach, Counts
  <2> QED
    BY <2>1, <2>2, <2>3 DEF OrgAvail
<1> HIDE DEF v
<1>2. /\ t \in Conns /\ t.sm = s.sm /\ t.ops = s.ops /\ Given(t) = Given(s)
      /\ t.bug = s.bug /\ t.client_pending = v
  BY <1>1 DEF Conns, Given
<1>3. Keep(s, t, {"client_pending"})
  BY <1>1 DEF Keep, Fields, Conns
<1> HIDE DEF t
<1>5. /\ t.client_rbuf_rdr = s.client_rbuf_rdr /\ t.origin_pending = s.origin_pending
      /\ t.client_recv = s.client_recv /\ t.origin_rbuf_rdr = s.origin_rbuf_rdr
      /\ t.origin_recv = s.origin_recv /\ t.org_cache_rdr = s.org_cache_rdr
  BY <1>3 DEF Keep, Fields
<1>7. s.origin_pending \in Int /\ Len(s.origin_recv) \in Nat
  <2>1. s.origin_pending \in Int
    BY <1>1 DEF Conns
  <2> QED
    BY <2>1, ReceivedTyped
<1>6. Counts(t)
  <2>1. 0 <= t.client_pending /\ t.origin_rbuf_rdr + t.client_pending <= Len(t.origin_recv)
    BY <1>1, <1>2, <1>5, <1>7 DEF Mach, Counts
  <2> QED
    BY <1>5, <2>1 DEF Mach, Counts
<1>4. Does(s, t, {}, {"client_pending"})
  BY <1>1, <1>2, <1>3, <1>5, <1>6, <1>7, Counted
<1> QED
  BY <1>4 DEF t, v

\* The handler, or the tunnel, is given the units.
LEMMA BytesHanded ==
    ASSUME NEW s, Good(s), Up(s.sm), "org_recv" \in s.sm, s.ops["org_recv"] = "none",
           NEW units \in Seq(Nat), s.strm # "cache" => Len(units) >= 1,
           NEW x, NEW G, G \subseteq {"cache_offs"}, Does(s, x, {}, G),
           x.sm = s.sm, x.ops = s.ops,
           s.strm = "cache" => /\ x.cache_offs = s.cache_offs + Len(units)
                               /\ x.cache_offs <= s.obj_len
    PROVE  LET g == OrgBytes(x, units) IN
           /\ g.bug = s.bug /\ g.origin_recv = s.origin_recv \o units
           /\ ~s.tunnel /\ s.strm = "cache" => Reads(g)
           /\ s.tunnel \/ s.strm # "cache" => Good(g) /\ Up(g.sm)
           /\ s.tunnel => g.tunnel /\ "org_recv_idle" \in g.sm
<1> DEFINE r == [x EXCEPT !.origin_recv = @ \o units, !.moved = TRUE]
           f == ProcessEvent(r, "org_recv_data")
           g == HandOrgBytes(f)
           F == G \cup {"origin_recv"}
           n == Len(units)
<1>1. Mach(x) /\ n \in Nat
  BY DEF Does
<1>2. /\ Does(x, r, {}, {"origin_recv"}) /\ r.sm = x.sm /\ r.ops = x.ops
      /\ r.origin_recv = x.origin_recv \o units
  BY <1>1, GrowDoes
<1> HIDE DEF r
<1>3. x.origin_recv = s.origin_recv /\ x.strm = s.strm /\ r.cache_offs = x.cache_offs
  BY <1>2 DEF Does, Keep, Fields
<1>4. Does(s, r, {}, F)
  BY <1>2, DoesBoth DEF Does, Only, Keep
<1>5. Len(r.origin_recv) = Len(s.origin_recv) + n
  <2>1. s.origin_recv \in Seq(Nat)
    BY ReceivedTyped DEF Good
  <2> QED
    BY <1>2, <1>3, <2>1, ConcatProperties
<1> HIDE DEF n
<1>6. /\ Does(r, f, {"org_recv", "org_recv_idle"}, {}) /\ "org_recv_idle" \in f.sm
  <2>1. Mach(r) /\ "org_recv" \in r.sm /\ r.ops["org_recv"] = "none"
    BY <1>2 DEF Does
  <2> QED
    BY <2>1, EvOrgRecvData
<1> HIDE DEF f
<1>7. /\ s.tunnel => Good(f) /\ Online(f) /\ f.tunnel
      /\ ~s.tunnel => Legs(f) /\ Started(f) /\ NewRead(f) /\ Behind(f)
  <2>1. F \subseteq {"origin_recv", "cache_offs"}
    OBVIOUS
  <2>2. s.strm = "cache" => /\ r.cache_offs = s.cache_offs + n
                            /\ r.cache_offs <= s.obj_len
    BY <1>3 DEF n
  <2>3. s.strm # "cache" => n >= 1
    BY DEF n
  <2> HIDE DEF F
  <2> QED
    BY <1>1, <1>4, <1>5, <1>6, <2>1, <2>2, <2>3, Arrived
<1>8. /\ f.bug = s.bug /\ f.origin_recv = s.origin_recv \o units
      /\ f.strm = s.strm
  BY <1>2, <1>3, <1>4, <1>6 DEF Does, Keep, Fields
<1>9. OrgBytes(x, units) = g
  BY DEF OrgBytes, f, r
<1>10. CASE s.tunnel
  <2> DEFINE u == [f EXCEPT !.client_pending = OrgAvail(f)]
             t == ProcessEvent(u, "cln_send")
             X == {"cln_send", "cln_send_idle"}
  <2>1. g = t
    BY <1>7, <1>10 DEF HandOrgBytes
  <2>2. Does(f, u, {}, {"client_pending"})
    BY <1>7, <1>10, PendingDoes DEF Good
  <2> HIDE DEF u
  <2>7. u.tunnel = f.tunnel /\ u.origin_recv = f.origin_recv /\ u.sm = f.sm /\ u.bug = f.bug
    <3>1. u.sm = f.sm
      <4>1. f \in Conns
        BY <1>7, <1>10 DEF Good, Mach
      <4> QED
        BY <4>1 DEF u, Conns
    <3> QED
      BY <2>2, <3>1 DEF Does, Keep, Fields
  <2>3. Left(f, u)
    <3> DEFINE H == {"client_pending"}
    <3>1. H \subseteq {"client_rbuf_rdr", "origin_rbuf_rdr", "client_pending",
                        "origin_pending"}
      OBVIOUS
    <3>2. Does(f, u, {}, H)
      BY <2>2
    <3> HIDE DEF H
    <3>3. Kept(f, u) /\ Online(u)
      BY <1>7, <1>10, <3>1, <3>2, GoodSent
    <3> QED
      BY <2>7, <3>3 DEF Kept, Left
  <2>4. Mach(u) /\ Does(u, t, X, {})
    BY <2>3, LeftUp, EvClnSend
  <2> HIDE DEF t
  <2>5. t.tunnel = f.tunnel /\ "org_recv_idle" \in t.sm
    BY <1>6, <2>7, <2>4 DEF Does, Keep, Fields, Only
  <2>6. Left(u, t)
    <3>1. X \cap Marks = {} /\ X \cap (ClnEndX \cup OrgEndX) = {}
      BY DEF Marks, ClnEndX, OrgEndX
    <3> HIDE DEF X
    <3> QED
      BY <2>3, <2>4, <3>1, LeftUp, QuietKept, LeftStep
  <2>8. Left(f, t)
    BY <2>3, <2>6, LeftBoth
  <2> QED
    BY <1>7, <1>8, <1>9, <1>10, <2>1, <2>5, <2>8, LeftUp DEF Left
<1>11. CASE ~s.tunnel
  <2> DEFINE t == OnOriginData(f)
  <2>1. ~f.tunnel /\ Legs(f) /\ Started(f) /\ NewRead(f) /\ Behind(f)
    BY <1>7, <1>11 DEF Legs
  <2>2. g = t
    BY <2>1 DEF HandOrgBytes
  <2>3. /\ f.csm # "cache_read" => Left(f, t)
        /\ f.csm = "cache_read" => /\ Reads(t) /\ t.origin_recv = f.origin_recv
                                   /\ t.bug = f.bug
    BY <2>1, OnOriginDataLeft
  <2> HIDE DEF t
  <2>4. f.csm = "cache_read" <=> f.strm = "cache"
    BY <2>1 DEF Legs, NewRead
  <2>5. CASE f.strm = "cache"
    BY <1>8, <1>9, <1>11, <2>2, <2>3, <2>4, <2>5
  <2>6. CASE f.strm # "cache"
    <3>1. Left(f, t)
      BY <2>3, <2>4, <2>6
    <3> QED
      BY <1>8, <1>9, <1>11, <2>2, <2>6, <3>1, LeftUp DEF Left
  <2> QED
    BY <2>5, <2>6
<1> QED
  BY <1>10, <1>11

\* on_org_recv with data from the origin.
LEMMA StepOrgRecvData ==
    ASSUME IInv, OrgRecvData
    PROVE  IInv'
<1> DEFINE e == Ends(conn, "org_recv")
           l == Len(conn.origin_recv)
<1>1. conn.ops["org_recv"] # "none" /\ conn.strm = "sock"
  BY DEF OrgRecvData
<1>2. PICK n \in 1..conn.org_room :
        Becomes(ProcessEvent(OrgBytes(e, [i \in 1..n |-> l + i]), "org_recv"))
  BY DEF OrgRecvData, Completed, Ends
<1> DEFINE units == [i \in 1..n |-> l + i]
           g == OrgBytes(e, units)
           t == ProcessEvent(g, "org_recv")
<1>3. SUFFICES ASSUME Good(conn), Intact(conn)
               PROVE  Good(t) /\ t.bug = conn.bug /\ Intact(t)
  BY <1>2, LandsGrown
<1>4. n \in Nat /\ n >= 1 /\ Mach(conn)
  <2>1. Mach(conn)
    BY <1>3 DEF Good
  <2>2. conn.org_room \in Int
    BY <2>1 DEF Mach, Conns
  <2> QED
    BY <2>1, <2>2
<1>5. /\ Left(conn, e) /\ Mach(e) /\ Up(e.sm) /\ "org_recv" \in e.sm
      /\ e.ops["org_recv"] = "none" /\ Does(conn, e, {}, {})
  BY <1>1, <1>3, EndsLeft
<1>6. e.origin_recv = conn.origin_recv /\ e.strm = "sock"
  BY <1>1, <1>5 DEF Does, Keep, Fields
<1>7. /\ units \in Seq(Nat) /\ Len(units) = n
      /\ \A i \in DOMAIN (conn.origin_recv \o units) : (conn.origin_recv \o units)[i] = i
  BY <1>3, <1>4, NextUnits
<1> HIDE DEF e, units
<1>8. /\ g.bug = e.bug /\ g.origin_recv = e.origin_recv \o units
      /\ Good(g) /\ Up(g.sm)
  <2> DEFINE G == {}
  <2>1. G \subseteq {"cache_offs"} /\ Does(e, e, {}, G)
    BY <1>5, SameDoes
  <2> HIDE DEF G
  <2>2. Good(e)
    BY <1>5, LeftUp
  <2> QED
    BY <1>4, <1>5, <1>6, <1>7, <2>1, <2>2, BytesHanded
<1> HIDE DEF g
<1>9. Left(g, t)
  BY <1>8, LeftEvents
<1> HIDE DEF t
<1>10. Intact(t)
  BY <1>6, <1>7, <1>8, <1>9 DEF Left, Intact
<1> QED
  BY <1>5, <1>8, <1>9, <1>10 DEF Left

\* What is read of the cache is not more than there is.
LEMMA Taken ==
    ASSUME NEW a \in Int, a > 0, NEW o \in Int, NEW l \in Int, o <= l
    PROVE  LET n == Min({a, l - o}) IN n \in Nat /\ o + n <= l
<1> DEFINE b == l - o
           m == IF a <= b THEN a ELSE b
<1>1. m \in {a, b} /\ \A x \in {a, b} : m <= x
  OBVIOUS
<1>2. {a, b} \in SUBSET Int
  OBVIOUS
<1>3. m \in Nat /\ o + m <= l
  OBVIOUS
<1> HIDE DEF m
<1>4. Min({a, b}) = m
  BY <1>1, <1>2, MinIsOne
<1> QED
  BY <1>3, <1>4

\* The cache has served all of what a tunnel sends on.
LEMMA TunnelEnd ==
    ASSUME NEW s, Good(s), Up(s.sm), s.tunnel, "org_recv_idle" \in s.sm
    PROVE  Left(s, CacheEnd(s))
<1>1. CASE s.cache_offs < s.obj_len
  BY <1>1, LeftEvents DEF CacheEnd
<1>2. CASE ~(s.cache_offs < s.obj_len)
  <2> DEFINE f == ProcessEvent(s, "org_recv_eof")
             m == MarkHalfClosed(f)
             c == CloseOrg(m)
             t == ProcessEvent(c, "cln_close")
             X == {"org_recv", "org_recv_eof", "org_recv_idle"}
  <2>1. Mach(s) /\ s.ops["org_recv"] = "none"
    <3>1. Mach(s)
      BY DEF Good
    <3>2. "org_recv" \notin s.sm
      BY <3>1 DEF Mach, Sm, One, In, ORecv
    <3> QED
      BY <3>1, <3>2 DEF Mach, OpsOk
  <2>2. Does(s, f, X, {}) /\ "org_recv_eof" \in f.sm
    BY <2>1, EvOrgRecvEof
  <2> HIDE DEF f
  <2>3. Left(s, f) /\ f.tunnel
    <3>1. /\ (ShutO(f.sm) => ShutO(s.sm)) /\ (ShutC(f.sm) => ShutC(s.sm))
          /\ \A x \in Eofs : x \in s.sm => x \in f.sm
      BY <2>2 DEF Does, Only, Eofs, ShutO, ShutC
    <3>2. X \cap (Marks \ Eofs) = {}
      BY DEF Marks, Eofs
    <3> HIDE DEF X
    <3>3. Left(s, f) /\ f.tunnel = s.tunnel
      BY <2>2, <3>1, <3>2, LeftMoved
    <3> QED
      BY <3>3
  <2>4. Left(f, m) /\ Does(f, m, {}, {})
    BY <2>3, LeftUp, PortsLeft, PortsDoes
  <2> HIDE DEF m
  <2>5. Left(m, c) /\ Does(m, c, {}, {})
    BY <2>4, LeftUp, PortsLeft, PortsDoes
  <2> HIDE DEF c
  <2>6. c.tunnel
    BY <2>3, <2>4, <2>5 DEF Does, Keep, Fields
  <2>7. Left(c, t)
    BY <2>5, LeftUp, LeftEvents
  <2> HIDE DEF t
  <2>8. CacheEnd(s) = t
    BY <1>2, <2>6 DEF CacheEnd, SwitchedEof, f, m, c, t
  <2> QED
    BY <2>3, <2>4, <2>5, <2>7, <2>8, LeftBoth
<1> QED
  BY <1>1, <1>2

\* on_org_recv with data from the cache.
LEMMA StepCacheRecv ==
    ASSUME IInv, CacheRecv
    PROVE  IInv'
<1> DEFINE e == Ends(conn, "org_recv")
           n == Min({conn.org_room, conn.obj_len - conn.cache_offs})
           from == conn.obj_at + conn.cache_offs - 1
           l == Len(conn.origin_recv)
           x == [e EXCEPT !.cache_offs = @ + n]
           units == [i \in 1..n |-> from + i]
           g == OrgBytes(x, units)
           t == CacheEnd(g)
<1>1. conn.ops["org_recv"] # "none" /\ conn.strm = "cache" /\ Becomes(t)
  BY DEF CacheRecv, Completed, Ends
<1>2. SUFFICES ASSUME Good(conn), Intact(conn)
               PROVE  Good(t) /\ t.bug = conn.bug /\ Intact(t)
  BY <1>1, LandsGrown
<1>3. /\ Mach(conn) /\ from = l /\ conn.cache_offs <= conn.obj_len
  BY <1>1, <1>2 DEF Good, Served
<1>4. n \in Nat /\ conn.cache_offs + n <= conn.obj_len
  <2>1. conn.org_room > 0
    BY <1>1, <1>3 DEF Mach, OpsOk
  <2>2. conn.org_room \in Int
    BY <1>3 DEF Mach, Conns
  <2>3. conn.cache_offs \in Int /\ conn.obj_len \in Int
    BY <1>3, ReceivedTyped
  <2> QED
    BY <1>3, <2>1, <2>2, <2>3, Taken
<1>5. /\ Left(conn, e) /\ Mach(e) /\ Up(e.sm) /\ "org_recv" \in e.sm
      /\ e.ops["org_recv"] = "none" /\ Does(conn, e, {}, {})
  BY <1>1, <1>2, EndsLeft
<1>6. /\ e.origin_recv = conn.origin_recv /\ e.strm = "cache"
      /\ e.cache_offs = conn.cache_offs /\ e.obj_len = conn.obj_len
  BY <1>1, <1>5 DEF Does, Keep, Fields
<1> HIDE DEF e, n, from
<1>7. /\ units \in Seq(Nat) /\ Len(units) = n
      /\ \A i \in DOMAIN (conn.origin_recv \o units) : (conn.origin_recv \o units)[i] = i
  BY <1>2, <1>3, <1>4, NextUnits
<1>8. /\ Does(e, x, {}, {"cache_offs"}) /\ x.sm = e.sm /\ x.ops = e.ops
      /\ x.cache_offs = e.cache_offs + n
  BY <1>4, <1>5, OffsDoes
<1> HIDE DEF units, x
<1>9. /\ g.bug = e.bug /\ g.origin_recv = e.origin_recv \o units
      /\ ~e.tunnel => Reads(g)
      /\ e.tunnel => Good(g) /\ Up(g.sm) /\ g.tunnel /\ "org_recv_idle" \in g.sm
  <2> DEFINE G == {"cache_offs"}
  <2>1. G \subseteq {"cache_offs"} /\ Does(e, x, {}, G)
    BY <1>8
  <2> HIDE DEF G
  <2>2. Good(e)
    BY <1>5, LeftUp
  <2>3. x.cache_offs = e.cache_offs + Len(units) /\ x.cache_offs <= e.obj_len
    BY <1>4, <1>6, <1>7, <1>8
  <2> QED
    BY <1>5, <1>6, <1>7, <1>8, <2>1, <2>2, <2>3, BytesHanded
<1> HIDE DEF g
<1>10. Left(g, t)
  <2>1. CASE ~e.tunnel
    BY <1>9, <2>1, ReadsEnd
  <2>2. CASE e.tunnel
    BY <1>9, <2>2, TunnelEnd
  <2> QED
    BY <2>1, <2>2
<1> HIDE DEF t
<1>11. Intact(t)
  BY <1>6, <1>7, <1>9, <1>10 DEF Left, Intact
<1> QED
  BY <1>5, <1>9, <1>10, <1>11 DEF Left

-----------------------------------------------------------------------------
(* A connection whose back pressure entry can't be added.  It wants its    *)
(* tunnel before its origin is connected, when org_recv has no transition: *)
(* it aborts at its accept, and what the abort is noted in only grows.     *)

Shape == {"sm", "ops", "bp_fails", "bug", "tunnel", "origin_recv", "wrote", "csm"}

\* t comes after s, for what is told of a connection that aborts.
Carries(s, t) == /\ DOMAIN t = DOMAIN s
                 /\ s.bug \subseteq t.bug
                 /\ t.bp_fails = s.bp_fails /\ t.tunnel = s.tunnel
                 /\ t.origin_recv = s.origin_recv /\ t.wrote = s.wrote
                 /\ t.csm = s.csm

\* Such steps in a row.
LEMMA CarriesOn ==
    ASSUME NEW s, NEW t, NEW u, Carries(s, t), Carries(t, u)
    PROVE  Carries(s, u)
  BY DEF Carries

\* An assertion.
LEMMA CheckCarries ==
    ASSUME NEW s, Shape \subseteq DOMAIN s, NEW c \in BOOLEAN, NEW what
    PROVE  Carries(s, Check(s, c, what))
<1>1. CASE c
  BY <1>1 DEF Check, Carries
<1>2. CASE ~c
  <2>1. Check(s, c, what) = [s EXCEPT !.bug = @ \cup {what}]
    BY <1>2 DEF Check, Failed
  <2> QED
    BY <2>1 DEF Carries, Shape
<1> QED
  BY <1>1, <1>2

\* The start of an operation.
LEMMA BeginCarries ==
    ASSUME NEW s, Shape \subseteq DOMAIN s, NEW op, NEW open
    PROVE  Carries(s, Begin(s, op, open))
<1> DEFINE c == Check(s, s.ops[op] = "none", "second operation")
           v == [c.ops EXCEPT ![op] = IF open THEN "live" ELSE "dead"]
<1>1. Carries(s, c)
  BY CheckCarries
<1>2. Begin(s, op, open) = [c EXCEPT !.ops = v]
  BY DEF Begin
<1> HIDE DEF c, v
<1>3. Carries(c, [c EXCEPT !.ops = v])
  BY <1>1 DEF Carries, Shape
<1> QED
  BY <1>1, <1>2, <1>3, CarriesOn

\* The actions of proxy_conn's machine.
LEMMA ActCarries ==
    ASSUME NEW s, Shape \subseteq DOMAIN s, NEW act
    PROVE  Carries(s, ConnAct(s, act))
<1>1. ASSUME NEW op, NEW open, NEW fld \in {"cln_room", "org_room", "cln_sending",
                                            "org_sending"}, NEW v
      PROVE  Carries(s, [Begin(s, op, open) EXCEPT ![fld] = v])
  <2> DEFINE b == Begin(s, op, open)
  <2>1. Carries(s, b)
    BY BeginCarries
  <2> HIDE DEF b
  <2>2. Carries(b, [b EXCEPT ![fld] = v])
    BY <1>1, <2>1 DEF Carries, Shape
  <2>3. Carries(s, [b EXCEPT ![fld] = v])
    BY <2>1, <2>2, CarriesOn
  <2> QED
    BY <2>3 DEF b
<1>2. Carries(s, StartClnRecv(s))
  BY <1>1 DEF StartClnRecv
<1>3. Carries(s, StartOrgRecv(s))
  BY <1>1 DEF StartOrgRecv
<1>4. Carries(s, StartClnSend(s))
  BY <1>1 DEF StartClnSend
<1>5. Carries(s, StartOrgSend(s))
  BY <1>1 DEF StartOrgSend
<1>6. Carries(s, CloseCln(s)) /\ Carries(s, CloseOrg(s)) /\ Carries(s, s)
  BY DEF Carries, Shape, CloseCln, CloseOrg
<1> QED
  BY <1>2, <1>3, <1>4, <1>5, <1>6 DEF ConnAct

\* An event of proxy_conn's machine.
LEMMA EventCarries ==
    ASSUME NEW s, Shape \subseteq DOMAIN s, NEW ev
    PROVE  Carries(s, ProcessEvent(s, ev))
<1> DEFINE rows == Firing(s, ev)
           m == Moved(s, rows)
<1>1. CASE rows = {}
  <2>1. ProcessEvent(s, ev) = [s EXCEPT !.bug = @ \cup {"proxy_conn"}]
    BY <1>1 DEF ProcessEvent, Fire, Failed
  <2> QED
    BY <2>1 DEF Carries, Shape
<1>2. CASE rows # {}
  <2>1. ProcessEvent(s, ev) = ConnAct(m, ActOf(rows))
    BY <1>2 DEF ProcessEvent, Fire
  <2>2. Carries(s, m)
    BY DEF Moved, Carries, Shape
  <2> HIDE DEF m, rows
  <2>3. Carries(m, ConnAct(m, ActOf(rows)))
    BY <2>2, ActCarries DEF Carries
  <2> QED
    BY <2>1, <2>2, <2>3, CarriesOn
<1> QED
  BY <1>1, <1>2

\* Reading on from an origin that isn't connected is not expected.
LEMMA RecvAborts ==
    ASSUME NEW s, Shape \subseteq DOMAIN s, s.sm = ConnInit
    PROVE  "proxy_conn" \in ProcessEvent(s, "org_recv").bug
<1>1. Firing(s, "org_recv") = {}
  <2>1. \A t \in ConnTable : t.ev = "org_recv" => t.from \notin ConnInit
    BY DEF ConnTable, OrgRecvTable, OrgRecvRows, OrgSendTable, ClnRecvTable,
       ClnSendTable, OrgEndTable, ClnEndTable, On, Do, If, IfNot, Stay, Tr, ConnInit
  <2>2. "org_recv" \in ConnEvents
    <3>1. Stay("org_recv", "org_recv") \in ConnTable
      BY DEF ConnTable, OrgRecvTable, OrgRecvRows
    <3>2. Stay("org_recv", "org_recv").ev = "org_recv"
      BY DEF Stay, On, Tr
    <3> QED
      BY <3>1, <3>2 DEF ConnEvents
  <2>3. ConnRows["org_recv"] = {t \in ConnTable : t.ev = "org_recv"}
    BY <2>2 DEF ConnRows
  <2> QED
    BY <2>1, <2>3 DEF Firing
<1>2. ProcessEvent(s, "org_recv") = [s EXCEPT !.bug = @ \cup {"proxy_conn"}]
  BY <1>1 DEF ProcessEvent, Fire, Failed
<1> QED
  BY <1>2 DEF Shape

\* So a tunnel that starts before the connection is accepted aborts.
LEMMA TunnelAborts ==
    ASSUME NEW s, Shape \subseteq DOMAIN s, s.sm = ConnInit
    PROVE  LET t == StartBlindTunnel(s) IN
           /\ DOMAIN t = DOMAIN s /\ "proxy_conn" \in t.bug /\ t.tunnel = TRUE
           /\ t.bp_fails = s.bp_fails /\ t.origin_recv = s.origin_recv
<1> DEFINE a == [s EXCEPT !.origin_pending = ClnAvail(s),
                          !.client_pending = OrgAvail(s),
                          !.tunnel = TRUE]
           b == ProcessEvent(a, "org_recv")
           c == ProcessEvent(b, "org_send")
           t == StartBlindTunnel(s)
<1>1. /\ DOMAIN a = DOMAIN s /\ a.sm = ConnInit /\ a.tunnel = TRUE
      /\ a.bp_fails = s.bp_fails /\ a.origin_recv = s.origin_recv
  BY DEF Shape
<1> HIDE DEF a
<1>2. TunnelOrg(a) = c
  <2>1. ~HasOrgErr(a) /\ ~IsOrgStrmPaused(a)
    BY <1>1 DEF HasOrgErr, IsOrgStrmPaused, ConnInit
  <2> QED
    BY <2>1 DEF TunnelOrg, ProcessEvents
<1>3. "proxy_conn" \in b.bug /\ Carries(a, b)
  BY <1>1, RecvAborts, EventCarries
<1> HIDE DEF b
<1>4. Carries(b, c)
  BY <1>1, <1>3, EventCarries DEF Carries
<1> HIDE DEF c
<1>5. Carries(c, TunnelCln(c))
  <2>1. Shape \subseteq DOMAIN c
    BY <1>1, <1>3, <1>4 DEF Carries
  <2>2. CASE HasClnErr(c)
    BY <2>1, <2>2, EventCarries DEF TunnelCln
  <2>3. CASE ~HasClnErr(c)
    <3> DEFINE d == ProcessEvent(c, "cln_recv")
    <3>1. TunnelCln(c) = ProcessEvent(d, "cln_send")
      BY <2>3 DEF TunnelCln, ProcessEvents
    <3>2. Carries(c, d)
      BY <2>1, EventCarries
    <3> HIDE DEF d
    <3>3. Carries(d, ProcessEvent(d, "cln_send"))
      BY <2>1, <3>2, EventCarries DEF Carries
    <3> QED
      BY <3>1, <3>2, <3>3, CarriesOn
  <2> QED
    BY <2>2, <2>3
<1>6. t = TunnelCln(c)
  BY <1>2 DEF StartBlindTunnel, a
<1> QED
  BY <1>1, <1>3, <1>4, <1>5, <1>6 DEF Carries

\* The handler's part of it.
LEMMA WantedTooEarly ==
    ASSUME NEW s, Shape \subseteq DOMAIN s, s.sm = ConnInit,
           s.csm = "wait_body_data", s.cache_op = "none"
    PROVE  LET t == TryBlindTunnel(s) IN
           /\ DOMAIN t = DOMAIN s /\ "proxy_conn" \in t.bug /\ t.tunnel = TRUE
           /\ t.bp_fails = s.bp_fails /\ t.origin_recv = s.origin_recv
           /\ t.wrote = <<>>
           /\ t.csm = "cache_closed"
<1> DEFINE b == StartBlindTunnel(s)
           u == [b EXCEPT !.flags = {}, !.trans = <<>>, !.client_rdr = 0,
                          !.origin_rdr = 0, !.org_cache_rdr = 0, !.handle = "none",
                          !.writing = 0, !.wrote = <<>>]
           t == TryBlindTunnel(s)
<1>1. t = [HandlerActs(s, <<"start_blind_tunnel">>) EXCEPT !.csm = "cache_closed"]
  BY TunnelStarts, TakeRow DEF TryBlindTunnel
<1>2. HandlerActs(s, <<"start_blind_tunnel">>) = DoStartBlindTunnel(s)
  BY ActOne, ActIs
<1>3. DoStartBlindTunnel(s) = u
  BY DEF DoStartBlindTunnel, Check
<1>4. /\ DOMAIN b = DOMAIN s /\ "proxy_conn" \in b.bug /\ b.tunnel = TRUE
      /\ b.bp_fails = s.bp_fails /\ b.origin_recv = s.origin_recv
  BY TunnelAborts
<1> HIDE DEF b
<1>5. /\ DOMAIN u = DOMAIN s /\ "proxy_conn" \in u.bug /\ u.tunnel = TRUE
      /\ u.bp_fails = s.bp_fails /\ u.origin_recv = s.origin_recv
      /\ u.wrote = <<>>
  BY <1>4 DEF Shape
<1> HIDE DEF u
<1>6. t = [u EXCEPT !.csm = "cache_closed"]
  BY <1>1, <1>2, <1>3
<1> HIDE DEF t
<1> QED
  BY <1>5, <1>6 DEF Shape, t

\* It has not been accepted, or has aborted.
NoEntry ==
    /\ "add" \in conn.bp_fails
    /\ \/ Init
       \/ /\ "proxy_conn" \in conn.bug
          /\ conn.tunnel /\ conn.origin_recv = <<>> /\ conn.wrote = <<>>
          /\ conn.csm = "cache_closed"

\* Its accept.
LEMMA AcceptAborts ==
    ASSUME NoEntry, Init, Accept
    PROVE  NoEntry'
<1> DEFINE a == TryBlindTunnel(conn)
           b == ProcessEvent(a, "org_connect")
           t == [b EXCEPT !.ops["connect"] = "live"]
<1>1. /\ Shape \subseteq DOMAIN conn /\ conn.sm = ConnInit /\ conn.bug = {}
      /\ conn.csm = "wait_body_data" /\ conn.cache_op = "none"
      /\ conn.origin_recv = <<>>
  BY DEF Init, Shape
<1>2. OnOriginPreConnect(conn) = a
  BY DEF OnOriginPreConnect, NoEntry
<1>3. conn' = t
  <2>1. Becomes([ProcessEvent(OnOriginPreConnect(conn), "org_connect") EXCEPT
                    !.ops["connect"] = "live"])
    BY DEF Accept
  <2> QED
    BY <1>2, <2>1 DEF Becomes
<1>4. /\ DOMAIN a = DOMAIN conn /\ "proxy_conn" \in a.bug /\ a.tunnel = TRUE
      /\ a.bp_fails = conn.bp_fails /\ a.origin_recv = <<>>
      /\ a.wrote = <<>> /\ a.csm = "cache_closed"
  BY <1>1, WantedTooEarly DEF Shape
<1> HIDE DEF a
<1>5. Carries(a, b)
  BY <1>1, <1>4, EventCarries
<1> HIDE DEF b
<1>6. /\ "proxy_conn" \in t.bug /\ t.tunnel = TRUE /\ t.bp_fails = conn.bp_fails
      /\ t.origin_recv = <<>> /\ t.wrote = <<>> /\ t.csm = "cache_closed"
  BY <1>1, <1>4, <1>5 DEF Carries, Shape
<1> HIDE DEF t
<1> QED
  BY <1>3, <1>6 DEF NoEntry

\* Nothing else happens to it.
LEMMA NoEntryStays ==
    ASSUME NoEntry, [Next]_vars
    PROVE  NoEntry'
<1>1. CASE UNCHANGED vars
  BY <1>1 DEF vars, NoEntry, Init
<1>2. CASE Next /\ conn.bug # {}
  <2>1. ASSUME NEW s PROVE ~Becomes(s)
    BY <1>2 DEF Becomes
  <2>2. ~Accept /\ ~Connected /\ ~ConnectFails /\ ~ClnRecvData /\ ~ClnRecvEof
    BY <2>1 DEF Accept, Connected, ConnectFails, ClnRecvData, ClnRecvEof
  <2>3. ~ClnRecvErr /\ ~ClnSendErr /\ ~ClnSent /\ ~OrgRecvErr /\ ~OrgSendErr /\ ~OrgSent
    BY <2>1 DEF ClnRecvErr, ClnSendErr, ClnBroken, ClnSent, OrgRecvErr, OrgSendErr,
       OrgBroken, OrgSent
  <2>4. ~ClnRecvAborted /\ ~ClnSendAborted /\ ~OrgRecvAborted /\ ~OrgSendAborted
    BY <2>1 DEF ClnRecvAborted, ClnSendAborted, OrgRecvAborted, OrgSendAborted, Aborted
  <2>5. ~OrgRecvData /\ ~OrgRecvEof /\ ~CacheRecv /\ ~CheckHalfClosed
    BY <2>1 DEF OrgRecvData, OrgRecvEof, CacheRecv, CheckHalfClosed
  <2>6. ~CacheAnswers
    BY <2>1 DEF CacheAnswers, OpenRdDone, CompareDone, CloseDone, OpenWrDone, WriteDone
  <2> QED
    BY <1>2, <2>2, <2>3, <2>4, <2>5, <2>6 DEF Next
<1>3. CASE Next /\ conn.bug = {}
  <2>1. Init
    BY <1>3 DEF NoEntry
  <2>2. /\ conn.ops = [op \in Ops |-> "none"] /\ conn.cache_op = "none"
        /\ conn.half_closed = FALSE
    BY <2>1 DEF Init
  <2>3. \A op \in Ops : conn.ops[op] = "none"
    BY <2>2
  <2>4. /\ conn.ops["connect"] = "none" /\ conn.ops["org_recv"] = "none"
        /\ conn.ops["org_send"] = "none" /\ conn.ops["cln_recv"] = "none"
        /\ conn.ops["cln_send"] = "none"
    BY <2>3 DEF Ops
  <2>5. ~Connected /\ ~ConnectFails /\ ~ClnRecvData /\ ~ClnRecvEof /\ ~ClnSent
    BY <2>4 DEF Connected, ConnectFails, ClnRecvData, ClnRecvEof, ClnSent
  <2>6. ~ClnRecvErr /\ ~ClnSendErr /\ ~OrgRecvErr /\ ~OrgSendErr /\ ~OrgSent
    BY <2>4 DEF ClnRecvErr, ClnSendErr, ClnBroken, OrgRecvErr, OrgSendErr,
       OrgBroken, OrgSent
  <2>7. ~ClnRecvAborted /\ ~ClnSendAborted /\ ~OrgRecvAborted /\ ~OrgSendAborted
    BY <2>4 DEF ClnRecvAborted, ClnSendAborted, OrgRecvAborted, OrgSendAborted, Aborted
  <2>8. ~OrgRecvData /\ ~OrgRecvEof /\ ~CacheRecv /\ ~CheckHalfClosed
    BY <2>2, <2>4 DEF OrgRecvData, OrgRecvEof, CacheRecv, CheckHalfClosed
  <2>9. ~CacheAnswers
    BY <2>2 DEF CacheAnswers, OpenRdDone, CompareDone, CloseDone, OpenWrDone, WriteDone
  <2>10. Accept
    BY <1>3, <2>5, <2>6, <2>7, <2>8, <2>9 DEF Next
  <2> QED
    BY <2>1, <2>10, AcceptAborts
<1> QED
  BY <1>1, <1>2, <1>3

-----------------------------------------------------------------------------
(* The invariant holds, and what follows from it.                          *)

\* The states of the machine at the start.
LEMMA StartSm ==
    Sm(ConnInit) /\ ConnInit \in SUBSET States
<1>1. In(ConnInit, ORecv, "org_recv_start")
  BY DEF In, ConnInit, ORecv
<1>2. In(ConnInit, OSend, "org_send_start")
  BY DEF In, ConnInit, OSend
<1>3. In(ConnInit, CRecv, "cln_recv_idle")
  BY DEF In, ConnInit, CRecv
<1>4. In(ConnInit, CSend, "cln_send_idle")
  BY DEF In, ConnInit, CSend
<1>5. In(ConnInit, OEnd, "org_wait_end")
  BY DEF In, ConnInit, OEnd
<1>6. In(ConnInit, CEnd, "cln_wait_end")
  BY DEF In, ConnInit, CEnd
<1>7. Sm(ConnInit)
  BY <1>1, <1>2, <1>3, <1>4, <1>5, <1>6 DEF Sm, One, In
<1>8. ConnInit \in SUBSET States
  BY DEF ConnInit, States, ORecv, OSend, CRecv, CSend, OEnd, CEnd
<1> QED
  BY <1>7, <1>8

\* A connection whose back pressure entry can be added starts good.
LEMMA StartOk ==
    ASSUME Init, "add" \notin conn.bp_fails
    PROVE  IInv
<1> DEFINE ops == [op \in Ops |-> "none"]
           empty == <<>>
           sm == ConnInit
<1>1. PICK w \in Worlds :
        conn = [ cln_script |-> w.cln, org_script |-> w.org,
                 bp_fails |-> w.bp_fails,
                 sm |-> sm, strm |-> "sock",
                 org_open |-> TRUE, cln_open |-> TRUE,
                 ops |-> ops,
                 client_recv |-> 0, origin_recv |-> empty,
                 client_rbuf_rdr |-> 0, client_rdr |-> 0,
                 origin_rbuf_rdr |-> 0, origin_rdr |-> 0, org_cache_rdr |-> 0,
                 client_pending |-> 0, origin_pending |-> 0,
                 cln_sending |-> 0, org_sending |-> 0,
                 cln_room |-> 0, org_room |-> 0,
                 tunnel |-> FALSE, half_closed |-> FALSE, moved |-> FALSE,
                 csm |-> "wait_body_data", cache_op |-> "none",
                 handle |-> "none", flags |-> {}, trans |-> empty,
                 obj_at |-> 0, obj_len |-> 0, cache_offs |-> 0,
                 writing |-> 0, wrote |-> empty, bug |-> {} ]
  BY DEF Init
<1>2. /\ w.cln \in Seq({"req", "part", "bad"})
      /\ w.org \in Seq(DOMAIN Hdrs \cup {"part", "body", "bad"})
      /\ w.bp_fails \in SUBSET {"len"}
  BY <1>1, WorldsAssumption
<1>3. /\ ops \in [Ops -> {"none", "live", "dead"}] /\ \A o \in Ops : ops[o] = "none"
      /\ sm \in SUBSET States
      /\ empty \in Seq(Nat) /\ empty \in Seq(Trans) /\ Len(empty) = 0
      /\ DOMAIN empty = {}
  BY StartSm
<1>4. "wait_body_data" \in Csms /\ "none" \in CacheOps
  BY DEF Csms, CacheOps
<1> HIDE DEF ops, sm
<1>5. /\ conn.sm = sm /\ conn.strm = "sock" /\ conn.ops = ops
      /\ conn.origin_recv = empty /\ conn.client_recv = 0 /\ conn.client_rdr = 0
      /\ conn.origin_rdr = 0 /\ conn.csm = "wait_body_data"
      /\ conn.cache_op = "none" /\ conn.flags = {} /\ conn.trans = empty
      /\ conn.wrote = empty /\ conn.bug = {} /\ ~conn.tunnel
      /\ conn.cln_script = w.cln /\ conn.handle = "none"
      /\ conn.client_rbuf_rdr = 0 /\ conn.origin_rbuf_rdr = 0
      /\ conn.client_pending = 0 /\ conn.origin_pending = 0
      /\ conn.org_cache_rdr = 0
  BY <1>1
<1>6. conn \in Conns
  <2> HIDE DEF empty
  <2> QED
    BY <1>1, <1>2, <1>3, <1>4 DEF Conns
<1>7. Mach(conn)
  <2>1. OpsOk(conn)
    BY <1>3, <1>5 DEF OpsOk, Ops
  <2>2. Counts(conn)
    BY <1>3, <1>5 DEF Counts
  <2> QED
    BY <1>5, <1>6, <2>1, <2>2, StartSm DEF Mach, sm
<1>8. /\ "org_recv_start" \in sm /\ "org_send_start" \in sm
      /\ "cln_recv_idle" \in sm /\ "cln_send_idle" \in sm
      /\ "org_recv_conn" \notin sm /\ "org_send_conn" \notin sm
      /\ "org_recv_paused" \notin sm /\ ~ShutC(sm) /\ ~ShutO(sm)
  BY DEF sm, ConnInit, ShutC, ShutO
<1>9. Steps(conn)
  BY <1>5, <1>8 DEF Steps
<1>10. Served(conn)
  BY <1>5 DEF Served
<1>11. OpFits(conn) /\ Paused(conn) /\ Cached(conn) /\ Asked(conn)
  BY <1>5, <1>8 DEF OpFits, Paused, Cached, Asked, Deciding, Caching, Waiting
<1>12. Place(conn)
  <2>1. Len(w.cln) \in Nat
    BY <1>2
  <2> QED
    BY <1>3, <1>5, <2>1 DEF Place
<1>13. Bytes(conn)
  BY <1>3, <1>5 DEF Bytes, Wrote, Waiting
<1>14. Entry(conn) /\ Waits(conn)
  BY <1>3, <1>5, <1>8 DEF Entry, Waits, Deciding, Waiting
<1>15. Ledger(conn)
  <2>1. Later(empty) = 0
    BY <1>3, LaterIs DEF Later
  <2> HIDE DEF empty
  <2> QED
    BY <1>3, <1>5, <2>1 DEF Ledger, ToOrigin, ToClient
<1>16. Good(conn)
  BY <1>5, <1>7, <1>9, <1>10, <1>11, <1>12, <1>13, <1>14, <1>15 DEF Good, Hand
<1> QED
  BY <1>3, <1>5, <1>16 DEF IInv, Intact

\* Every step keeps the invariant.
LEMMA StepOk ==
    ASSUME IInv, [Next]_vars
    PROVE  IInv'
<1>1. CASE UNCHANGED vars
  BY <1>1 DEF vars, IInv
<1>2. CASE Accept
  BY <1>2, StepAccept
<1>3. CASE Connected
  BY <1>3, StepConnected
<1>4. CASE ClnRecvData
  BY <1>4, StepClnRecvData
<1>5. CASE ClnRecvEof
  BY <1>5, StepClnRecvEof
<1>6. CASE ClnRecvErr \/ ClnSendErr
  BY <1>6, StepClnBroken
<1>7. CASE \/ ConnectFails \/ ClnRecvAborted \/ ClnSendAborted
           \/ OrgRecvAborted \/ OrgSendAborted
  BY <1>7, StepAborted
<1>8. CASE ClnSent
  BY <1>8, StepClnSent
<1>9. CASE OrgRecvData
  BY <1>9, StepOrgRecvData
<1>10. CASE OrgRecvEof
  BY <1>10, StepOrgRecvEof
<1>11. CASE CacheRecv
  BY <1>11, StepCacheRecv
<1>12. CASE OrgRecvErr \/ OrgSendErr
  BY <1>12, StepOrgBroken
<1>13. CASE OrgSent
  BY <1>13, StepOrgSent
<1>14. CASE CheckHalfClosed
  BY <1>14, StepCheckHalfClosed
<1>15. CASE OpenRdDone
  BY <1>15, StepOpenRdDone
<1>16. CASE CompareDone
  BY <1>16, StepCompareDone
<1>17. CASE CloseDone
  BY <1>17, StepCloseDone
<1>18. CASE OpenWrDone
  BY <1>18, StepOpenWrDone
<1>19. CASE WriteDone
  BY <1>19, StepWriteDone
<1> QED
  BY <1>1, <1>2, <1>3, <1>4, <1>5, <1>6, <1>7, <1>8, <1>9, <1>10, <1>11, <1>12,
     <1>13, <1>14, <1>15, <1>16, <1>17, <1>18, <1>19 DEF Next, CacheAnswers

\* Arithmetic of an object that has been written.
LEMMA IdleWhole ==
    ASSUME NEW at \in Int, NEW w \in Int, NEW b \in Int, NEW o \in Int,
           o = at - 1 + w, at + b - 1 = o
    PROVE  w = b
  OBVIOUS

\* A machine with one state in each of its six regions has six states.
LEMMA SixStates ==
    ASSUME NEW sm \in SUBSET States, Sm(sm)
    PROVE  Cardinality(sm) = 6
<1>1. PICK a \in ORecv, b \in OSend, c \in CRecv, d \in CSend, e \in OEnd, f \in CEnd :
        /\ In(sm, ORecv, a) /\ In(sm, OSend, b) /\ In(sm, CRecv, c)
        /\ In(sm, CSend, d) /\ In(sm, OEnd, e) /\ In(sm, CEnd, f)
  BY DEF Sm, One
<1>2. \A x : x \in sm <=> x \in {a, b, c, d, e, f}
  BY <1>1, Zenon DEF In, States
<1>3. sm = ((((({a} \cup {b}) \cup {c}) \cup {d}) \cup {e}) \cup {f})
  BY <1>2
<1>4. a # b /\ a # c /\ a # d /\ a # e /\ a # f
  BY DEF ORecv, OSend, CRecv, CSend, OEnd, CEnd
<1>5. b # c /\ b # d /\ b # e /\ b # f
  BY DEF OSend, CRecv, CSend, OEnd, CEnd
<1>6. c # d /\ c # e /\ c # f /\ d # e /\ d # f /\ e # f
  BY DEF CRecv, CSend, OEnd, CEnd
<1> DEFINE s1 == {a}
           s2 == s1 \cup {b}
           s3 == s2 \cup {c}
           s4 == s3 \cup {d}
           s5 == s4 \cup {e}
           s6 == s5 \cup {f}
<1>7. b \notin s1 /\ c \notin s2 /\ d \notin s3 /\ e \notin s4 /\ f \notin s5
  BY <1>4, <1>5, <1>6
<1>8. sm = s6
  BY <1>3
<1>9. IsFiniteSet(s1) /\ Cardinality(s1) = 1
  BY FS_Singleton
<1> HIDE DEF s1
<1>10. IsFiniteSet(s2) /\ Cardinality(s2) = 2
  BY <1>7, <1>9, FS_AddElement
<1> HIDE DEF s2
<1>11. IsFiniteSet(s3) /\ Cardinality(s3) = 3
  BY <1>7, <1>10, FS_AddElement
<1> HIDE DEF s3
<1>12. IsFiniteSet(s4) /\ Cardinality(s4) = 4
  BY <1>7, <1>11, FS_AddElement
<1> HIDE DEF s4
<1>13. IsFiniteSet(s5) /\ Cardinality(s5) = 5
  BY <1>7, <1>12, FS_AddElement
<1> HIDE DEF s5
<1>14. Cardinality(s5 \cup {f}) = Cardinality(s5) + 1
  BY <1>7, <1>13, FS_AddElement
<1>15. Cardinality(s6) = 6
  BY <1>13, <1>14
<1> HIDE DEF s6
<1> QED
  BY <1>8, <1>15

\* The states of the two machines are those of their tables.
LEMMA TableStates ==
    States \subseteq ConnStates /\ Csms \subseteq {r.from : r \in HandlerTable}
<1>1. \A x \in ORecv : \E r \in OrgRecvTable : x \in {r.from, r.to}
  BY DEF ORecv, OrgRecvTable, OrgRecvRows, On, Do, If, IfNot, Stay, Tr
<1>2. \A x \in OSend : \E r \in OrgSendTable : x \in {r.from, r.to}
  BY DEF OSend, OrgSendTable, On, Do, If, IfNot, Stay, Tr
<1>3. \A x \in CRecv : \E r \in ClnRecvTable : x \in {r.from, r.to}
  BY DEF CRecv, ClnRecvTable, On, Do, If, IfNot, Stay, Tr
<1>4. \A x \in CSend : \E r \in ClnSendTable : x \in {r.from, r.to}
  BY DEF CSend, ClnSendTable, On, Do, If, IfNot, Stay, Tr
<1>5. \A x \in OEnd : \E r \in OrgEndTable : x \in {r.from, r.to}
  BY DEF OEnd, OrgEndTable, On, Do, If, IfNot, Stay, Tr
<1>6. \A x \in CEnd : \E r \in ClnEndTable : x \in {r.from, r.to}
  BY DEF CEnd, ClnEndTable, On, Do, If, IfNot, Stay, Tr
<1>7. States \subseteq ConnStates
  <2>1. \A x \in States : \E r \in ConnTable : x \in {r.from, r.to}
    BY <1>1, <1>2, <1>3, <1>4, <1>5, <1>6 DEF States, ConnTable
  <2> QED
    BY <2>1 DEF ConnStates
<1>8. ASSUME NEW x \in Csms
      PROVE  \E r \in HandlerTable : r.from = x
  <2>1. CASE x \in {"wait_body_data", "cache_open_rd", "cache_compare", "cache_read"}
    <3>1. \E r \in ReadTable : r.from = x
      BY <2>1 DEF ReadTable, Always, Running, Row
    <3> QED
      BY <3>1 DEF HandlerTable
  <2>2. CASE x \in {"cache_open_wr", "cache_write", "cache_idle_wr", "cache_closed"}
    <3>1. \E r \in WriteTable : r.from = x
      BY <2>2 DEF WriteTable, Always, Running, WithData, NoData, Row
    <3> QED
      BY <3>1 DEF HandlerTable
  <2> QED
    BY <2>1, <2>2 DEF Csms
<1> QED
  BY <1>7, <1>8

\* A connection that is good has the types of the code and its readers are
\* within what has been received.
LEMMA GoodTyped ==
    ASSUME IInv
    PROVE  TypeOK
<1>1. Mach(conn) /\ conn \in Conns /\ Sm(conn.sm) /\ Counts(conn)
  BY DEF IInv, Good, Mach
<1>2. /\ conn.sm \in SUBSET States /\ conn.csm \in Csms
      /\ conn.strm \in {"sock", "cache"}
      /\ conn.ops \in [Ops -> {"none", "live", "dead"}]
      /\ conn.cache_op \in CacheOps /\ conn.handle \in {"none", "rd", "wr"}
      /\ conn.flags \in SUBSET Flags
  BY <1>1 DEF Conns
<1>3. /\ conn.client_rbuf_rdr \in Int /\ conn.client_rdr \in Int
      /\ conn.client_recv \in Nat /\ conn.origin_rbuf_rdr \in Int
      /\ conn.client_pending \in Int /\ conn.origin_pending \in Int
  BY <1>1 DEF Conns
<1>4. /\ Len(conn.origin_recv) \in Nat /\ conn.org_cache_rdr \in Int
      /\ conn.origin_rdr \in Nat
  BY <1>1, ReceivedTyped
<1>5. conn.sm \subseteq ConnStates /\ Cardinality(conn.sm) = 6
  BY <1>1, <1>2, SixStates, TableStates
<1>6. conn.csm \in {r.from : r \in HandlerTable}
  BY <1>2, TableStates
<1>7. conn.client_rdr <= conn.client_recv /\ conn.origin_rdr <= Len(conn.origin_recv)
  <2>1. CASE conn.tunnel
    BY <1>3, <1>4, <2>1 DEF IInv, Good
  <2>2. CASE ~conn.tunnel
    BY <2>2 DEF IInv, Good, Hand, Place
  <2> QED
    BY <2>1, <2>2
<1>8. /\ conn.client_rbuf_rdr <= conn.client_recv
      /\ 0 <= conn.origin_rbuf_rdr /\ conn.origin_rbuf_rdr <= Len(conn.origin_recv)
      /\ 0 <= conn.org_cache_rdr /\ conn.org_cache_rdr <= Len(conn.origin_recv)
  BY <1>1, <1>3, <1>4 DEF Counts
<1>9. {conn.origin_rdr, conn.org_cache_rdr, conn.origin_rbuf_rdr}
            \subseteq 0..Len(conn.origin_recv)
  BY <1>3, <1>4, <1>7, <1>8
<1> QED
  BY <1>2, <1>5, <1>6, <1>7, <1>8, <1>9 DEF TypeOK, Flags, CacheOps

\* What the ledger of the requests says.
LEMMA LedgerSays ==
    ASSUME IInv
    PROVE  OneRequestAtATime
<1>1. CASE conn.tunnel
  BY <1>1 DEF OneRequestAtATime
<1>2. CASE ~conn.tunnel
  <2>1. Ledger(conn)
    BY <1>2 DEF IInv, Good, Hand
  <2> QED
    BY <1>2, <2>1 DEF OneRequestAtATime, Ledger, ToOrigin, Has
<1> QED
  BY <1>1, <1>2

\* What the invariant is for.
LEMMA Implied ==
    ASSUME IInv
    PROVE  /\ NoUnexpectedEvent /\ StreamIntact
           /\ PausedWhileDeciding /\ ObjectIntact
           /\ AssertsHold /\ OneRequestAtATime
<1>1. NoUnexpectedEvent
  BY DEF IInv, NoUnexpectedEvent
<1>2. StreamIntact
  BY DEF IInv, Intact, StreamIntact
<1>3. PausedWhileDeciding
  BY DEF IInv, Good, Hand, Paused, Deciding, PausedWhileDeciding,
         IsOrgStrmPaused, Has
<1>4. ObjectIntact
  <2>1. CASE conn.tunnel
    <3>1. conn.wrote = <<>> /\ conn.csm = "cache_closed"
      BY <2>1 DEF IInv, Good
    <3> QED
      BY <3>1 DEF ObjectIntact
  <2>2. CASE ~conn.tunnel
    <3>1. Mach(conn) /\ Cached(conn) /\ Place(conn) /\ Bytes(conn)
      BY <2>2 DEF IInv, Good, Hand
    <3>2. ASSUME NEW i \in DOMAIN conn.wrote
          PROVE  conn.trans # <<>> /\ conn.wrote[i] = conn.trans[1].at + i - 1
      <4>1. conn.wrote # <<>>
        BY <3>2
      <4>2. conn.trans # <<>>
        BY <3>1, <4>1 DEF Bytes, Cached
      <4> QED
        BY <3>1, <4>2 DEF Bytes, Wrote
    <3>3. ASSUME conn.csm = "cache_idle_wr"
          PROVE  Len(conn.wrote) = RespBody(conn.trans[1])
      <4>1. conn.trans # <<>> /\ conn.trans[1].at > 0
        BY <3>1, <3>3 DEF Cached, Caching
      <4>2. /\ conn.trans[1].at \in Int /\ RespBody(conn.trans[1]) \in Int
            /\ Len(conn.origin_recv) \in Int
        BY <3>1, <4>1, FirstTyped, ReceivedTyped
      <4>3. Len(conn.wrote) \in Int
        <5>1. conn.wrote \in Seq(Nat)
          BY <3>1 DEF Mach, Conns
        <5> QED
          BY <5>1
      <4>4. /\ Len(conn.origin_recv) = conn.trans[1].at - 1 + Len(conn.wrote)
            /\ conn.origin_rdr = Len(conn.origin_recv)
        BY <3>1, <3>3 DEF Bytes
      <4>5. conn.trans[1].at + RespBody(conn.trans[1]) - 1 = Len(conn.origin_recv)
        BY <3>1, <4>1, <4>4 DEF Place
      <4> QED
        BY <4>2, <4>3, <4>4, <4>5, IdleWhole
    <3> QED
      BY <3>2, <3>3 DEF ObjectIntact
  <2> QED
    BY <2>1, <2>2
<1>5. AssertsHold
  BY GoodTyped DEF IInv, AssertsHold
<1>6. OneRequestAtATime
  BY LedgerSays
<1> QED
  BY <1>1, <1>2, <1>3, <1>4, <1>5, <1>6

\* A connection without its back pressure entry: what is told of it all the same.
LEMMA NoEntryImplies ==
    ASSUME NoEntry
    PROVE  /\ "add" \in conn.bp_fails /\ (NoUnexpectedEvent <=> Init)
           /\ StreamIntact /\ PausedWhileDeciding /\ ObjectIntact
           /\ OneRequestAtATime
<1>1. CASE Init
  <2>1. /\ conn.bug = {} /\ conn.origin_recv = <<>> /\ conn.wrote = <<>>
        /\ conn.csm = "wait_body_data" /\ conn.sm = ConnInit /\ conn.flags = {}
        /\ conn.trans = <<>> /\ conn.client_rbuf_rdr = 0 /\ conn.client_rdr = 0
        /\ conn.origin_pending = 0 /\ conn.client_recv = 0
    BY <1>1 DEF Init
  <2>2. NoUnexpectedEvent
    BY <2>1 DEF NoUnexpectedEvent
  <2>3. StreamIntact /\ ObjectIntact
    BY <2>1 DEF StreamIntact, ObjectIntact
  <2>4. PausedWhileDeciding
    BY <2>1 DEF PausedWhileDeciding, IsOrgStrmPaused, ConnInit, Has
  <2>5. OneRequestAtATime
    BY <2>1 DEF OneRequestAtATime, Later, Has
  <2> QED
    BY <1>1, <2>2, <2>3, <2>4, <2>5 DEF NoEntry
<1>2. CASE ~Init
  <2>1. /\ "proxy_conn" \in conn.bug /\ conn.tunnel /\ conn.origin_recv = <<>>
        /\ conn.wrote = <<>> /\ conn.csm = "cache_closed"
    BY <1>2 DEF NoEntry
  <2>2. ~NoUnexpectedEvent
    BY <2>1 DEF NoUnexpectedEvent
  <2>3. StreamIntact /\ PausedWhileDeciding /\ ObjectIntact /\ OneRequestAtATime
    BY <2>1 DEF StreamIntact, PausedWhileDeciding, ObjectIntact, OneRequestAtATime
  <2> QED
    BY <1>2, <2>2, <2>3 DEF NoEntry
<1> QED
  BY <1>1, <1>2

\* What holds of every connection.
LEMMA AllImplied ==
    ASSUME IInv \/ NoEntry
    PROVE  /\ NoUnexpectedEvent <=> ("add" \notin conn.bp_fails \/ Init)
           /\ "add" \notin conn.bp_fails => AssertsHold
           /\ StreamIntact /\ PausedWhileDeciding /\ ObjectIntact
           /\ OneRequestAtATime
<1>1. CASE IInv
  <2>1. "add" \notin conn.bp_fails
    BY <1>1 DEF IInv, Good, Mach, Conns
  <2> QED
    BY <1>1, <2>1, Implied
<1>2. CASE NoEntry
  BY <1>2, NoEntryImplies
<1> QED
  BY <1>1, <1>2

\* Whatever the client, the origin, the sockets and the cache do, and in whatever
\* order, the machine has one state in each of its regions, an operation that
\* runs has its state, and while http_handler deals with a response the bytes it
\* has, those it has asked the cache for and those it has written are parts of
\* one stream that fit, and what it passes on and holds back of the client's add
\* up to what it has read; no assertion has failed.  The exception is a connection
\* whose back pressure entry can't be added (NoEntry).
THEOREM ConnInvariance == Spec => [](IInv \/ NoEntry)
<1>1. Init => IInv \/ NoEntry
  BY StartOk DEF NoEntry
<1>2. (IInv \/ NoEntry) /\ [Next]_vars => IInv' \/ NoEntry'
  BY StepOk, NoEntryStays
<1> QED
  BY <1>1, <1>2, PTL DEF Spec

\* proxy_conn and http_handler abort on an event that has no transition in one
\* case, and do abort in it: when the back pressure entry can't be added, at the
\* connection's accept (as long as Init holds it has not been accepted).  On every
\* other connection each event comes in a state that has a transition for it.
THEOREM EventsAlwaysExpected ==
    Spec => [](NoUnexpectedEvent <=> ("add" \notin conn.bp_fails \/ Init))
<1>1. IInv \/ NoEntry => (NoUnexpectedEvent <=> ("add" \notin conn.bp_fails \/ Init))
  BY AllImplied
<1> QED
  BY <1>1, ConnInvariance, PTL

\* What was received from the origin, from its socket and then from the cache, are
\* the bytes of its stream in their order, none lost and none twice:
\* switch_org_stream goes on where the socket stopped.
THEOREM StreamAlwaysIntact == Spec => []StreamIntact
<1>1. IInv \/ NoEntry => StreamIntact
  BY AllImplied
<1> QED
  BY <1>1, ConnInvariance, PTL

\* The origin isn't read while the cache is asked what it has.
THEOREM AlwaysPausedWhileDeciding == Spec => []PausedWhileDeciding
<1>1. IInv \/ NoEntry => PausedWhileDeciding
  BY AllImplied
<1> QED
  BY <1>1, ConnInvariance, PTL

\* What is written to the cache is the body of the response from its first byte,
\* and all of it when the transaction ends in cache_idle_wr.
THEOREM ObjectAlwaysIntact == Spec => []ObjectIntact
<1>1. IInv \/ NoEntry => ObjectIntact
  BY AllImplied
<1> QED
  BY <1>1, ConnInvariance, PTL

\* No assertion of proxy_conn, http_handler and async_stream fails: no operation is
\* started twice, the bytes to send and to write are there, the cache has the
\* handle and the key it is used with, the transaction that ends is completed, a
\* connection isn't destroyed with an operation.  The machines have one state in
\* each region, and the readers stay within what was received.  Nothing is said of
\* a connection whose back pressure entry can't be added: it aborts at its accept.
THEOREM AssertsAlwaysHold ==
    Spec => []("add" \notin conn.bp_fails => AssertsHold)
<1>1. IInv \/ NoEntry => ("add" \notin conn.bp_fails => AssertsHold)
  BY AllImplied
<1> QED
  BY <1>1, ConnInvariance, PTL

\* Nothing of a request is sent to the origin before the response to the one
\* before it has been dealt with: the bytes of the later requests are held back
\* among those that were received, until the connection becomes a tunnel.
THEOREM OneRequestAlways == Spec => []OneRequestAtATime
<1>1. IInv \/ NoEntry => OneRequestAtATime
  BY AllImplied
<1> QED
  BY <1>1, ConnInvariance, PTL
=============================================================================
