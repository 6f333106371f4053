---------------------------- MODULE OpencodeProofs ----------------------------
(* The scans of OpenCode's databases, as the part "opencode" of MCParts: a chat    *)
(* is captured in order and no part of it is forgotten, for any ids, chats that    *)
(* grow while they are read, pages of any size, failures, restarts and handovers   *)
(* between the two formats.  The parse of a page is a recursive function over the  *)
(* rows, and what it computes is induction on their number (UpwardInduction of     *)
(* SetLemmas).                                                                     *)
EXTENDS MCParts, Integers, Sequences, FiniteSets, FiniteSetTheorems, SetLemmas, TLAPS

------------------------------------------------------------------------------
\* A parse of the rows of a chat (Opencode), row by row, that skips none.
Rows    == {"user", "ask", "idle", "v1user", "v1reply"}
Ends    == [from : Nat, upto : Nat, dropped : BOOLEAN]
Unread  == [from |-> 0, asked |-> FALSE, skipping |-> FALSE, skipped |-> 0, ready |-> <<>>]
ReadTo(r, a, n) == O!Parse(r, a, n, FALSE)

PassOf(p, r, a, n) == p = [i \in a..n |-> IF i = a THEN Unread ELSE O!Cut(p[i - 1], r, i)]

LEMMA PassIsChosen ==
    ASSUME NEW r, NEW a, NEW n
    PROVE  ReadTo(r, a, n) = (CHOOSE p : PassOf(p, r, a, n))[n]
BY DEF ReadTo, O!Parse, PassOf, Unread

LEMMA PassesAgree ==
    ASSUME NEW r, NEW a \in Nat, NEW m \in Nat, NEW n \in Nat, m <= n,
           NEW p, PassOf(p, r, a, m), NEW q, PassOf(q, r, a, n)
    PROVE  \A i \in a..m : p[i] = q[i]
<1> DEFINE Good == {k \in Nat : a + k <= m => p[a + k] = q[a + k]}
<1>1. 0 \in Good
  BY DEF PassOf
<1>2. ASSUME NEW k \in Nat, k \in Good
      PROVE  k + 1 \in Good
  <2> SUFFICES ASSUME a + (k + 1) <= m
               PROVE  p[a + (k + 1)] = q[a + (k + 1)]
    OBVIOUS
  <2> DEFINE i == a + (k + 1)
  <2>1. i - 1 = a + k /\ i \in a..m /\ i \in a..n /\ i # a
    OBVIOUS
  <2>2. p[a + k] = q[a + k]
    BY <1>2
  <2> HIDE DEF i
  <2>3. p[i] = O!Cut(p[i - 1], r, i) /\ q[i] = O!Cut(q[i - 1], r, i)
    BY <2>1 DEF PassOf
  <2>4. p[i] = q[i]
    BY <2>1, <2>2, <2>3
  <2> QED  BY <2>4 DEF i
<1>3. \A k \in Nat : k \in Good
  <2> HIDE DEF Good
  <2> QED  BY <1>1, <1>2, UpwardInduction
<1> SUFFICES ASSUME NEW i \in a..m PROVE p[i] = q[i]
  OBVIOUS
<1>4. i - a \in Nat /\ a + (i - a) = i
  OBVIOUS
<1> QED  BY <1>3, <1>4

LEMMA PassExists ==
    ASSUME NEW r, NEW a \in Nat
    PROVE  \A n \in Nat : \E p : PassOf(p, r, a, n)
<1> DEFINE Good == {n \in Nat : \E p : PassOf(p, r, a, n)}
<1>1. ASSUME NEW n \in Nat, n <= a
      PROVE  n \in Good
  <2>1. PassOf([i \in a..n |-> Unread], r, a, n)
    <3>1. [i \in a..n |-> Unread]
            = [i \in a..n |-> IF i = a THEN Unread
                              ELSE O!Cut([j \in a..n |-> Unread][i - 1], r, i)]
      BY <1>1
    <3> QED  BY <3>1 DEF PassOf
  <2> QED  BY <2>1
<1>2. ASSUME NEW n \in Nat, n \in Good
      PROVE  n + 1 \in Good
  <2>1. CASE n + 1 <= a
    BY <1>1, <2>1
  <2>2. CASE n + 1 > a
    <3>1. PICK p : PassOf(p, r, a, n)
      BY <1>2
    <3> DEFINE q == [i \in a..(n + 1) |-> IF i = n + 1 THEN O!Cut(p[n], r, n + 1) ELSE p[i]]
               s == [i \in a..(n + 1) |-> IF i = a THEN Unread ELSE O!Cut(q[i - 1], r, i)]
    <3>2. ASSUME NEW i \in a..(n + 1)
          PROVE  q[i] = s[i]
      <4>1. CASE i = n + 1
        <5>1. i # a /\ i - 1 = n /\ n \in a..(n + 1) /\ n # n + 1
          BY <2>2, <4>1
        <5>2. q[i - 1] = p[n]
          BY <5>1
        <5> QED  BY <4>1, <5>1, <5>2
      <4>2. CASE i # n + 1
        <5>1. i \in a..n
          BY <4>2
        <5>2. CASE i = a
          BY <3>1, <4>2, <5>1, <5>2 DEF PassOf
        <5>3. CASE i # a
          <6>1. i - 1 \in a..(n + 1) /\ i - 1 # n + 1
            BY <5>1, <5>3
          <6>2. q[i - 1] = p[i - 1]
            BY <6>1
          <6>3. p[i] = O!Cut(p[i - 1], r, i)
            BY <3>1, <5>1, <5>3 DEF PassOf
          <6> QED  BY <4>2, <5>3, <6>2, <6>3
        <5> QED  BY <5>2, <5>3
      <4> QED  BY <4>1, <4>2
    <3>3. q = s
      <4>1. q = [i \in a..(n + 1) |-> q[i]] /\ s = [i \in a..(n + 1) |-> s[i]]
        OBVIOUS
      <4> HIDE DEF q, s
      <4> QED  BY <3>2, <4>1
    <3>4. PassOf(q, r, a, n + 1)
      <4> HIDE DEF q
      <4> QED  BY <3>3 DEF PassOf
    <3> QED  BY <3>4
  <2> QED  BY <2>1, <2>2
<1>3. 0 \in Good
  BY <1>1
<1>4. \A n \in Nat : n \in Good
  <2> HIDE DEF Good
  <2> QED  BY <1>2, <1>3, UpwardInduction
<1> QED  BY <1>4

LEMMA ReadSteps ==
    ASSUME NEW r, NEW a \in Nat
    PROVE  /\ ReadTo(r, a, a) = Unread
           /\ \A n \in Nat : n >= a => ReadTo(r, a, n + 1) = O!Cut(ReadTo(r, a, n), r, n + 1)
<1>1. ReadTo(r, a, a) = Unread
  <2> DEFINE p == CHOOSE p : PassOf(p, r, a, a)
  <2>1. PassOf(p, r, a, a)
    BY PassExists
  <2> HIDE DEF p
  <2>2. p[a] = Unread
    BY <2>1 DEF PassOf
  <2> QED  BY <2>2, PassIsChosen DEF p
<1>2. ASSUME NEW n \in Nat, n >= a
      PROVE  ReadTo(r, a, n + 1) = O!Cut(ReadTo(r, a, n), r, n + 1)
  <2> DEFINE p == CHOOSE p : PassOf(p, r, a, n)
             q == CHOOSE q : PassOf(q, r, a, n + 1)
  <2>1. PassOf(p, r, a, n) /\ PassOf(q, r, a, n + 1)
    <3>1. n + 1 \in Nat
      OBVIOUS
    <3> QED  BY <3>1, PassExists
  <2>2. ReadTo(r, a, n) = p[n] /\ ReadTo(r, a, n + 1) = q[n + 1]
    BY PassIsChosen
  <2> HIDE DEF p, q
  <2>3. p[n] = q[n]
    BY <1>2, <2>1, PassesAgree
  <2>4. q[n + 1] = O!Cut(q[(n + 1) - 1], r, n + 1)
    BY <1>2, <2>1 DEF PassOf
  <2> QED  BY <2>2, <2>3, <2>4
<1> QED  BY <1>1, <1>2

\* What a parse keeps: the turns it has closed end at idle rows, in order, and at an idle
\* row none is open.
ReadStates == [from : Nat, asked : BOOLEAN, skipping : {FALSE}, skipped : {0}, ready : Seq(Ends)]

EndsWithin(x, r, a, n) ==
    \A k \in DOMAIN x : a < x[k].upto /\ x[k].upto <= n /\ r[x[k].upto] = "idle"
Ascending(x) == \A j, k \in DOMAIN x : j < k => x[j].upto < x[k].upto

ReadInv(s, r, a, n) ==
    /\ s \in ReadStates /\ EndsWithin(s.ready, r, a, n) /\ Ascending(s.ready)
    /\ n > a /\ r[n] = "idle" => s.from = 0

LEMMA ReadTypes ==
    ASSUME NEW s \in ReadStates
    PROVE  s.from \in Nat /\ s.asked \in BOOLEAN /\ s.ready \in Seq(Ends)
BY DEF ReadStates

LEMMA EndTypes ==
    ASSUME NEW x \in Seq(Ends), NEW k \in DOMAIN x
    PROVE  /\ x[k] \in Ends /\ x[k].from \in Nat /\ x[k].upto \in Nat
           /\ x[k].dropped \in BOOLEAN
<1>1. x[k] \in Ends
  OBVIOUS
<1> QED  BY <1>1 DEF Ends

\* One row more: a turn is closed, or none is.
Closes(s, u, n) ==
    /\ u.ready = Append(s.ready, [from |-> s.from, upto |-> n, dropped |-> s.asked])
    /\ s.from # 0 /\ u.from = 0
LeavesReady(s, u) == u.ready = s.ready

IsCutAt(s, u, r, n) ==
    /\ u \in ReadStates
    /\ r[n] = "idle" /\ s.from # 0 => Closes(s, u, n)
    /\ r[n] = "idle" => u.from = 0
    /\ ~(r[n] = "idle" /\ s.from # 0) => LeavesReady(s, u)
    /\ s.from = 0 => u.from = IF r[n] \in {"user", "v1user"} THEN n ELSE 0
    /\ s.from = 0 /\ r[n] \in {"user", "v1user"} => u.asked = FALSE
    /\ s.from # 0 /\ r[n] # "idle" => u.from = s.from /\ u.asked = (s.asked \/ r[n] = "ask")

LEMMA RowCut ==
    ASSUME NEW r, NEW s \in ReadStates, NEW n \in Nat
    PROVE  IsCutAt(s, O!Cut(s, r, n), r, n)
<1> DEFINE t     == [from |-> s.from, upto |-> n, dropped |-> s.asked]
           more  == IF s.from = 0 THEN s.ready ELSE Append(s.ready, t)
           begun == [s EXCEPT !.from = n, !.asked = FALSE]
           asks  == [s EXCEPT !.asked = TRUE]
           done  == [s EXCEPT !.from = 0, !.skipping = FALSE, !.skipped = 0, !.ready = more]
<1>1. /\ s.from \in Nat /\ s.asked \in BOOLEAN /\ s.skipping = FALSE /\ s.skipped = 0
      /\ s.ready \in Seq(Ends)
  BY DEF ReadStates
<1>2. t \in Ends
  BY <1>1 DEF Ends
<1>3. more \in Seq(Ends)
  <2> HIDE DEF t
  <2> QED  BY <1>1, <1>2
<1>4. O!Cut(s, r, n) = IF r[n] \in {"user", "v1user"} /\ s.from = 0 THEN begun
                       ELSE IF r[n] = "ask" THEN asks
                       ELSE IF r[n] # "idle" THEN s ELSE done
  BY <1>1 DEF O!Cut
<1> HIDE DEF more
<1>5. /\ begun \in ReadStates /\ begun.from = n /\ begun.asked = FALSE /\ begun.ready = s.ready
      /\ asks \in ReadStates /\ asks.from = s.from /\ asks.asked = TRUE /\ asks.ready = s.ready
      /\ done \in ReadStates /\ done.from = 0 /\ done.ready = more
  BY <1>1, <1>3 DEF ReadStates
<1> HIDE DEF begun, asks, done
<1> QED  BY <1>1, <1>4, <1>5 DEF IsCutAt, Closes, LeavesReady, more

LEMMA ReadKeeps ==
    ASSUME NEW r, NEW a \in Nat, NEW n \in Nat, a <= n
    PROVE  ReadInv(ReadTo(r, a, n), r, a, n)
<1> DEFINE Good == {k \in Nat : ReadInv(ReadTo(r, a, a + k), r, a, a + k)}
<1>1. 0 \in Good
  <2>1. Unread \in ReadStates
    <3>1. <<>> \in Seq(Ends)
      OBVIOUS
    <3> QED  BY <3>1 DEF ReadStates, Unread
  <2>2. ReadInv(Unread, r, a, a)
    BY <2>1 DEF ReadInv, Unread, EndsWithin, Ascending
  <2>3. a + 0 = a
    OBVIOUS
  <2> QED  BY <2>2, <2>3, ReadSteps
<1>2. ASSUME NEW k \in Nat, k \in Good
      PROVE  k + 1 \in Good
  <2> DEFINE m == a + k
             s == ReadTo(r, a, m)
             u == O!Cut(s, r, m + 1)
  <2>1. m \in Nat /\ a <= m /\ a + (k + 1) = m + 1
    OBVIOUS
  <2>2. ReadInv(s, r, a, m)
    BY <1>2
  <2> HIDE DEF m
  <2>3. ReadTo(r, a, m + 1) = u
    BY <2>1, ReadSteps
  <2> HIDE DEF s
  <2>4. /\ s \in ReadStates /\ s.ready \in Seq(Ends) /\ m + 1 \in Nat
        /\ s.from \in Nat /\ s.asked \in BOOLEAN
        /\ EndsWithin(s.ready, r, a, m) /\ Ascending(s.ready)
    BY <2>1, <2>2, ReadTypes DEF ReadInv
  <2>9. \A j \in DOMAIN s.ready : s.ready[j].upto \in Nat
    BY <2>4, EndTypes
  <2>5. IsCutAt(s, u, r, m + 1)
    BY <2>4, RowCut
  <2> HIDE DEF u
  <2>0. u \in ReadStates /\ (r[m + 1] = "idle" => u.from = 0)
    BY <2>5 DEF IsCutAt
  <2>6. ASSUME LeavesReady(s, u)
        PROVE  ReadInv(u, r, a, m + 1)
    <3>1. EndsWithin(s.ready, r, a, m + 1)
      BY <2>1, <2>4, <2>9 DEF EndsWithin
    <3> QED  BY <2>0, <2>4, <2>6, <3>1 DEF ReadInv, LeavesReady
  <2>7. ASSUME Closes(s, u, m + 1), r[m + 1] = "idle"
        PROVE  ReadInv(u, r, a, m + 1)
    <3> DEFINE t == [from |-> s.from, upto |-> m + 1, dropped |-> s.asked]
    <3>1. t \in Ends /\ t.upto = m + 1
      BY <2>4 DEF Ends
    <3>2. u.ready = Append(s.ready, t)
      BY <2>7 DEF Closes
    <3> HIDE DEF t
    <3>3. /\ DOMAIN u.ready = 1..(Len(s.ready) + 1) /\ DOMAIN s.ready = 1..Len(s.ready)
          /\ \A j \in 1..Len(s.ready) : u.ready[j] = s.ready[j]
          /\ u.ready[Len(s.ready) + 1] = t /\ Len(s.ready) \in Nat
      BY <2>4, <3>1, <3>2
    <3>4. \A j \in DOMAIN u.ready :
             /\ a < u.ready[j].upto /\ u.ready[j].upto <= m + 1 /\ r[u.ready[j].upto] = "idle"
      <4> TAKE j \in DOMAIN u.ready
      <4>1. CASE j = Len(s.ready) + 1
        BY <2>1, <2>7, <3>1, <3>3, <4>1
      <4>2. CASE j # Len(s.ready) + 1
        <5>1. j \in DOMAIN s.ready /\ u.ready[j] = s.ready[j]
          BY <3>3, <4>2
        <5> QED  BY <2>1, <2>4, <2>9, <5>1 DEF EndsWithin
      <4> QED  BY <4>1, <4>2
    <3>5. \A i, j \in DOMAIN u.ready : i < j => u.ready[i].upto < u.ready[j].upto
      <4> SUFFICES ASSUME NEW i \in DOMAIN u.ready, NEW j \in DOMAIN u.ready, i < j
                   PROVE  u.ready[i].upto < u.ready[j].upto
        OBVIOUS
      <4>1. i \in DOMAIN s.ready /\ u.ready[i] = s.ready[i]
        BY <3>3
      <4>2. CASE j = Len(s.ready) + 1
        <5>1. s.ready[i].upto <= m /\ s.ready[i].upto \in Nat
          BY <2>4, <2>9, <4>1 DEF EndsWithin
        <5> QED  BY <2>1, <3>1, <3>3, <4>1, <4>2, <5>1
      <4>3. CASE j # Len(s.ready) + 1
        <5>1. j \in DOMAIN s.ready /\ u.ready[j] = s.ready[j]
          BY <3>3, <4>3
        <5> QED  BY <2>4, <4>1, <5>1 DEF Ascending
      <4> QED  BY <4>2, <4>3
    <3>6. EndsWithin(u.ready, r, a, m + 1) /\ Ascending(u.ready)
      BY <3>4, <3>5 DEF EndsWithin, Ascending
    <3> QED  BY <2>0, <2>7, <3>6 DEF ReadInv
  <2>8. ReadInv(u, r, a, m + 1)
    <3>1. LeavesReady(s, u) \/ (Closes(s, u, m + 1) /\ r[m + 1] = "idle")
      BY <2>5 DEF IsCutAt
    <3> QED  BY <2>6, <2>7, <3>1
  <2> QED  BY <2>1, <2>3, <2>8
<1>3. \A k \in Nat : k \in Good
  <2> HIDE DEF Good
  <2> QED  BY <1>1, <1>2, UpwardInduction
<1>4. n - a \in Nat /\ a + (n - a) = n
  OBVIOUS
<1> QED  BY <1>3, <1>4

\* z is x and then y; z is x and then turns that end behind b.
Joined(x, y, z) ==
    /\ Len(z) = Len(x) + Len(y)
    /\ \A k \in DOMAIN x : z[k] = x[k]
    /\ \A k \in DOMAIN y : z[Len(x) + k] = y[k]
Grown(x, z, b) ==
    /\ Len(x) <= Len(z)
    /\ \A k \in DOMAIN x : z[k] = x[k]
    /\ \A k \in DOMAIN z : k > Len(x) => z[k].upto > b

LEMMA JoinedGrows ==
    ASSUME NEW x \in Seq(Ends), NEW y \in Seq(Ends), NEW z \in Seq(Ends), NEW t \in Ends,
           Joined(x, y, z)
    PROVE  Joined(x, Append(y, t), Append(z, t))
BY DEF Joined

LEMMA GrownGrows ==
    ASSUME NEW x \in Seq(Ends), NEW z \in Seq(Ends), NEW t \in Ends, NEW b \in Nat,
           Grown(x, z, b), t.upto > b
    PROVE  Grown(x, Append(z, t), b)
<1> DEFINE y == Append(z, t)
<1>1. Len(y) = Len(z) + 1 /\ Len(z) \in Nat /\ Len(x) \in Nat /\ Len(x) <= Len(z)
      /\ DOMAIN x = 1..Len(x) /\ DOMAIN z = 1..Len(z) /\ DOMAIN y = 1..Len(y)
  BY DEF Grown
<1>2. (\A k \in 1..Len(z) : y[k] = z[k]) /\ y[Len(z) + 1] = t
  BY <1>1
<1> HIDE DEF y
<1>3. ASSUME NEW k \in DOMAIN y, k > Len(x)
      PROVE  y[k].upto > b
  <2>1. CASE k = Len(z) + 1
    BY <1>2, <2>1
  <2>2. CASE k # Len(z) + 1
    <3>1. k \in DOMAIN z /\ y[k] = z[k]
      BY <1>1, <1>2, <2>2
    <3> QED  BY <1>3, <3>1 DEF Grown
  <2> QED  BY <2>1, <2>2
<1>4. \A k \in DOMAIN x : y[k] = x[k]
  BY <1>1, <1>2 DEF Grown
<1> QED  BY <1>1, <1>3, <1>4 DEF Grown, y

\* Behind a row where no turn is open, a parse that starts there goes on as one that started
\* earlier.
LEMMA SplitRead ==
    ASSUME NEW r, NEW a \in Nat, NEW b \in Nat, NEW n \in Nat, a <= b, b <= n,
           ReadTo(r, a, b).from = 0
    PROVE  /\ ReadTo(r, b, n).from = ReadTo(r, a, n).from
           /\ Joined(ReadTo(r, a, b).ready, ReadTo(r, b, n).ready, ReadTo(r, a, n).ready)
<1> DEFINE x == ReadTo(r, a, b).ready
           Same(s, v) == /\ v.from = s.from /\ (v.from # 0 => v.asked = s.asked)
                         /\ Joined(x, v.ready, s.ready)
           Good == {k \in Nat : Same(ReadTo(r, a, b + k), ReadTo(r, b, b + k))}
<1>1. x \in Seq(Ends)
  BY ReadKeeps DEF ReadInv, ReadStates
<1>2. 0 \in Good
  <2>1. ReadTo(r, b, b) = Unread /\ b + 0 = b
    BY ReadSteps
  <2>2. Joined(x, Unread.ready, x) /\ Unread.from = 0
    BY <1>1 DEF Joined, Unread
  <2> QED  BY <2>1, <2>2
<1>3. ASSUME NEW k \in Nat, k \in Good
      PROVE  k + 1 \in Good
  <2> DEFINE m == b + k
             s == ReadTo(r, a, m)
             v == ReadTo(r, b, m)
             s1 == O!Cut(s, r, m + 1)
             w1 == O!Cut(v, r, m + 1)
  <2>1. m \in Nat /\ a <= m /\ b <= m /\ b + (k + 1) = m + 1 /\ m + 1 \in Nat
    OBVIOUS
  <2>2. Same(s, v)
    BY <1>3
  <2>3. ReadTo(r, a, m + 1) = s1 /\ ReadTo(r, b, m + 1) = w1
    <3> HIDE DEF m
    <3> QED  BY <2>1, ReadSteps
  <2>4. s \in ReadStates /\ v \in ReadStates
    <3> HIDE DEF m
    <3> QED  BY <2>1, ReadKeeps DEF ReadInv
  <2> HIDE DEF m, s, v, x
  <2>5. IsCutAt(s, s1, r, m + 1)
    BY <2>1, <2>4, RowCut
  <2>6. IsCutAt(v, w1, r, m + 1)
    BY <2>1, <2>4, RowCut
  <2> HIDE DEF s1, w1
  <2>7. Joined(x, w1.ready, s1.ready)
    <3>1. CASE r[m + 1] = "idle" /\ s.from # 0
      <4> DEFINE t == [from |-> s.from, upto |-> m + 1, dropped |-> s.asked]
      <4>1. t \in Ends /\ s.ready \in Seq(Ends) /\ v.ready \in Seq(Ends)
        BY <2>1, <2>4 DEF ReadStates, Ends
      <4>2. s1.ready = Append(s.ready, t) /\ w1.ready = Append(v.ready, t)
        BY <2>2, <2>5, <2>6, <3>1 DEF Closes, IsCutAt
      <4> HIDE DEF t
      <4> QED  BY <1>1, <2>2, <4>1, <4>2, JoinedGrows
    <3>2. CASE ~(r[m + 1] = "idle" /\ s.from # 0)
      BY <2>2, <2>5, <2>6, <3>2 DEF LeavesReady, IsCutAt
    <3> QED  BY <3>1, <3>2
  <2>8. w1.from = s1.from /\ (w1.from # 0 => w1.asked = s1.asked)
    BY <2>2, <2>5, <2>6 DEF IsCutAt
  <2> QED  BY <2>1, <2>3, <2>7, <2>8
<1>4. \A k \in Nat : k \in Good
  <2> HIDE DEF Good
  <2> QED  BY <1>2, <1>3, UpwardInduction
<1>5. n - b \in Nat /\ b + (n - b) = n
  OBVIOUS
<1> HIDE DEF x
<1> QED  BY <1>4, <1>5 DEF x

\* A parse that goes on keeps the turns it has closed.
LEMMA GrowRead ==
    ASSUME NEW r, NEW a \in Nat, NEW b \in Nat, NEW n \in Nat, a <= b, b <= n
    PROVE  Grown(ReadTo(r, a, b).ready, ReadTo(r, a, n).ready, b)
<1> DEFINE x == ReadTo(r, a, b).ready
           Good == {k \in Nat : Grown(x, ReadTo(r, a, b + k).ready, b)}
<1>1. x \in Seq(Ends)
  BY ReadKeeps DEF ReadInv, ReadStates
<1>2. 0 \in Good
  <2>1. b + 0 = b
    OBVIOUS
  <2>2. Grown(x, x, b)
    <3> HIDE DEF x
    <3> QED  BY <1>1 DEF Grown
  <2> QED  BY <2>1, <2>2
<1>3. ASSUME NEW k \in Nat, k \in Good
      PROVE  k + 1 \in Good
  <2> DEFINE m == b + k
             s == ReadTo(r, a, m)
             u == O!Cut(s, r, m + 1)
  <2>1. m \in Nat /\ a <= m /\ b + (k + 1) = m + 1 /\ m + 1 \in Nat /\ m + 1 > b
    OBVIOUS
  <2>2. Grown(x, s.ready, b)
    BY <1>3
  <2>3. ReadTo(r, a, m + 1) = u
    <3> HIDE DEF m
    <3> QED  BY <2>1, ReadSteps
  <2>4. s \in ReadStates
    <3> HIDE DEF m
    <3> QED  BY <2>1, ReadKeeps DEF ReadInv
  <2> HIDE DEF m, s, x
  <2>5. Closes(s, u, m + 1) \/ LeavesReady(s, u)
    BY <2>1, <2>4, RowCut DEF IsCutAt
  <2> HIDE DEF u
  <2>6. Grown(x, u.ready, b)
    <3>1. CASE Closes(s, u, m + 1)
      <4> DEFINE t == [from |-> s.from, upto |-> m + 1, dropped |-> s.asked]
      <4>1. t \in Ends /\ t.upto = m + 1 /\ s.ready \in Seq(Ends)
        BY <2>1, <2>4 DEF ReadStates, Ends
      <4>2. u.ready = Append(s.ready, t)
        BY <3>1 DEF Closes
      <4> HIDE DEF t
      <4> QED  BY <1>1, <2>1, <2>2, <4>1, <4>2, GrownGrows
    <3>2. CASE LeavesReady(s, u)
      BY <2>2, <3>2 DEF LeavesReady
    <3> QED  BY <2>5, <3>1, <3>2
  <2> QED  BY <2>1, <2>3, <2>6
<1>4. \A k \in Nat : k \in Good
  <2> HIDE DEF Good
  <2> QED  BY <1>2, <1>3, UpwardInduction
<1>5. n - b \in Nat /\ b + (n - b) = n
  OBVIOUS
<1> QED  BY <1>4, <1>5

\* A parse reads the rows behind its start and no others.
LEMMA SameRead ==
    ASSUME NEW r, NEW q, NEW a \in Nat, NEW n \in Nat, a <= n,
           \A i \in (a + 1)..n : r[i] = q[i]
    PROVE  ReadTo(r, a, n) = ReadTo(q, a, n)
<1> DEFINE Good == {k \in Nat : a + k <= n => ReadTo(r, a, a + k) = ReadTo(q, a, a + k)}
<1>1. 0 \in Good
  <2>1. a + 0 = a
    OBVIOUS
  <2> QED  BY <2>1, ReadSteps
<1>2. ASSUME NEW k \in Nat, k \in Good
      PROVE  k + 1 \in Good
  <2> SUFFICES ASSUME a + (k + 1) <= n
               PROVE  ReadTo(r, a, a + (k + 1)) = ReadTo(q, a, a + (k + 1))
    OBVIOUS
  <2> DEFINE m == a + k
             s == ReadTo(r, a, m)
  <2>1. m \in Nat /\ a <= m /\ a + (k + 1) = m + 1 /\ m + 1 \in (a + 1)..n
    OBVIOUS
  <2>2. s = ReadTo(q, a, m)
    BY <1>2
  <2> HIDE DEF m
  <2>3. /\ ReadTo(r, a, m + 1) = O!Cut(s, r, m + 1)
        /\ ReadTo(q, a, m + 1) = O!Cut(ReadTo(q, a, m), q, m + 1)
    BY <2>1, ReadSteps
  <2> HIDE DEF s
  <2>4. r[m + 1] = q[m + 1]
    BY <2>1
  <2>5. O!Cut(s, r, m + 1) = O!Cut(s, q, m + 1)
    BY <2>4 DEF O!Cut
  <2> QED  BY <2>1, <2>2, <2>3, <2>5
<1>3. \A k \in Nat : k \in Good
  <2> HIDE DEF Good
  <2> QED  BY <1>1, <1>2, UpwardInduction
<1>4. n - a \in Nat /\ a + (n - a) = n
  OBVIOUS
<1> QED  BY <1>3, <1>4

\* Where the new rows of a chat begin, the turns closed behind that, and whether they all fit
\* into a page, of the rows r.
NewFrom(c, r)  == IF c \in Natives THEN 0
                  ELSE IF O!FirstNew(r) = 0 THEN Len(r) ELSE O!FirstNew(r) - 1
ClosedOf(c, r) == ReadTo(r, NewFrom(c, r), Len(r)).ready
FitsOf(c, r)   == \A i \in NewFrom(c, r)..(Len(r) - PageRows - 1) :
                     \E k \in DOMAIN ClosedOf(c, r) :
                        i < ClosedOf(c, r)[k].upto /\ ClosedOf(c, r)[k].upto <= i + PageRows

LEMMA FirstNewIs ==
    ASSUME NEW r \in Seq(Rows)
    PROVE  \/ O!FirstNew(r) = 0 /\ \A i \in DOMAIN r : r[i] # "user"
           \/ /\ O!FirstNew(r) \in DOMAIN r /\ O!FirstNew(r) # 0 /\ r[O!FirstNew(r)] = "user"
              /\ \A i \in DOMAIN r : i < O!FirstNew(r) => r[i] # "user"
<1> DEFINE new == {i \in DOMAIN r : r[i] = "user"}
<1>1. DOMAIN r \subseteq Nat /\ 0 \notin DOMAIN r
  OBVIOUS
<1>2. CASE new = {}
  BY <1>2 DEF O!FirstNew
<1>3. CASE new # {}
  <2> DEFINE f == CHOOSE i \in new : \A j \in new : i <= j
  <2>1. \E i \in new : \A j \in new : i <= j
    <3>1. new \in SUBSET Nat
      BY <1>1
    <3> HIDE DEF new
    <3> QED  BY <1>3, <3>1, LeastOfNaturals
  <2>2. f \in new /\ \A j \in new : f <= j
    BY <2>1
  <2>3. O!FirstNew(r) = f
    BY <1>3 DEF O!FirstNew
  <2> HIDE DEF f
  <2>4. f \in DOMAIN r /\ f # 0 /\ r[f] = "user"
    BY <1>1, <2>2
  <2>5. ASSUME NEW i \in DOMAIN r, i < f
        PROVE  r[i] # "user"
    BY <1>1, <2>2, <2>4, <2>5
  <2> QED  BY <2>3, <2>4, <2>5
<1> QED  BY <1>2, <1>3

\* It stays where it is, whatever is written behind it.
LEMMA FirstNewStays ==
    ASSUME NEW r \in Seq(Rows), NEW q \in Seq(Rows), O!FirstNew(r) # 0
    PROVE  O!FirstNew(r \o q) = O!FirstNew(r)
<1> DEFINE z == r \o q
           f == O!FirstNew(r)
           g == O!FirstNew(z)
<1>1. /\ z \in Seq(Rows) /\ DOMAIN r = 1..Len(r) /\ DOMAIN z = 1..Len(z)
      /\ Len(r) \in Nat /\ Len(z) \in Nat /\ Len(r) <= Len(z) /\ \A i \in DOMAIN r : z[i] = r[i]
  OBVIOUS
<1> HIDE DEF z
<1>2. f \in DOMAIN r /\ r[f] = "user" /\ \A i \in DOMAIN r : i < f => r[i] # "user"
  BY FirstNewIs
<1>3. f \in DOMAIN z /\ z[f] = "user"
  BY <1>1, <1>2
<1>4. g \in DOMAIN z /\ z[g] = "user" /\ \A i \in DOMAIN z : i < g => z[i] # "user"
  BY <1>1, <1>3, FirstNewIs
<1> HIDE DEF f, g
<1>5. ~(f < g)
  BY <1>3, <1>4
<1>6. ~(g < f)
  BY <1>1, <1>2, <1>4
<1>7. f = g
  BY <1>1, <1>2, <1>4, <1>5, <1>6
<1> QED  BY <1>7 DEF f, g, z

LEMMA NewFromIs ==
    ASSUME NEW c, NEW r \in Seq(Rows)
    PROVE  NewFrom(c, r) \in Nat /\ NewFrom(c, r) <= Len(r) /\ Len(r) \in Nat
<1>1. Len(r) \in Nat
  OBVIOUS
<1>2. O!FirstNew(r) = 0 \/ O!FirstNew(r) \in 1..Len(r)
  BY FirstNewIs
<1> QED  BY <1>1, <1>2 DEF NewFrom

LEMMA ClosedIs ==
    ASSUME NEW c, NEW r \in Seq(Rows)
    PROVE  /\ ClosedOf(c, r) \in Seq(Ends)
           /\ EndsWithin(ClosedOf(c, r), r, NewFrom(c, r), Len(r)) /\ Ascending(ClosedOf(c, r))
<1>1. ReadInv(ReadTo(r, NewFrom(c, r), Len(r)), r, NewFrom(c, r), Len(r))
  BY NewFromIs, ReadKeeps
<1> QED  BY <1>1, ReadTypes DEF ReadInv, ClosedOf

\* Rows written behind those that are there close turns behind those that are closed.
LEMMA ClosedGrows ==
    ASSUME NEW c, NEW r \in Seq(Rows), NEW q \in Seq(Rows)
    PROVE  /\ Grown(ClosedOf(c, r), ClosedOf(c, r \o q), Len(r))
           /\ \/ NewFrom(c, r \o q) = NewFrom(c, r)
              \/ NewFrom(c, r) = Len(r) /\ ClosedOf(c, r) = <<>>
<1> DEFINE z == r \o q
<1>1. /\ z \in Seq(Rows) /\ Len(r) \in Nat /\ Len(z) \in Nat /\ Len(r) <= Len(z)
      /\ \A i \in 1..Len(r) : z[i] = r[i]
  OBVIOUS
<1>2. O!FirstNew(r) # 0 => O!FirstNew(z) = O!FirstNew(r)
  BY FirstNewStays
<1> HIDE DEF z
<1>3. CASE NewFrom(c, z) = NewFrom(c, r)
  <2> DEFINE a == NewFrom(c, r)
  <2>1. a \in Nat /\ a <= Len(r)
    BY NewFromIs
  <2>2. ReadTo(r, a, Len(r)) = ReadTo(z, a, Len(r))
    <3>1. \A i \in (a + 1)..Len(r) : r[i] = z[i]
      BY <1>1, <2>1
    <3> HIDE DEF a
    <3> QED  BY <1>1, <2>1, <3>1, SameRead
  <2>3. Grown(ReadTo(z, a, Len(r)).ready, ReadTo(z, a, Len(z)).ready, Len(r))
    <3> HIDE DEF a
    <3> QED  BY <1>1, <2>1, GrowRead
  <2> QED  BY <1>3, <2>2, <2>3 DEF ClosedOf, z
<1>4. CASE NewFrom(c, z) # NewFrom(c, r)
  <2>1. c \notin Natives /\ O!FirstNew(r) = 0 /\ NewFrom(c, r) = Len(r)
    BY <1>2, <1>4 DEF NewFrom
  <2>2. ClosedOf(c, r) = <<>>
    BY <1>1, <2>1, ReadSteps DEF ClosedOf, Unread
  <2>3. NewFrom(c, z) >= Len(r) /\ NewFrom(c, z) \in Nat
    <3>1. O!FirstNew(z) # 0 => O!FirstNew(z) \in 1..Len(z) /\ O!FirstNew(z) > Len(r)
      <4> SUFFICES ASSUME O!FirstNew(z) # 0
                   PROVE  O!FirstNew(z) \in 1..Len(z) /\ O!FirstNew(z) > Len(r)
        OBVIOUS
      <4>1. O!FirstNew(z) \in 1..Len(z) /\ z[O!FirstNew(z)] = "user"
        BY <1>1, FirstNewIs
      <4>2. \A i \in 1..Len(r) : r[i] # "user"
        BY <1>1, <2>1, FirstNewIs
      <4> QED  BY <1>1, <4>1, <4>2
    <3> QED  BY <1>1, <2>1, <3>1 DEF NewFrom
  <2>4. ASSUME NEW k \in DOMAIN ClosedOf(c, z)
        PROVE  ClosedOf(c, z)[k].upto > Len(r)
    <3>1. ClosedOf(c, z) \in Seq(Ends) /\ EndsWithin(ClosedOf(c, z), z, NewFrom(c, z), Len(z))
      BY <1>1, ClosedIs
    <3>2. ClosedOf(c, z)[k].upto \in Nat
      BY <3>1, EndTypes
    <3> QED  BY <1>1, <2>3, <2>4, <3>1, <3>2 DEF EndsWithin
  <2>5. ClosedOf(c, z) \in Seq(Ends)
    BY <1>1, ClosedIs
  <2>6. Len(ClosedOf(c, z)) \in Nat
    BY <2>5
  <2> QED  BY <2>1, <2>2, <2>4, <2>6 DEF Grown, z
<1> QED  BY <1>3, <1>4 DEF z

LEMMA FitsShrinks ==
    ASSUME PageRows \in Nat, NEW c, NEW r \in Seq(Rows), NEW q \in Seq(Rows),
           FitsOf(c, r \o q)
    PROVE  FitsOf(c, r)
<1> DEFINE z == r \o q
           x == ClosedOf(c, r)
           y == ClosedOf(c, z)
<1>1. /\ z \in Seq(Rows) /\ Len(r) \in Nat /\ Len(z) \in Nat /\ Len(r) <= Len(z)
  OBVIOUS
<1>2. Grown(x, y, Len(r)) /\ (NewFrom(c, z) = NewFrom(c, r) \/ NewFrom(c, r) = Len(r))
  BY ClosedGrows
<1>3. NewFrom(c, r) \in Nat
  BY NewFromIs
<1>4. x \in Seq(Ends) /\ y \in Seq(Ends)
  BY <1>1, ClosedIs
<1>5. FitsOf(c, z)
  OBVIOUS
<1> HIDE DEF z, x, y
<1> SUFFICES ASSUME NEW i \in NewFrom(c, r)..(Len(r) - PageRows - 1)
             PROVE  \E k \in DOMAIN x : i < x[k].upto /\ x[k].upto <= i + PageRows
  BY DEF FitsOf, x
<1>6. NewFrom(c, z) = NewFrom(c, r)
  BY <1>1, <1>2, <1>3
<1>7. i \in NewFrom(c, z)..(Len(z) - PageRows - 1)
  BY <1>1, <1>3, <1>6
<1>8. PICK k \in DOMAIN y : i < y[k].upto /\ y[k].upto <= i + PageRows
  BY <1>5, <1>7 DEF FitsOf, y
<1>9. y[k].upto \in Nat /\ y[k].upto <= Len(r)
  BY <1>1, <1>3, <1>4, <1>8, EndTypes
<1>10. k <= Len(x)
  BY <1>1, <1>2, <1>8, <1>9 DEF Grown
<1>11. k \in DOMAIN x /\ x[k] = y[k]
  BY <1>2, <1>4, <1>8, <1>10 DEF Grown
<1> QED  BY <1>8, <1>11

\* A row behind which a pass may start: no turn is open there.
Clean(c, r, b) ==
    b \in Nat /\ NewFrom(c, r) <= b /\ b <= Len(r) /\ (b = NewFrom(c, r) \/ r[b] = "idle")

\* The turns in hand are those behind the first m that are closed.
Piece(x, m, ready) ==
    /\ m \in Nat /\ m + Len(ready) <= Len(x)
    /\ \A k \in DOMAIN ready : ready[k] = x[m + k]

Splits(x, m, b) == \A n \in DOMAIN x : n <= m <=> x[n].upto <= b

IsPage(p, x, b) ==
    /\ p.skipped = 0 /\ p.ready \in Seq(Ends) /\ p.more \in BOOLEAN
    /\ \E m \in Nat : /\ Piece(x, m, p.ready) /\ Splits(x, m, b)
                      /\ p.more \/ m + Len(p.ready) = Len(x)

LEMMA CleanRead ==
    ASSUME NEW c, NEW r \in Seq(Rows), NEW b, Clean(c, r, b)
    PROVE  ReadTo(r, NewFrom(c, r), b).from = 0
<1>1. NewFrom(c, r) \in Nat /\ b \in Nat /\ NewFrom(c, r) <= b
  BY NewFromIs DEF Clean
<1>2. CASE b = NewFrom(c, r)
  BY <1>1, <1>2, ReadSteps DEF Unread
<1>3. CASE b # NewFrom(c, r)
  <2>1. ReadInv(ReadTo(r, NewFrom(c, r), b), r, NewFrom(c, r), b)
    BY <1>1, ReadKeeps
  <2> QED  BY <1>1, <1>3, <2>1 DEF ReadInv, Clean
<1> QED  BY <1>2, <1>3

\* A page of a chat whose turns fit is the next turns that are closed, without a gap.
LEMMA PageRead ==
    ASSUME PageRows \in Nat, NEW c, NEW r \in Seq(Rows), FitsOf(c, r),
           NEW b, Clean(c, r, b)
    PROVE  IsPage(O!Page(r, b), ClosedOf(c, r), b)
<1> DEFINE a == NewFrom(c, r)
           x == ReadTo(r, a, b).ready
           y == ClosedOf(c, r)
           n == b + PageRows
           v == ReadTo(r, b, n).ready
           w == ReadTo(r, b, Len(r)).ready
<1>1. a \in Nat /\ b \in Nat /\ Len(r) \in Nat /\ a <= b /\ b <= Len(r)
  BY NewFromIs DEF Clean
<1>2. ReadTo(r, a, b).from = 0
  BY CleanRead
<1> HIDE DEF a
<1>3. /\ x \in Seq(Ends) /\ EndsWithin(x, r, a, b)
  BY <1>1, ReadKeeps, ReadTypes DEF ReadInv
<1>4. y \in Seq(Ends)
  BY ClosedIs
<1>5. /\ w \in Seq(Ends) /\ EndsWithin(w, r, b, Len(r)) /\ Joined(x, w, y)
  <2>1. w \in Seq(Ends) /\ EndsWithin(w, r, b, Len(r))
    BY <1>1, ReadKeeps, ReadTypes DEF ReadInv
  <2>2. Joined(x, w, ReadTo(r, a, Len(r)).ready)
    BY <1>1, <1>2, SplitRead
  <2> QED  BY <2>1, <2>2 DEF ClosedOf, a
<1>6. Splits(y, Len(x), b)
  <2> SUFFICES ASSUME NEW k \in DOMAIN y
               PROVE  k <= Len(x) <=> y[k].upto <= b
    BY DEF Splits
  <2> HIDE DEF x, y, w
  <2>1. CASE k <= Len(x)
    <3>1. k \in DOMAIN x /\ y[k] = x[k]
      BY <1>3, <1>4, <1>5, <2>1 DEF Joined
    <3> QED  BY <1>3, <2>1, <3>1 DEF EndsWithin
  <2>2. CASE k > Len(x)
    <3>1. k - Len(x) \in DOMAIN w /\ y[k] = w[k - Len(x)]
      BY <1>3, <1>4, <1>5, <2>2 DEF Joined
    <3>2. w[k - Len(x)].upto > b /\ w[k - Len(x)].upto \in Nat
      BY <1>5, <3>1, EndTypes DEF EndsWithin
    <3>3. ~(y[k].upto <= b)
      BY <1>1, <3>1, <3>2
    <3>4. ~(k <= Len(x))
      BY <1>3, <1>4, <2>2
    <3> QED  BY <3>3, <3>4
  <2>3. k \in Nat /\ Len(x) \in Nat
    BY <1>3, <1>4
  <2> QED  BY <2>1, <2>2, <2>3
<1>7. CASE Len(r) <= b + PageRows
  <2>1. /\ O!Page(r, b).ready = w /\ O!Page(r, b).more = FALSE /\ O!Page(r, b).skipped = 0
    BY <1>7 DEF O!Page, ReadTo
  <2>2. Piece(y, Len(x), w) /\ Len(x) + Len(w) = Len(y) /\ Len(x) \in Nat
    <3> HIDE DEF x, y, w
    <3> QED  BY <1>3, <1>4, <1>5 DEF Joined, Piece
  <2> HIDE DEF x, y, w
  <2> QED  BY <1>5, <1>6, <2>1, <2>2 DEF IsPage, y
<1>8. CASE Len(r) > b + PageRows
  <2>1. n \in Nat /\ b <= n /\ a <= n /\ n <= Len(r) /\ b \in a..(Len(r) - PageRows - 1)
    BY <1>1, <1>8
  <2>2. PICK k \in DOMAIN y : b < y[k].upto /\ y[k].upto <= n
    <3> HIDE DEF y
    <3> QED  BY <2>1 DEF FitsOf, y, a
  <2> DEFINE u == ReadTo(r, a, n).ready
  <2> HIDE DEF n
  <2>3. u \in Seq(Ends) /\ v \in Seq(Ends)
    BY <1>1, <2>1, ReadKeeps, ReadTypes DEF ReadInv
  <2>4. Joined(x, v, u)
    BY <1>1, <1>2, <2>1, SplitRead
  <2>5. Grown(u, y, n)
    <3>1. Grown(u, ReadTo(r, a, Len(r)).ready, n)
      BY <1>1, <2>1, GrowRead
    <3> QED  BY <3>1 DEF ClosedOf, a
  <2>6. k <= Len(u) /\ k > Len(x)
    <3> HIDE DEF x, y, u, v, w
    <3>1. y[k].upto \in Nat
      BY <1>4, EndTypes
    <3>2. ~(k > Len(u))
      BY <2>1, <2>2, <2>5, <3>1 DEF Grown
    <3>3. ~(k <= Len(x))
      BY <1>1, <1>6, <2>2, <3>1 DEF Splits
    <3> QED  BY <1>3, <1>4, <2>2, <2>3, <3>2, <3>3
  <2>7. v # <<>>
    <3> HIDE DEF x, y, u, v, w
    <3> QED  BY <1>3, <1>4, <2>2, <2>3, <2>4, <2>6 DEF Joined
  <2>8. /\ O!Page(r, b).ready = v /\ O!Page(r, b).more = TRUE /\ O!Page(r, b).skipped = 0
    <3>1. (Len(r) <= b + PageRows) = FALSE
      BY <1>1, <1>8
    <3>2. v = O!Parse(r, b, b + PageRows, FALSE).ready
      BY DEF ReadTo, n
    <3> HIDE DEF v
    <3> QED  BY <2>7, <3>1, <3>2 DEF O!Page
  <2>9. Piece(y, Len(x), v) /\ Len(x) \in Nat
    <3> HIDE DEF x, y, u, v, w
    <3>1. Len(x) \in Nat /\ Len(v) \in Nat /\ Len(u) <= Len(y) /\ Len(u) = Len(x) + Len(v)
          /\ Len(x) + Len(v) <= Len(y)
      BY <1>3, <1>4, <2>3, <2>4, <2>5 DEF Joined, Grown
    <3>2. ASSUME NEW j \in DOMAIN v
          PROVE  v[j] = y[Len(x) + j]
      <4>1. u[Len(x) + j] = v[j] /\ Len(x) + j \in DOMAIN u
        BY <1>3, <2>3, <2>4 DEF Joined
      <4> QED  BY <2>5, <4>1 DEF Grown
    <3> QED  BY <3>1, <3>2 DEF Piece
  <2> HIDE DEF x, y, v, w
  <2> QED  BY <1>6, <2>3, <2>8, <2>9 DEF IsPage, y
<1> QED  BY <1>1, <1>7, <1>8

\* The queue of a scan: chats in the order of a time, and of their ids where it is the same.
Sooner(u, c, d) == u[c] < u[d] \/ (u[c] = u[d] /\ c < d)
IsOrder(q, X, u) ==
    /\ q \in [1..Cardinality(X) -> X]
    /\ \A i, j \in DOMAIN q : i < j => Sooner(u, q[i], q[j])

LEMMA LastExists ==
    ASSUME NEW X \in SUBSET Nat, IsFiniteSet(X), NEW u, \A c \in X : u[c] \in Nat
    PROVE  \A Y \in SUBSET X : Y # {} => \E m \in Y : \A d \in Y \ {m} : Sooner(u, d, m)
<1> DEFINE Good == {Y \in SUBSET X : Y # {} => \E m \in Y : \A d \in Y \ {m} : Sooner(u, d, m)}
<1>1. ASSUME NEW Y \in SUBSET X, \A Z \in SUBSET Y : Z # Y => Z \in Good
      PROVE  Y \in Good
  <2> SUFFICES ASSUME Y # {}
               PROVE  \E m \in Y : \A d \in Y \ {m} : Sooner(u, d, m)
    OBVIOUS
  <2>1. PICK x \in Y : TRUE
    OBVIOUS
  <2>2. CASE Y \ {x} = {}
    BY <2>1, <2>2
  <2>3. CASE Y \ {x} # {}
    <3>1. Y \ {x} \in Good
      <4> HIDE DEF Good
      <4> QED  BY <1>1, <2>1
    <3>2. PICK m \in Y \ {x} : \A d \in (Y \ {x}) \ {m} : Sooner(u, d, m)
      BY <2>3, <3>1
    <3>3. /\ x \in Nat /\ m \in Nat /\ x # m /\ u[x] \in Nat /\ u[m] \in Nat
          /\ \A d \in Y : d \in Nat /\ u[d] \in Nat
      BY <2>1, <3>2
    <3>4. CASE Sooner(u, x, m)
      BY <3>2, <3>4
    <3>5. CASE ~Sooner(u, x, m)
      <4>1. Sooner(u, m, x)
        BY <3>3, <3>5 DEF Sooner
      <4>2. ASSUME NEW d \in Y \ {x}
            PROVE  Sooner(u, d, x)
        <5>1. CASE d = m
          BY <4>1, <5>1
        <5>2. CASE d # m
          <6>1. Sooner(u, d, m)
            BY <3>2, <5>2
          <6> QED  BY <3>3, <4>1, <6>1 DEF Sooner
        <5> QED  BY <5>1, <5>2
      <4> QED  BY <2>1, <4>2
    <3> QED  BY <3>4, <3>5
  <2> QED  BY <2>2, <2>3
<1>2. \A Y \in SUBSET X : Y \in Good
  <2> HIDE DEF Good
  <2> QED  BY <1>1, SubsetInduction
<1> QED  BY <1>2

LEMMA OrderExists ==
    ASSUME NEW X \in SUBSET Nat, IsFiniteSet(X), NEW u, \A c \in X : u[c] \in Nat
    PROVE  \E q : IsOrder(q, X, u)
<1> DEFINE Good == {n \in Nat : \A Y \in SUBSET X : Cardinality(Y) = n => \E q : IsOrder(q, Y, u)}
<1>1. 0 \in Good
  <2> SUFFICES ASSUME NEW Y \in SUBSET X, Cardinality(Y) = 0
               PROVE  \E q : IsOrder(q, Y, u)
    OBVIOUS
  <2>1. IsOrder([i \in 1..0 |-> 0], Y, u)
    BY DEF IsOrder
  <2> QED  BY <2>1
<1>2. ASSUME NEW n \in Nat, n \in Good
      PROVE  n + 1 \in Good
  <2> SUFFICES ASSUME NEW Y \in SUBSET X, Cardinality(Y) = n + 1
               PROVE  \E q : IsOrder(q, Y, u)
    OBVIOUS
  <2>1. IsFiniteSet(Y) /\ Y # {}
    <3>1. IsFiniteSet(Y)
      BY FS_Subset
    <3>2. Cardinality(Y) # 0
      OBVIOUS
    <3> QED  BY <3>1, <3>2, FS_EmptySet
  <2>2. PICK m \in Y : \A d \in Y \ {m} : Sooner(u, d, m)
    BY <2>1, LastExists
  <2>3. Y \ {m} \in SUBSET X /\ Cardinality(Y \ {m}) = n
    <3>1. Cardinality(Y \ {m}) = Cardinality(Y) - 1
      BY <2>1, FS_RemoveElement
    <3> QED  BY <3>1
  <2>4. PICK p : IsOrder(p, Y \ {m}, u)
    BY <1>2, <2>3
  <2> DEFINE q == [i \in 1..(n + 1) |-> IF i = n + 1 THEN m ELSE p[i]]
  <2>5. p \in [1..n -> Y \ {m}] /\ \A i, j \in 1..n : i < j => Sooner(u, p[i], p[j])
    BY <2>3, <2>4 DEF IsOrder
  <2>6. \A i \in 1..(n + 1) : i = n + 1 \/ i \in 1..n
    OBVIOUS
  <2>7. q \in [1..(n + 1) -> Y]
    BY <2>5, <2>6
  <2>8. ASSUME NEW i \in 1..(n + 1), NEW j \in 1..(n + 1), i < j
        PROVE  Sooner(u, q[i], q[j])
    <3>1. i \in 1..n /\ i # n + 1
      BY <2>8
    <3>2. q[i] = p[i] /\ p[i] \in Y \ {m}
      BY <2>5, <3>1
    <3>3. CASE j = n + 1
      BY <2>2, <3>2, <3>3
    <3>4. CASE j # n + 1
      <4>1. j \in 1..n /\ q[j] = p[j]
        BY <2>6, <3>4
      <4> QED  BY <2>5, <2>8, <3>1, <3>2, <4>1
    <3> QED  BY <3>3, <3>4
  <2>9. IsOrder(q, Y, u)
    <3> HIDE DEF q
    <3>1. DOMAIN q = 1..(n + 1)
      BY <2>7
    <3> QED  BY <2>7, <2>8, <3>1 DEF IsOrder
  <2> QED  BY <2>9
<1>3. \A n \in Nat : n \in Good
  <2> HIDE DEF Good
  <2> QED  BY <1>1, <1>2, UpwardInduction
<1>4. Cardinality(X) \in Nat /\ X \in SUBSET X
  BY FS_CardinalityType
<1> QED  BY <1>3, <1>4

\* Such an order holds every chat once.
LEMMA OrderIsWhole ==
    ASSUME NEW X \in SUBSET Nat, IsFiniteSet(X), NEW u, \A c \in X : u[c] \in Nat,
           NEW q, IsOrder(q, X, u)
    PROVE  /\ q \in Seq(X) /\ \A c \in X : \E i \in DOMAIN q : q[i] = c
           /\ \A i, j \in DOMAIN q : q[i] = q[j] => i = j
<1> DEFINE n == Cardinality(X)
<1>1. n \in Nat /\ q \in [1..n -> X] /\ DOMAIN q = 1..n
  BY FS_CardinalityType DEF IsOrder
<1>2. ASSUME NEW i \in 1..n, NEW j \in 1..n, q[i] = q[j]
      PROVE  i = j
  <2>1. q[i] \in X /\ q[j] \in X /\ i \in Nat /\ j \in Nat
    <3> HIDE DEF n
    <3> QED  BY <1>1
  <2>2. ~Sooner(u, q[i], q[i])
    <3>1. \A k \in X : ~Sooner(u, k, k)
      <4> SUFFICES ASSUME NEW k \in X
                   PROVE  ~Sooner(u, k, k)
        OBVIOUS
      <4>1. k \in Nat /\ u[k] \in Nat
        OBVIOUS
      <4> QED  BY <4>1 DEF Sooner
    <3> QED  BY <2>1, <3>1
  <2>3. ~(i < j) /\ ~(j < i)
    BY <1>1, <1>2, <2>2 DEF IsOrder
  <2> QED  BY <2>1, <2>3
<1>3. q \in Injection(1..n, X)
  BY <1>1, <1>2 DEF Injection, IsInjective
<1>4. Cardinality(1..n) = n
  <2>1. IF 1 > n THEN n = 0 ELSE n - 1 + 1 = n
    BY <1>1
  <2>2. Cardinality(1..n) = IF 1 > n THEN 0 ELSE n - 1 + 1
    <3>1. 1 \in Int /\ n \in Int
      BY <1>1
    <3> HIDE DEF n
    <3> QED  BY <3>1, FS_Interval
  <2> QED  BY <2>1, <2>2
<1>5. q \in Surjection(1..n, X)
  BY <1>3, <1>4, FS_Injection
<1> QED  BY <1>1, <1>2, <1>5 DEF Surjection

\* The types of the scans and of what they keep.
Formats  == {"none", "kept", "grown"}
Segments == {"none", "native", "opencode-v2"}
StoredTurns == [from : Nat, upto : Nat, index : Int]
WorkFields == {"chat", "rev", "time", "before", "boundary", "offset", "ready", "more",
               "pending", "skipped", "step"}
ScanFields == {"phase", "queue", "listed", "now"}

WorkShape(w) ==
    /\ DOMAIN w = WorkFields /\ w.step \in {"none", "revised", "read"}
    /\ w.step = "none" => w = O!NoChat
    /\ w.step # "none" => w.chat \in O!Chats
ScanShape(s) ==
    /\ DOMAIN s = ScanFields /\ s.phase \in {"none", "discovery", "overlap"}
    /\ s.queue \in Seq(O!Chats) /\ s.listed \in SUBSET (O!Chats \X Nat) /\ WorkShape(s.now)
ScanTypes ==
    /\ rows \in [O!Chats -> Seq(Rows)] /\ updated \in [O!Chats -> Nat] /\ writes \in Nat
    /\ v1 \in [O!Chats -> Formats] /\ segment \in [O!Chats -> Segments]
    /\ DOMAIN history = O!Chats /\ DOMAIN opencodeCursor = O!Chats
    /\ DOMAIN pending = O!Chats /\ DOMAIN handoff = O!Chats
    /\ watermark \in Nat \X Nat /\ ScanShape(opencodeScan)

ChatsGiven ==
    /\ Natives \in SUBSET Nat /\ Migrants \in SUBSET Nat /\ Natives \cap Migrants = {}
    /\ IsFiniteSet(O!Chats) /\ PageRows \in Nat

LEMMA NoScanShape == ScanShape(O!NoScan) /\ WorkShape(O!NoChat)
<1>1. WorkShape(O!NoChat)
  BY DEF O!NoChat, WorkShape, WorkFields
<1>2. <<>> \in Seq(O!Chats) /\ {} \in SUBSET (O!Chats \X Nat)
  OBVIOUS
<1>3. /\ DOMAIN O!NoScan = ScanFields /\ O!NoScan.phase = "none" /\ O!NoScan.queue = <<>>
      /\ O!NoScan.listed = {} /\ O!NoScan.now = O!NoChat
  BY DEF O!NoScan, ScanFields
<1> QED  BY <1>1, <1>2, <1>3 DEF ScanShape

\* What an update of a scan leaves of it.
LEMMA ScanResting ==
    ASSUME NEW s, ScanShape(s), NEW u, u = [s EXCEPT !.now = O!NoChat]
    PROVE  /\ ScanShape(u) /\ u.now = O!NoChat /\ u.queue = s.queue /\ u.listed = s.listed
           /\ u.phase = s.phase
<1>1. /\ DOMAIN u = ScanFields /\ u.now = O!NoChat /\ u.queue = s.queue /\ u.listed = s.listed
      /\ u.phase = s.phase
  BY DEF ScanShape, ScanFields
<1> QED  BY <1>1, NoScanShape DEF ScanShape

LEMMA ScanAdvancing ==
    ASSUME NEW s, ScanShape(s), s.queue # <<>>, NEW w, WorkShape(w),
           NEW u, u = [s EXCEPT !.queue = Tail(s.queue), !.now = w]
    PROVE  /\ ScanShape(u) /\ u.now = w /\ u.queue = Tail(s.queue) /\ u.listed = s.listed
           /\ u.phase = s.phase
<1>1. /\ DOMAIN u = ScanFields /\ u.now = w /\ u.queue = Tail(s.queue) /\ u.listed = s.listed
      /\ u.phase = s.phase
  BY DEF ScanShape, ScanFields
<1>2. Tail(s.queue) \in Seq(O!Chats)
  BY DEF ScanShape
<1> QED  BY <1>1, <1>2 DEF ScanShape

SameWork(w, v) ==
    /\ v.chat = w.chat /\ v.rev = w.rev /\ v.before = w.before /\ v.boundary = w.boundary
    /\ v.offset = w.offset

IsRead(s, u, p) ==
    u = [s EXCEPT !.now.ready = p.ready, !.now.more = p.more, !.now.pending = p.pending,
                  !.now.skipped = p.skipped, !.now.step = "read"]
IsHandled(s, u, rest) == u = [s EXCEPT !.now.ready = rest]

LEMMA ScanReading ==
    ASSUME NEW s, ScanShape(s), s.now.step # "none", NEW p,
           NEW u, IsRead(s, u, p)
    PROVE  /\ ScanShape(u) /\ u.queue = s.queue /\ u.listed = s.listed /\ u.phase = s.phase
           /\ SameWork(s.now, u.now) /\ u.now.step = "read" /\ u.now.ready = p.ready
           /\ u.now.more = p.more /\ u.now.skipped = p.skipped /\ u.now.pending = p.pending
<1> DEFINE w == [s.now EXCEPT !.ready = p.ready, !.more = p.more, !.pending = p.pending,
                              !.skipped = p.skipped, !.step = "read"]
<1>1. /\ DOMAIN w = WorkFields /\ SameWork(s.now, w) /\ w.step = "read" /\ w.ready = p.ready
      /\ w.more = p.more /\ w.skipped = p.skipped /\ w.pending = p.pending
  BY DEF ScanShape, WorkShape, WorkFields, SameWork
<1>2. u = [s EXCEPT !.now = w]
  BY DEF IsRead, ScanShape, ScanFields, WorkShape, WorkFields
<1> HIDE DEF w
<1>3. /\ DOMAIN u = ScanFields /\ u.now = w /\ u.queue = s.queue /\ u.listed = s.listed
      /\ u.phase = s.phase
  BY <1>2 DEF ScanShape, ScanFields
<1>4. WorkShape(w)
  BY <1>1 DEF WorkShape, ScanShape, SameWork
<1> QED  BY <1>1, <1>3, <1>4 DEF ScanShape

LEMMA ScanHandling ==
    ASSUME NEW s, ScanShape(s), s.now.step = "read", NEW rest,
           NEW u, IsHandled(s, u, rest)
    PROVE  /\ ScanShape(u) /\ u.queue = s.queue /\ u.listed = s.listed /\ u.phase = s.phase
           /\ SameWork(s.now, u.now) /\ u.now.step = "read" /\ u.now.ready = rest
           /\ u.now.more = s.now.more /\ u.now.skipped = s.now.skipped
<1> DEFINE w == [s.now EXCEPT !.ready = rest]
<1>1. /\ DOMAIN w = WorkFields /\ SameWork(s.now, w) /\ w.step = "read" /\ w.ready = rest
      /\ w.more = s.now.more /\ w.skipped = s.now.skipped
  BY DEF ScanShape, WorkShape, WorkFields, SameWork
<1>2. u = [s EXCEPT !.now = w]
  BY DEF IsHandled, ScanShape, ScanFields, WorkShape, WorkFields
<1> HIDE DEF w
<1>3. /\ DOMAIN u = ScanFields /\ u.now = w /\ u.queue = s.queue /\ u.listed = s.listed
      /\ u.phase = s.phase
  BY <1>2 DEF ScanShape, ScanFields
<1>4. WorkShape(w)
  BY <1>1 DEF WorkShape, ScanShape, SameWork
<1> QED  BY <1>1, <1>3, <1>4 DEF ScanShape

\* The queues.
LEMMA CardinalityIs == ASSUME NEW X PROVE O!Cardinality(X) = Cardinality(X)
BY DEF O!Cardinality, Cardinality

LEMMA QueueByTime ==
    ASSUME ChatsGiven, NEW X \in SUBSET O!Chats, updated \in [O!Chats -> Nat]
    PROVE  LET q == O!InOrder(X, O!Earlier) IN
           /\ q \in Seq(O!Chats) /\ \A c \in X : \E i \in DOMAIN q : q[i] = c
           /\ \A i \in DOMAIN q : q[i] \in X
           /\ \A i, j \in DOMAIN q : i < j => Sooner(updated, q[i], q[j])
           /\ \A i, j \in DOMAIN q : q[i] = q[j] => i = j
<1>1. X \in SUBSET Nat /\ IsFiniteSet(X) /\ \A c \in X : updated[c] \in Nat
  BY FS_Subset DEF ChatsGiven, O!Chats
<1>2. O!InOrder(X, O!Earlier) = CHOOSE q \in [1..O!Cardinality(X) -> X] :
                                   \A i, j \in DOMAIN q : i < j => Sooner(updated, q[i], q[j])
  BY DEF O!InOrder, O!Earlier, Sooner
<1>3. \E p : IsOrder(p, X, updated)
  BY <1>1, OrderExists
<1> DEFINE z == O!InOrder(X, O!Earlier)
<1>4. IsOrder(z, X, updated)
  BY <1>2, <1>3, CardinalityIs DEF IsOrder
<1> HIDE DEF z
<1>5. /\ z \in Seq(X) /\ \A c \in X : \E i \in DOMAIN z : z[i] = c
      /\ \A i, j \in DOMAIN z : z[i] = z[j] => i = j
  BY <1>1, <1>4, OrderIsWhole
<1>6. \A i \in DOMAIN z : z[i] \in X
  BY <1>5
<1>7. z \in Seq(O!Chats)
  BY <1>5
<1>8. \A i, j \in DOMAIN z : i < j => Sooner(updated, z[i], z[j])
  BY <1>4 DEF IsOrder
<1> QED  BY <1>5, <1>6, <1>7, <1>8 DEF z

LEMMA QueueById ==
    ASSUME ChatsGiven, NEW X \in SUBSET O!Chats
    PROVE  /\ O!InOrder(X, O!Smaller) \in Seq(O!Chats)
           /\ \A i \in DOMAIN O!InOrder(X, O!Smaller) : O!InOrder(X, O!Smaller)[i] \in X
           /\ \A i, j \in DOMAIN O!InOrder(X, O!Smaller) :
                 O!InOrder(X, O!Smaller)[i] = O!InOrder(X, O!Smaller)[j] => i = j
<1> DEFINE u == [c \in X |-> 0]
           z == O!InOrder(X, O!Smaller)
<1>1. X \in SUBSET Nat /\ IsFiniteSet(X) /\ \A c \in X : u[c] \in Nat
  BY FS_Subset DEF ChatsGiven, O!Chats
<1>2. \E p : IsOrder(p, X, u)
  <2> HIDE DEF u
  <2> QED  BY <1>1, OrderExists
<1>3. \A p \in [1..Cardinality(X) -> X] : \A i, j \in DOMAIN p :
         Sooner(u, p[i], p[j]) <=> p[i] < p[j]
  BY DEF Sooner
<1>4. O!InOrder(X, O!Smaller) = CHOOSE q \in [1..O!Cardinality(X) -> X] :
                                   \A i, j \in DOMAIN q : i < j => q[i] < q[j]
  BY DEF O!InOrder, O!Smaller
<1> HIDE DEF u
<1>5. IsOrder(z, X, u)
  <2>1. \E p \in [1..Cardinality(X) -> X] : \A i, j \in DOMAIN p : i < j => p[i] < p[j]
    BY <1>2, <1>3 DEF IsOrder
  <2>2. z \in [1..Cardinality(X) -> X] /\ \A i, j \in DOMAIN z : i < j => z[i] < z[j]
    BY <1>4, <2>1, CardinalityIs
  <2> HIDE DEF z
  <2> QED  BY <1>3, <2>2 DEF IsOrder
<1> HIDE DEF z
<1>6. z \in Seq(X) /\ \A i, j \in DOMAIN z : z[i] = z[j] => i = j
  BY <1>1, <1>5, OrderIsWhole
<1>7. z \in Seq(O!Chats) /\ \A i \in DOMAIN z : z[i] \in X
  BY <1>6
<1> QED  BY <1>6, <1>7 DEF z

\* What holds of a chat.  Natives are worked on in discovery, migrants in the overlap cycle,
\* where the new indexes follow the old ones.
Offset(c)  == IF c \in Natives THEN 0 ELSE O!V1Turns + 1
Working(c) == opencodeScan.now.step # "none" /\ opencodeScan.now.chat = c

RoleOf(c) ==
    /\ c \in Natives =>
          /\ segment[c] # "native" /\ handoff[c].offset = -1
          /\ Working(c) => opencodeScan.phase = "discovery" /\ opencodeScan.now.boundary = 0
    /\ c \notin Natives =>
          /\ segment[c] # "none" /\ handoff[c].offset \in {-1, Offset(c)}
          /\ segment[c] = "opencode-v2" => handoff[c].offset # -1
          /\ Working(c) => opencodeScan.phase = "overlap" /\ handoff[c].offset # -1
    /\ Working(c) => opencodeScan.now.offset = Offset(c)

ClosedIn(c) == ClosedOf(c, rows[c])

\* The cursor is a row that closed a turn.
CursorOf(c) ==
    IF segment[c] = "opencode-v2"
    THEN /\ opencodeCursor[c] \in Nat /\ NewFrom(c, rows[c]) < opencodeCursor[c]
         /\ opencodeCursor[c] <= Len(rows[c]) /\ rows[c][opencodeCursor[c]] = "idle"
    ELSE opencodeCursor[c] = 0 /\ history[c] = <<>>

\* What is stored is what is kept of the turns up to the cursor.
HistoryOf(c) ==
    /\ history[c] \in Seq(StoredTurns)
    /\ \A k \in DOMAIN history[c] :
          /\ history[c][k].upto <= opencodeCursor[c]
          /\ history[c][k].index = history[c][k].upto - 1 + Offset(c)
          /\ \E n \in DOMAIN ClosedIn(c) :
                ~ClosedIn(c)[n].dropped /\ O!IsOf(history[c][k], ClosedIn(c)[n])
    /\ \A j, k \in DOMAIN history[c] : j < k => history[c][j].upto < history[c][k].upto
    /\ \A n \in DOMAIN ClosedIn(c) :
          ~ClosedIn(c)[n].dropped /\ ClosedIn(c)[n].upto <= opencodeCursor[c] =>
             \E k \in DOMAIN history[c] : O!IsOf(history[c][k], ClosedIn(c)[n])

\* Of the turns in front of those in hand nothing is left to store: they lie behind the
\* cursor, or were dropped before the first was stored, or the old history has changed.
Passed(c, m) ==
    \A n \in DOMAIN ClosedIn(c) :
       IF n <= m
       THEN \/ ClosedIn(c)[n].upto <= opencodeCursor[c]
            \/ O!HandsOff(c) /\ (ClosedIn(c)[n].dropped \/ ~O!Verified(c))
       ELSE ClosedIn(c)[n].upto > opencodeCursor[c]

\* Written later than anything discovery has listed.
Newer(c) == updated[c] > watermark[1] /\ \A l \in opencodeScan.listed : updated[c] > l[2]
Current(c) == c \in Natives /\ v1[c] = "none"

\* Behind those in hand, of a chat that was read to its end, there are only newer ones.
Left(c, m) ==
    c \in Natives /\ c \notin opencodeBarred /\ ~opencodeScan.now.more =>
       \A n \in DOMAIN ClosedIn(c) : n > m + Len(opencodeScan.now.ready) =>
          /\ ClosedIn(c)[n].upto > opencodeScan.now.rev[1]
          /\ v1[c] = "none" => Newer(c)

InHand(c, m) == Piece(ClosedIn(c), m, opencodeScan.now.ready) /\ Passed(c, m) /\ Left(c, m)

WorkOf(c) ==
    Working(c) =>
       /\ opencodeScan.now.boundary = 0 => c \in Natives \/ segment[c] = "opencode-v2"
       /\ opencodeScan.now.boundary # 0 => opencodeScan.now.boundary = O!FirstNew(rows[c])
       /\ opencodeScan.now.step = "revised" /\ opencodeScan.now.boundary # 0 =>
             segment[c] # "opencode-v2"
       /\ c \in Natives => opencodeScan.now.rev[1] \in 0..Len(rows[c])
       /\ opencodeScan.now.step = "read" =>
             /\ opencodeScan.now.skipped = 0 /\ opencodeScan.now.ready \in Seq(Ends)
             /\ \E m \in Nat : InHand(c, m)

\* A chat that is pending has been read up to the revision of the record.
PendingOf(c) ==
    /\ pending[c].resume = 0
    /\ c \in Natives /\ pending[c] # O!NoPending =>
          /\ pending[c].rev[1] \in 0..Len(rows[c])
          /\ pending[c].more \/ \A n \in DOMAIN ClosedIn(c) :
                ClosedIn(c)[n].upto > opencodeCursor[c] => ClosedIn(c)[n].upto > pending[c].rev[1]

FitsInv(c) ==
    FitsOf(c, rows[c]) => CursorOf(c) /\ HistoryOf(c) /\ WorkOf(c) /\ PendingOf(c)

LEMMA CursorIs ==
    ASSUME NEW c \in O!Chats, ScanTypes, CursorOf(c)
    PROVE  opencodeCursor[c] \in Nat /\ opencodeCursor[c] <= Len(rows[c])
BY DEF CursorOf, ScanTypes

\* The old rows, once verified or not, stay what they were.
LEMMA VerifiedStays ==
    ASSUME NEW c, NEW q \in Seq(Rows), rows[c] \in Seq(Rows), rows'[c] = rows[c] \o q,
           v1'[c] = "kept" => v1[c] = "kept", O!FirstNew(rows[c]) # 0
    PROVE  O!Verified(c)' => O!Verified(c)
<1> DEFINE r == rows[c]
           z == rows'[c]
           f == O!FirstNew(r)
<1>1. O!FirstNew(z) = f
  BY FirstNewStays
<1>2. f \in 1..Len(r) /\ f # 0
  BY FirstNewIs
<1>3. /\ DOMAIN r = 1..Len(r) /\ DOMAIN z = 1..Len(z) /\ Len(r) \in Nat /\ Len(z) \in Nat
      /\ Len(r) <= Len(z) /\ \A i \in 1..Len(r) : z[i] = r[i]
  OBVIOUS
<1>4. O!Verified(c) <=> /\ v1[c] = "kept" /\ \E i \in 1..(f - 1) : r[i] = "v1user"
                        /\ \A i \in DOMAIN r : i < f => r[i] # "idle"
                        /\ \A i \in DOMAIN r : i > f => r[i] \notin O!V1Rows
  BY DEF O!Verified, O!HistoryCaptured, O!PrefixMigrated, O!OnlyNewBehind
<1>5. O!Verified(c)' <=> /\ v1'[c] = "kept" /\ \E i \in 1..(f - 1) : z[i] = "v1user"
                         /\ \A i \in DOMAIN z : i < f => z[i] # "idle"
                         /\ \A i \in DOMAIN z : i > f => z[i] \notin O!V1Rows
  BY <1>1 DEF O!Verified, O!HistoryCaptured, O!PrefixMigrated, O!OnlyNewBehind
<1> HIDE DEF r, z, f
<1>6. \A i \in 1..(f - 1) : i \in 1..Len(r)
  BY <1>2, <1>3
<1>7. 1..Len(r) \subseteq 1..Len(z)
  BY <1>3
<1> QED  BY <1>3, <1>4, <1>5, <1>6, <1>7

\* Rows q are written behind those of the chat, or none.
Grows(c, q) ==
    /\ q \in Seq(Rows) /\ rows'[c] = rows[c] \o q /\ FitsOf(c, rows[c])'
    /\ history'[c] = history[c] /\ opencodeCursor'[c] = opencodeCursor[c]
    /\ segment'[c] = segment[c]

GrownIn(c) ==
    /\ Grown(ClosedIn(c), ClosedIn(c)', Len(rows[c])) /\ Len(rows[c]) \in Nat
    /\ ClosedIn(c) \in Seq(Ends) /\ ClosedIn(c)' \in Seq(Ends)
    /\ \A n \in DOMAIN ClosedIn(c) : n \in DOMAIN ClosedIn(c)' /\ ClosedIn(c)'[n] = ClosedIn(c)[n]
    /\ \A n \in DOMAIN ClosedIn(c)' :
          n \in DOMAIN ClosedIn(c) \/ (n > Len(ClosedIn(c)) /\ ClosedIn(c)'[n].upto > Len(rows[c]))
    /\ \A n \in DOMAIN ClosedIn(c)' : ClosedIn(c)'[n].upto \in Nat

LEMMA GrowsClosed ==
    ASSUME PageRows \in Nat, NEW c \in O!Chats, ScanTypes, NEW q, Grows(c, q)
    PROVE  /\ FitsOf(c, rows[c]) /\ GrownIn(c) /\ rows[c] \in Seq(Rows)
           /\ \/ NewFrom(c, rows'[c]) = NewFrom(c, rows[c])
              \/ NewFrom(c, rows[c]) = Len(rows[c]) /\ ClosedIn(c) = <<>>
<1>1. rows[c] \in Seq(Rows) /\ q \in Seq(Rows) /\ rows'[c] = rows[c] \o q
  BY DEF ScanTypes, Grows
<1>2. rows'[c] \in Seq(Rows) /\ Len(rows[c]) \in Nat
  BY <1>1
<1>3. FitsOf(c, rows[c])
  <2>1. FitsOf(c, rows[c] \o q)
    BY <1>1 DEF Grows, FitsOf
  <2> QED  BY <1>1, <2>1, FitsShrinks
<1>4. /\ Grown(ClosedIn(c), ClosedIn(c)', Len(rows[c]))
      /\ \/ NewFrom(c, rows'[c]) = NewFrom(c, rows[c])
         \/ NewFrom(c, rows[c]) = Len(rows[c]) /\ ClosedIn(c) = <<>>
  BY <1>1, ClosedGrows DEF ClosedIn
<1>5. ClosedIn(c) \in Seq(Ends) /\ ClosedIn(c)' \in Seq(Ends)
  BY <1>1, <1>2, ClosedIs DEF ClosedIn
<1> DEFINE x == ClosedIn(c)
           y == ClosedIn(c)'
<1>6. GrownIn(c)
  <2>1. x \in Seq(Ends) /\ y \in Seq(Ends) /\ Grown(x, y, Len(rows[c]))
    BY <1>4, <1>5
  <2> HIDE DEF x, y
  <2>2. \A n \in DOMAIN x : n \in DOMAIN y /\ y[n] = x[n]
    BY <2>1 DEF Grown
  <2>3. \A n \in DOMAIN y : n \in DOMAIN x \/ (n > Len(x) /\ y[n].upto > Len(rows[c]))
    BY <2>1 DEF Grown
  <2>4. \A n \in DOMAIN y : y[n].upto \in Nat
    BY <2>1, EndTypes
  <2> QED  BY <1>2, <2>1, <2>2, <2>3, <2>4 DEF GrownIn, x, y
<1> QED  BY <1>1, <1>3, <1>4, <1>6

LEMMA GrowsCursor ==
    ASSUME PageRows \in Nat, NEW c \in O!Chats, ScanTypes, CursorOf(c), NEW q, Grows(c, q)
    PROVE  CursorOf(c)'
<1>1. /\ rows[c] \in Seq(Rows) /\ q \in Seq(Rows) /\ rows'[c] = rows[c] \o q
      /\ opencodeCursor'[c] = opencodeCursor[c] /\ segment'[c] = segment[c]
      /\ history'[c] = history[c]
  BY GrowsClosed DEF Grows
<1>2. /\ Len(rows[c]) \in Nat /\ Len(rows'[c]) \in Nat /\ Len(rows[c]) <= Len(rows'[c])
      /\ \A i \in 1..Len(rows[c]) : rows'[c][i] = rows[c][i]
  BY <1>1
<1>3. NewFrom(c, rows'[c]) = NewFrom(c, rows[c]) \/ NewFrom(c, rows[c]) = Len(rows[c])
  BY GrowsClosed
<1>4. NewFrom(c, rows[c]) \in Nat
  BY <1>1, NewFromIs
<1>5. CASE segment[c] = "opencode-v2"
  <2>1. /\ opencodeCursor[c] \in Nat /\ NewFrom(c, rows[c]) < opencodeCursor[c]
        /\ opencodeCursor[c] <= Len(rows[c]) /\ rows[c][opencodeCursor[c]] = "idle"
    BY <1>5 DEF CursorOf
  <2>2. NewFrom(c, rows'[c]) = NewFrom(c, rows[c])
    BY <1>2, <1>3, <1>4, <2>1
  <2>3. rows'[c][opencodeCursor[c]] = "idle" /\ opencodeCursor[c] <= Len(rows'[c])
    BY <1>2, <1>4, <2>1
  <2> QED  BY <1>1, <1>5, <2>1, <2>2, <2>3 DEF CursorOf
<1>6. CASE segment[c] # "opencode-v2"
  BY <1>1, <1>6 DEF CursorOf
<1> QED  BY <1>5, <1>6

LEMMA GrowsHistory ==
    ASSUME PageRows \in Nat, NEW c \in O!Chats, ScanTypes, CursorOf(c), HistoryOf(c),
           NEW q, Grows(c, q)
    PROVE  HistoryOf(c)'
<1>1. GrownIn(c) /\ opencodeCursor[c] \in Nat /\ opencodeCursor[c] <= Len(rows[c])
  BY GrowsClosed, CursorIs
<1>2. opencodeCursor'[c] = opencodeCursor[c] /\ history'[c] = history[c]
  BY DEF Grows
<1> DEFINE x == ClosedIn(c)
           y == ClosedIn(c)'
           h == history[c]
           b == opencodeCursor[c]
<1>3. /\ \A n \in DOMAIN x : n \in DOMAIN y /\ y[n] = x[n]
      /\ \A n \in DOMAIN y : n \in DOMAIN x \/ y[n].upto > b
      /\ \A n \in DOMAIN y : y[n].upto \in Nat
  BY <1>1 DEF GrownIn
<1>4. /\ h \in Seq(StoredTurns)
      /\ \A k \in DOMAIN h :
            /\ h[k].upto <= b /\ h[k].index = h[k].upto - 1 + Offset(c)
            /\ \E n \in DOMAIN x : ~x[n].dropped /\ O!IsOf(h[k], x[n])
      /\ \A j, k \in DOMAIN h : j < k => h[j].upto < h[k].upto
      /\ \A n \in DOMAIN x : ~x[n].dropped /\ x[n].upto <= b =>
            \E k \in DOMAIN h : O!IsOf(h[k], x[n])
  BY DEF HistoryOf
<1>5. HistoryOf(c)' <=>
        /\ h \in Seq(StoredTurns)
        /\ \A k \in DOMAIN h :
              /\ h[k].upto <= b /\ h[k].index = h[k].upto - 1 + Offset(c)
              /\ \E n \in DOMAIN y : ~y[n].dropped /\ O!IsOf(h[k], y[n])
        /\ \A j, k \in DOMAIN h : j < k => h[j].upto < h[k].upto
        /\ \A n \in DOMAIN y : ~y[n].dropped /\ y[n].upto <= b =>
              \E k \in DOMAIN h : O!IsOf(h[k], y[n])
  BY <1>2 DEF HistoryOf, Offset, O!IsOf
<1> HIDE DEF x, y, h, b
<1>6. \A k \in DOMAIN h : \E n \in DOMAIN y : ~y[n].dropped /\ O!IsOf(h[k], y[n])
  BY <1>3, <1>4
<1>7. ASSUME NEW n \in DOMAIN y, ~y[n].dropped, y[n].upto <= b
      PROVE  \E k \in DOMAIN h : O!IsOf(h[k], y[n])
  <2>1. b \in Nat /\ y[n].upto \in Nat
    BY <1>1, <1>3 DEF b
  <2>2. n \in DOMAIN x /\ y[n] = x[n]
    BY <1>3, <1>7, <2>1
  <2> QED  BY <1>4, <1>7, <2>2
<1> QED  BY <1>4, <1>5, <1>6, <1>7

\* A step that leaves the chat to itself: rows q are written behind its own, or none, and it
\* is in hand as before or not at all.
Rests(c, q) ==
    /\ q \in Seq(Rows) /\ rows'[c] = rows[c] \o q
    /\ history'[c] = history[c] /\ opencodeCursor'[c] = opencodeCursor[c]
    /\ segment'[c] = segment[c] /\ pending'[c] \in {pending[c], O!NoPending}
    /\ opencodeBarred \subseteq opencodeBarred'
    /\ v1'[c] = "kept" => v1[c] = "kept"
    /\ c \in Natives /\ v1'[c] = "none" => v1[c] = "none"
    /\ \/ ~Working(c)'
       \/ /\ opencodeScan' = opencodeScan
          /\ Current(c) /\ Newer(c) => Newer(c)'
          /\ q # <<>> /\ Current(c) => Newer(c)'

LEMMA RestsGrows ==
    ASSUME NEW c, NEW q, Rests(c, q), FitsOf(c, rows[c])'
    PROVE  Grows(c, q)
BY DEF Rests, Grows

\* What is in hand of a chat that rests stays so.
LEMMA RestsInHand ==
    ASSUME PageRows \in Nat, NEW c \in O!Chats, ScanTypes, CursorOf(c), NEW q, Rests(c, q),
           FitsOf(c, rows[c])', Working(c), Working(c)', NEW m \in Nat, InHand(c, m),
           opencodeScan.now.ready \in Seq(Ends),
           opencodeScan.now.boundary # 0 => opencodeScan.now.boundary = O!FirstNew(rows[c]),
           c \in Natives => opencodeScan.now.rev[1] \in 0..Len(rows[c])
    PROVE  InHand(c, m)'
<1> DEFINE x == ClosedIn(c)
           y == ClosedIn(c)'
           b == opencodeCursor[c]
           now == opencodeScan.now
           h == O!HandsOff(c)
<1>1. Grows(c, q)
  BY RestsGrows
<1>2. GrownIn(c) /\ rows[c] \in Seq(Rows)
  BY <1>1, GrowsClosed
<1>3. b \in Nat /\ b <= Len(rows[c])
  BY CursorIs
<1>4. opencodeScan' = opencodeScan /\ opencodeCursor'[c] = b /\ segment'[c] = segment[c]
  BY DEF Rests
<1>5. h' = h
  BY <1>4 DEF O!HandsOff
<1>6. h /\ ~O!Verified(c) => ~O!Verified(c)'
  <2> SUFFICES ASSUME h, O!Verified(c)'
               PROVE  O!Verified(c)
    OBVIOUS
  <2>1. O!FirstNew(rows[c]) # 0
    BY DEF O!HandsOff
  <2> QED  BY <1>2, <2>1, VerifiedStays DEF Rests
<1>7. /\ x \in Seq(Ends) /\ y \in Seq(Ends) /\ Len(x) \in Nat /\ Len(y) \in Nat
      /\ DOMAIN x = 1..Len(x) /\ DOMAIN y = 1..Len(y)
      /\ \A n \in DOMAIN x : n \in DOMAIN y /\ y[n] = x[n]
      /\ \A n \in DOMAIN y : n \in DOMAIN x \/ (n > Len(x) /\ y[n].upto > Len(rows[c]))
      /\ \A n \in DOMAIN y : y[n].upto \in Nat
      /\ Len(x) <= Len(y) /\ Len(rows[c]) \in Nat
  BY <1>2 DEF GrownIn, Grown
<1>8. Piece(x, m, now.ready) /\ Passed(c, m) /\ Left(c, m)
  BY DEF InHand
<1>9. now.ready \in Seq(Ends) /\ Len(now.ready) \in Nat
  OBVIOUS
<1>10. m + Len(now.ready) <= Len(x) /\ \A k \in DOMAIN now.ready : now.ready[k] = x[m + k]
  BY <1>8 DEF Piece
<1>11. Piece(y, m, now.ready)
  <2>1. \A k \in DOMAIN now.ready : m + k \in DOMAIN x
    BY <1>7, <1>9, <1>10
  <2> HIDE DEF x, y, now
  <2> QED  BY <1>7, <1>9, <1>10, <2>1 DEF Piece
<1>12. Passed(c, m)'
  <2>1. \A n \in DOMAIN x : IF n <= m THEN x[n].upto <= b \/ (h /\ (x[n].dropped \/ ~O!Verified(c)))
                            ELSE x[n].upto > b
    BY <1>8 DEF Passed
  <2>2. Passed(c, m)' <=>
          \A n \in DOMAIN y : IF n <= m THEN y[n].upto <= b \/ (h /\ (y[n].dropped \/ ~O!Verified(c)'))
                              ELSE y[n].upto > b
    BY <1>4, <1>5 DEF Passed
  <2>3. m <= Len(x)
    BY <1>7, <1>9, <1>10
  <2> HIDE DEF x, y, b, h
  <2>4. ASSUME NEW n \in DOMAIN y, n \notin DOMAIN x
        PROVE  n > m /\ y[n].upto > b
    BY <1>3, <1>7, <2>3, <2>4
  <2>5. ASSUME NEW n \in DOMAIN y
        PROVE  IF n <= m THEN y[n].upto <= b \/ (h /\ (y[n].dropped \/ ~O!Verified(c)'))
                         ELSE y[n].upto > b
    <3>1. CASE n \in DOMAIN x
      BY <1>6, <1>7, <2>1, <3>1
    <3>2. CASE n \notin DOMAIN x
      BY <1>7, <2>4, <2>5, <3>2
    <3> QED  BY <3>1, <3>2
  <2> QED  BY <2>2, <2>5
<1>13. Left(c, m)'
  <2> SUFFICES ASSUME c \in Natives, c \notin opencodeBarred', ~now'.more,
                      NEW n \in DOMAIN y, n > m + Len(now.ready)
               PROVE  y[n].upto > now.rev[1] /\ (v1'[c] = "none" => Newer(c)')
    BY <1>4 DEF Left
  <2>1. c \notin opencodeBarred /\ ~now.more /\ (v1'[c] = "none" => v1[c] = "none")
    BY <1>4 DEF Rests
  <2>2. \A k \in DOMAIN x : k > m + Len(now.ready) => x[k].upto > now.rev[1] /\ (v1[c] = "none" => Newer(c))
    BY <1>8, <2>1 DEF Left
  <2>3. v1[c] = "none" /\ Newer(c) => Newer(c)'
    BY DEF Rests, Current
  <2>4. CASE n \in DOMAIN x
    <3> HIDE DEF x, y, now
    <3>1. x[n].upto > now.rev[1] /\ (v1[c] = "none" => Newer(c)) /\ y[n] = x[n]
      BY <1>7, <2>2, <2>4
    <3> QED  BY <2>1, <2>3, <3>1
  <2>5. CASE n \notin DOMAIN x
    <3>1. y[n].upto > Len(rows[c]) /\ y[n].upto \in Nat
      BY <1>7, <2>5
    <3>2. now.rev[1] \in 0..Len(rows[c])
      OBVIOUS
    <3>3. q # <<>>
      <4> SUFFICES ASSUME q = <<>> PROVE FALSE
        OBVIOUS
      <4>1. rows'[c] = rows[c]
        BY <1>2 DEF Rests
      <4>2. y = x
        BY <4>1 DEF ClosedIn, ClosedOf, NewFrom
      <4> QED  BY <2>5, <4>2
    <3>4. v1[c] = "none" => Newer(c)'
      BY <3>3 DEF Rests, Current
    <3> QED  BY <1>7, <2>1, <3>1, <3>2, <3>4
  <2> QED  BY <2>4, <2>5
<1> QED  BY <1>4, <1>11, <1>12, <1>13 DEF InHand

LEMMA RestsWork ==
    ASSUME PageRows \in Nat, NEW c \in O!Chats, ScanTypes, CursorOf(c), WorkOf(c),
           NEW q, Rests(c, q), FitsOf(c, rows[c])'
    PROVE  WorkOf(c)'
<1> DEFINE now == opencodeScan.now
<1> SUFFICES ASSUME Working(c)' PROVE WorkOf(c)'
  BY DEF WorkOf
<1>1. opencodeScan' = opencodeScan /\ segment'[c] = segment[c]
  BY DEF Rests
<1>2. Working(c)
  BY <1>1 DEF Working
<1>3. /\ now.boundary = 0 => c \in Natives \/ segment[c] = "opencode-v2"
      /\ now.boundary # 0 => now.boundary = O!FirstNew(rows[c])
      /\ now.step = "revised" /\ now.boundary # 0 => segment[c] # "opencode-v2"
      /\ c \in Natives => now.rev[1] \in 0..Len(rows[c])
      /\ now.step = "read" =>
            /\ now.skipped = 0 /\ now.ready \in Seq(Ends)
            /\ \E m \in Nat : InHand(c, m)
  BY <1>2 DEF WorkOf
<1>4. /\ rows[c] \in Seq(Rows) /\ q \in Seq(Rows) /\ rows'[c] = rows[c] \o q
  BY DEF Rests, ScanTypes
<1>5. now.boundary # 0 => now.boundary = O!FirstNew(rows'[c])
  BY <1>3, <1>4, FirstNewStays
<1>6. c \in Natives => now.rev[1] \in 0..Len(rows'[c])
  BY <1>3, <1>4
<1>7. ASSUME now.step = "read"
      PROVE  \E m \in Nat : InHand(c, m)'
  <2>1. PICK m \in Nat : InHand(c, m)
    BY <1>3, <1>7
  <2>2. InHand(c, m)'
    BY <1>2, <1>3, <1>7, <2>1, RestsInHand
  <2> QED  BY <2>2
<1> QED  BY <1>1, <1>3, <1>5, <1>6, <1>7 DEF WorkOf

LEMMA RestsPending ==
    ASSUME PageRows \in Nat, NEW c \in O!Chats, ScanTypes, CursorOf(c), PendingOf(c),
           NEW q, Rests(c, q), FitsOf(c, rows[c])'
    PROVE  PendingOf(c)'
<1> DEFINE x == ClosedIn(c)
           y == ClosedIn(c)'
           b == opencodeCursor[c]
<1>1. /\ rows[c] \in Seq(Rows) /\ q \in Seq(Rows) /\ rows'[c] = rows[c] \o q
      /\ pending'[c] \in {pending[c], O!NoPending} /\ opencodeCursor'[c] = b
  BY DEF Rests, ScanTypes
<1>2. CASE pending'[c] = O!NoPending
  BY <1>2 DEF PendingOf, O!NoPending
<1>3. CASE pending'[c] = pending[c] /\ pending[c] # O!NoPending
  <2>1. pending[c].resume = 0
    BY DEF PendingOf
  <2> SUFFICES ASSUME c \in Natives
               PROVE  /\ pending[c].rev[1] \in 0..Len(rows'[c])
                      /\ pending[c].more \/ \A n \in DOMAIN y :
                            y[n].upto > b => y[n].upto > pending[c].rev[1]
    BY <1>1, <1>3, <2>1 DEF PendingOf
  <2>2. /\ pending[c].rev[1] \in 0..Len(rows[c])
        /\ pending[c].more \/ \A n \in DOMAIN x : x[n].upto > b => x[n].upto > pending[c].rev[1]
    BY <1>3 DEF PendingOf
  <2>3. GrownIn(c)
    BY RestsGrows, GrowsClosed
  <2>4. /\ \A n \in DOMAIN x : n \in DOMAIN y /\ y[n] = x[n]
        /\ \A n \in DOMAIN y : n \in DOMAIN x \/ y[n].upto > Len(rows[c])
        /\ \A n \in DOMAIN y : y[n].upto \in Nat
        /\ Len(rows[c]) \in Nat
    BY <2>3 DEF GrownIn
  <2> HIDE DEF x, y, b
  <2>5. ASSUME NEW n \in DOMAIN y, n \notin DOMAIN x PROVE y[n].upto > pending[c].rev[1]
    BY <2>2, <2>4, <2>5
  <2>6. pending[c].rev[1] \in 0..Len(rows'[c])
    BY <1>1, <2>2
  <2> QED  BY <2>2, <2>4, <2>5, <2>6
<1> QED  BY <1>1, <1>2, <1>3

LEMMA RestsKeeps ==
    ASSUME PageRows \in Nat, NEW c \in O!Chats, ScanTypes, FitsInv(c), NEW q, Rests(c, q)
    PROVE  FitsInv(c)'
<1> SUFFICES ASSUME FitsOf(c, rows[c])'
             PROVE  CursorOf(c)' /\ HistoryOf(c)' /\ WorkOf(c)' /\ PendingOf(c)'
  BY DEF FitsInv
<1>1. Grows(c, q)
  BY RestsGrows
<1>2. FitsOf(c, rows[c])
  BY <1>1, GrowsClosed
<1>3. CursorOf(c) /\ HistoryOf(c) /\ WorkOf(c) /\ PendingOf(c)
  BY <1>2 DEF FitsInv
<1>4. CursorOf(c)' /\ HistoryOf(c)'
  BY <1>1, <1>3, GrowsCursor, GrowsHistory
<1>5. WorkOf(c)' /\ PendingOf(c)'
  BY <1>3, RestsWork, RestsPending
<1> QED  BY <1>4, <1>5

\* The chat itself is as it was, in what a step leaves of it.
LEMMA RestsAsIs ==
    ASSUME NEW c \in O!Chats, ScanTypes, rows'[c] = rows[c], history'[c] = history[c],
           opencodeCursor'[c] = opencodeCursor[c], segment'[c] = segment[c],
           pending'[c] \in {pending[c], O!NoPending}, opencodeBarred' = opencodeBarred,
           v1' = v1, ~Working(c)'
    PROVE  Rests(c, <<>>)
BY DEF Rests, ScanTypes

\* Nothing bears a time later than the writes so far, and a scan lists a chat once.
Dated ==
    /\ watermark[1] <= writes /\ \A c \in O!Chats : updated[c] <= writes
    /\ \A l \in opencodeScan.listed : l[2] <= writes
    /\ \A l, k \in opencodeScan.listed : l[1] = k[1] => l = k

ScansInv ==
    /\ ScanTypes /\ Dated
    /\ \A c \in O!Chats : RoleOf(c) /\ FitsInv(c)

\* OpenCode and the user.
Untouched ==
    /\ history' = history /\ opencodeCursor' = opencodeCursor /\ segment' = segment
    /\ pending' = pending /\ handoff' = handoff /\ watermark' = watermark
    /\ opencodeScan' = opencodeScan

LEMMA RoleUntouched ==
    ASSUME NEW c, RoleOf(c), Untouched
    PROVE  RoleOf(c)'
BY DEF RoleOf, Untouched, Working, Offset

LEMMA RunsAreRows ==
    /\ \A kinds \in O!Runs : kinds \in Seq(Rows) /\ kinds # <<>>
    /\ <<"v1user", "v1reply">> \in Seq(Rows) /\ <<>> \in Seq(Rows)
BY DEF O!Runs, Rows

\* Rows are written now, or bear the time of the old format.
LEMMA AppendsKeeps ==
    ASSUME PageRows \in Nat, ScansInv, NEW c \in O!Chats, NEW kinds \in Seq(Rows), NEW time \in Nat,
           time = writes + 1 \/ (time = 0 /\ v1[c] # "none"), O!Appends(c, kinds, time)
    PROVE  ScansInv'
<1>1. /\ rows' = [rows EXCEPT ![c] = @ \o kinds] /\ updated' = [updated EXCEPT ![c] = time]
      /\ writes' = writes + 1 /\ v1' = v1 /\ opencodeBarred' = opencodeBarred /\ Untouched
  BY DEF O!Appends, O!storeVars, Untouched
<1>2. ScanTypes
  BY DEF ScansInv
<1>3. /\ rows \in [O!Chats -> Seq(Rows)] /\ updated \in [O!Chats -> Nat] /\ writes \in Nat
      /\ watermark \in Nat \X Nat /\ opencodeScan.listed \in SUBSET (O!Chats \X Nat)
  BY <1>2 DEF ScanTypes, ScanShape
<1>4. rows' \in [O!Chats -> Seq(Rows)] /\ updated' \in [O!Chats -> Nat] /\ writes' \in Nat
  <2>1. rows[c] \o kinds \in Seq(Rows)
    BY <1>3
  <2> QED  BY <1>1, <1>3, <2>1
<1>5. ScanTypes'
  BY <1>1, <1>2, <1>4 DEF ScanTypes, Untouched
<1>6. /\ watermark[1] \in Nat /\ watermark[1] <= writes /\ \A d \in O!Chats : updated[d] <= writes
      /\ \A l \in opencodeScan.listed : l[2] \in Nat /\ l[2] <= writes
      /\ \A l, k \in opencodeScan.listed : l[1] = k[1] => l = k
  BY <1>3 DEF ScansInv, Dated
<1>7. \A d \in O!Chats : updated'[d] = IF d = c THEN time ELSE updated[d]
  BY <1>1, <1>3
<1>8. Dated'
  <2>1. watermark' = watermark /\ opencodeScan' = opencodeScan
    BY <1>1 DEF Untouched
  <2>2. \A d \in O!Chats : updated'[d] <= writes'
    BY <1>1, <1>3, <1>6, <1>7
  <2> QED  BY <1>1, <1>3, <1>6, <2>1, <2>2 DEF Dated
<1>9. ASSUME NEW d \in O!Chats
      PROVE  RoleOf(d)' /\ FitsInv(d)'
  <2>1. RoleOf(d) /\ FitsInv(d)
    BY DEF ScansInv
  <2>2. RoleOf(d)'
    BY <1>1, <2>1, RoleUntouched
  <2> DEFINE q == IF d = c THEN kinds ELSE <<>>
  <2>3. q \in Seq(Rows) /\ rows'[d] = rows[d] \o q
    <3>1. CASE d = c
      BY <1>1, <1>3, <3>1
    <3>2. CASE d # c
      BY <1>1, <1>3, <3>2
    <3> QED  BY <3>1, <3>2
  <2>4. watermark' = watermark /\ opencodeScan' = opencodeScan
    BY <1>1 DEF Untouched
  <2>5. d = c /\ time = writes + 1 => Newer(d)'
    BY <1>3, <1>6, <1>7, <2>4 DEF Newer
  <2>6. d # c => (Newer(d) => Newer(d)') /\ q = <<>>
    BY <1>7, <2>4 DEF Newer
  <2>7. (Current(d) /\ Newer(d) => Newer(d)') /\ (q # <<>> /\ Current(d) => Newer(d)')
    BY <2>5, <2>6 DEF Current
  <2>8. Rests(d, q)
    BY <1>1, <2>3, <2>4, <2>7 DEF Rests, Untouched
  <2> HIDE DEF q
  <2> QED  BY <1>2, <2>1, <2>2, <2>8, RestsKeeps
<1> QED  BY <1>5, <1>8, <1>9 DEF ScansInv

LEMMA ChangesKeeps ==
    ASSUME PageRows \in Nat, ScansInv, NEW c \in O!Chats,
           (\E rest \in {"grown", "none"} : O!ChangesOldFormat(c, rest)) \/ O!IsBarred(c),
           Natives \cap Migrants = {}
    PROVE  ScansInv'
<1>1. /\ rows' = rows /\ updated' = updated /\ writes' = writes + 1 /\ Untouched
      /\ opencodeBarred \subseteq opencodeBarred'
      /\ \/ v1' = v1
         \/ \E rest \in (IF c \in Migrants THEN {"grown", "none"} ELSE {"grown"}) :
               v1' = [v1 EXCEPT ![c] = rest]
  BY DEF O!ChangesOldFormat, O!IsBarred, O!storeVars, Untouched
<1>2. ScanTypes
  BY DEF ScansInv
<1>3. v1 \in [O!Chats -> Formats] /\ writes \in Nat /\ watermark \in Nat \X Nat
      /\ updated \in [O!Chats -> Nat] /\ rows \in [O!Chats -> Seq(Rows)]
      /\ opencodeScan.listed \in SUBSET (O!Chats \X Nat)
  BY <1>2 DEF ScanTypes, ScanShape
<1>4. /\ v1' \in [O!Chats -> Formats]
      /\ \A d \in O!Chats : v1'[d] = v1[d] \/ v1'[d] = "grown" \/ (v1'[d] = "none" /\ d \in Migrants)
  BY <1>1, <1>3 DEF Formats
<1>5. ScanTypes'
  BY <1>1, <1>2, <1>3, <1>4 DEF ScanTypes, Untouched
<1>6. Dated'
  <2>1. watermark' = watermark /\ opencodeScan' = opencodeScan
    BY <1>1 DEF Untouched
  <2>2. /\ watermark[1] \in Nat /\ watermark[1] <= writes /\ \A d \in O!Chats : updated[d] <= writes
        /\ \A l \in opencodeScan.listed : l[2] \in Nat /\ l[2] <= writes
        /\ \A l, k \in opencodeScan.listed : l[1] = k[1] => l = k
    BY <1>3 DEF ScansInv, Dated
  <2> QED  BY <1>1, <1>3, <2>1, <2>2 DEF Dated
<1>7. ASSUME NEW d \in O!Chats
      PROVE  RoleOf(d)' /\ FitsInv(d)'
  <2>1. RoleOf(d) /\ FitsInv(d)
    BY DEF ScansInv
  <2>2. RoleOf(d)'
    BY <1>1, <2>1, RoleUntouched
  <2>3. Newer(d)' = Newer(d)
    BY <1>1 DEF Newer, Untouched
  <2>4. rows'[d] = rows[d] \o <<>> /\ <<>> \in Seq(Rows)
    BY <1>1, <1>3
  <2>5. Rests(d, <<>>)
    BY <1>1, <1>4, <2>3, <2>4 DEF Rests, Untouched
  <2> QED  BY <1>2, <2>1, <2>2, <2>5, RestsKeeps
<1> QED  BY <1>5, <1>6, <1>7 DEF ScansInv

\* A step of a scan behind which no chat is in hand, and none was stored of.
SourceRests ==
    /\ rows' = rows /\ updated' = updated /\ v1' = v1 /\ opencodeBarred' = opencodeBarred
    /\ writes' = writes
StoreRests == history' = history /\ opencodeCursor' = opencodeCursor /\ segment' = segment
HandoffRests ==
    DOMAIN handoff' = O!Chats /\ \A c \in O!Chats : handoff'[c].offset = handoff[c].offset
PendingRests ==
    DOMAIN pending' = O!Chats /\ \A c \in O!Chats : pending'[c] \in {pending[c], O!NoPending}

LEMMA IdleKeeps ==
    ASSUME PageRows \in Nat, ScansInv, SourceRests, StoreRests, HandoffRests, PendingRests,
           ScanShape(opencodeScan'), opencodeScan'.now = O!NoChat,
           watermark' \in Nat \X Nat, Dated'
    PROVE  ScansInv'
<1>1. ScanTypes
  BY DEF ScansInv
<1>2. ScanTypes'
  BY <1>1 DEF ScanTypes, SourceRests, StoreRests, HandoffRests, PendingRests
<1>3. opencodeScan'.now.step = "none"
  BY DEF O!NoChat
<1>4. ASSUME NEW d \in O!Chats
      PROVE  RoleOf(d)' /\ FitsInv(d)'
  <2>1. RoleOf(d) /\ FitsInv(d)
    BY DEF ScansInv
  <2>2. ~Working(d)'
    BY <1>3 DEF Working
  <2>3. RoleOf(d)'
    BY <2>1, <2>2 DEF RoleOf, StoreRests, HandoffRests, Offset
  <2>4. Rests(d, <<>>)
    BY <1>1, <2>2, RestsAsIs DEF SourceRests, StoreRests, PendingRests
  <2> QED  BY <1>1, <2>1, <2>3, <2>4, RestsKeeps
<1> QED  BY <1>2, <1>4 DEF ScansInv

\* The time listed of a chat.
LEMMA ConsumedIs ==
    ASSUME ScansInv, SourceRests, NEW c \in O!Chats, O!Consumed(c),
           opencodeScan'.listed = opencodeScan.listed,
           Natives \in SUBSET Nat, Migrants \in SUBSET Nat
    PROVE  /\ watermark' \in Nat \X Nat /\ Dated'
           /\ IF \E l \in opencodeScan.listed : l[1] = c
              THEN \E l \in opencodeScan.listed : l[1] = c /\ watermark' = <<l[2], c>>
              ELSE watermark' = watermark
<1> DEFINE ls == opencodeScan.listed
           at == O!ListedAt(c)
<1>1. /\ ls \in SUBSET (O!Chats \X Nat) /\ watermark \in Nat \X Nat
      /\ watermark[1] <= writes /\ \A d \in O!Chats : updated[d] <= writes
      /\ \A l \in ls : l[2] <= writes
      /\ \A l, k \in ls : l[1] = k[1] => l = k
  BY DEF ScansInv, ScanTypes, ScanShape, Dated
<1>2. c \in Nat
  BY DEF O!Chats
<1>3. at = {l[2] : l \in {x \in ls : x[1] = c}}
  BY DEF O!ListedAt
<1>4. CASE \E l \in ls : l[1] = c
  <2>1. at # {}
    BY <1>3, <1>4
  <2>2. PICK t \in at : watermark' = <<t, c>>
    BY <2>1 DEF O!Consumed
  <2>3. PICK l \in ls : l[1] = c /\ t = l[2]
    BY <1>3, <2>2
  <2>4. watermark' = <<l[2], c>> /\ l[2] \in Nat /\ l[2] <= writes
    BY <1>1, <2>2, <2>3
  <2>5. watermark' \in Nat \X Nat /\ watermark'[1] = l[2]
    BY <1>2, <2>4
  <2>6. Dated'
    BY <1>1, <2>4, <2>5 DEF Dated, SourceRests
  <2> QED  BY <1>4, <2>3, <2>4, <2>5, <2>6
<1>5. CASE ~\E l \in ls : l[1] = c
  <2>1. at = {}
    BY <1>3, <1>5
  <2>2. watermark' = watermark
    BY <2>1 DEF O!Consumed
  <2>3. Dated'
    BY <1>1, <2>2 DEF Dated, SourceRests
  <2> QED  BY <1>1, <1>5, <2>2, <2>3
<1> QED  BY <1>4, <1>5

LEMMA DatedRests ==
    ASSUME Dated, SourceRests, watermark' = watermark,
           opencodeScan'.listed \in {opencodeScan.listed, {}}
    PROVE  Dated'
BY DEF Dated, SourceRests

\* The chats discovery lists.
LEMMA StartsFields ==
    ASSUME O!StartsScan
    PROVE  /\ opencodeScan'.phase = "discovery" /\ opencodeScan'.now = O!NoChat
           /\ opencodeScan'.queue = O!InOrder(O!Dirty, O!Earlier)
                                    \o O!InOrder(O!Waiting \ O!Dirty, O!Smaller)
           /\ opencodeScan'.listed = {<<c, updated[c]>> : c \in O!Dirty}
           /\ DOMAIN opencodeScan' = ScanFields
           /\ SourceRests /\ StoreRests /\ pending' = pending /\ handoff' = handoff
           /\ watermark' = watermark
<1>1. /\ SourceRests /\ StoreRests /\ pending' = pending /\ handoff' = handoff
      /\ watermark' = watermark
  BY DEF O!StartsScan, O!sourceVars, O!storeVars, SourceRests, StoreRests
<1> DEFINE q == O!InOrder(O!Dirty, O!Earlier) \o O!InOrder(O!Waiting \ O!Dirty, O!Smaller)
           ls == {<<c, updated[c]>> : c \in O!Dirty}
<1>2. opencodeScan' = [O!NoScan EXCEPT !.phase = "discovery", !.queue = q, !.listed = ls]
  BY DEF O!StartsScan
<1> HIDE DEF q, ls
<1>3. /\ opencodeScan'.phase = "discovery" /\ opencodeScan'.now = O!NoChat
      /\ opencodeScan'.queue = q /\ opencodeScan'.listed = ls
      /\ DOMAIN opencodeScan' = ScanFields
  BY <1>2 DEF O!NoScan, ScanFields
<1> QED  BY <1>1, <1>3 DEF q, ls

LEMMA StartsKeeps ==
    ASSUME ChatsGiven, ScansInv, O!StartsScan
    PROVE  ScansInv'
<1>1. ScanTypes /\ Dated /\ PageRows \in Nat
  BY DEF ScansInv, ChatsGiven
<1>2. updated \in [O!Chats -> Nat] /\ O!Dirty \in SUBSET O!Chats
      /\ O!Waiting \ O!Dirty \in SUBSET O!Chats
  BY <1>1 DEF ScanTypes, O!Dirty, O!Waiting
<1>3. opencodeScan'.queue \in Seq(O!Chats)
  <2> DEFINE x == O!InOrder(O!Dirty, O!Earlier)
             y == O!InOrder(O!Waiting \ O!Dirty, O!Smaller)
  <2>1. x \in Seq(O!Chats)
    BY <1>2, QueueByTime
  <2>2. y \in Seq(O!Chats)
    BY <1>2, QueueById
  <2>3. opencodeScan'.queue = x \o y
    BY StartsFields
  <2> HIDE DEF x, y
  <2> QED  BY <2>1, <2>2, <2>3
<1>4. opencodeScan'.listed \in SUBSET (O!Chats \X Nat)
  BY <1>2, StartsFields
<1>5. ScanShape(opencodeScan')
  BY <1>3, <1>4, StartsFields, NoScanShape DEF ScanShape
<1>6. Dated'
  BY <1>1, StartsFields DEF Dated, SourceRests, O!Dirty
<1>7. HandoffRests /\ PendingRests
  BY <1>1, StartsFields DEF HandoffRests, PendingRests, ScanTypes
<1>8. watermark' \in Nat \X Nat
  BY <1>1, StartsFields DEF ScanTypes
<1> QED  BY <1>1, <1>5, <1>6, <1>7, <1>8, StartsFields, IdleKeeps

\* The scan passes over the next chat of its queue.
LEMMA RestIs ==
    ASSUME ScanShape(opencodeScan), opencodeScan.queue # <<>>, opencodeScan' = O!Rest
    PROVE  /\ ScanShape(opencodeScan') /\ opencodeScan'.now = O!NoChat
           /\ opencodeScan'.queue = Tail(opencodeScan.queue)
           /\ opencodeScan'.listed = opencodeScan.listed
           /\ opencodeScan'.phase = opencodeScan.phase
<1> DEFINE s == opencodeScan
           u == opencodeScan'
<1>1. u = [s EXCEPT !.queue = Tail(s.queue), !.now = O!NoChat]
  BY DEF O!Rest
<1>2. WorkShape(O!NoChat) /\ ScanShape(s) /\ s.queue # <<>>
  BY NoScanShape
<1> HIDE DEF s, u
<1>3. /\ DOMAIN u = ScanFields /\ u.now = O!NoChat /\ u.queue = Tail(s.queue)
      /\ u.listed = s.listed /\ u.phase = s.phase
  BY <1>1, <1>2 DEF ScanShape, ScanFields
<1>4. Tail(s.queue) \in Seq(O!Chats)
  BY <1>2 DEF ScanShape
<1>5. ScanShape(u)
  BY <1>2, <1>3, <1>4 DEF ScanShape
<1> QED  BY <1>3, <1>5 DEF s, u

LEMMA HeadIs ==
    ASSUME ScansInv, opencodeScan.queue # <<>>
    PROVE  /\ Head(opencodeScan.queue) \in O!Chats /\ opencodeScan.queue[1] = Head(opencodeScan.queue)
           /\ opencodeScan.queue \in Seq(O!Chats)
<1>1. opencodeScan.queue \in Seq(O!Chats)
  BY DEF ScansInv, ScanTypes, ScanShape
<1> QED  BY <1>1

LEMMA SkipsKeeps ==
    ASSUME ChatsGiven, ScansInv, O!SkipsChat
    PROVE  ScansInv'
<1> DEFINE c == Head(opencodeScan.queue)
<1>1. ScanTypes /\ PageRows \in Nat /\ ScanShape(opencodeScan)
  BY DEF ScansInv, ChatsGiven, ScanTypes
<1>2. /\ opencodeScan.queue # <<>> /\ (O!PassesOver(c) \/ O!HasNoNews(c))
      /\ O!Consumed(c) /\ opencodeScan' = O!Rest
      /\ SourceRests /\ StoreRests /\ handoff' = handoff
  BY DEF O!SkipsChat, O!Turns, O!sourceVars, SourceRests, StoreRests
<1>3. c \in O!Chats
  BY <1>2, HeadIs
<1>4. PendingRests
  <2>1. pending' = pending \/ pending' = [pending EXCEPT ![c] = O!NoPending]
    BY <1>2 DEF O!PassesOver, O!HasNoNews, O!Drops
  <2> HIDE DEF c
  <2> QED  BY <1>1, <2>1 DEF PendingRests, ScanTypes
<1>5. ScanShape(opencodeScan') /\ opencodeScan'.now = O!NoChat
      /\ opencodeScan'.listed = opencodeScan.listed
  BY <1>1, <1>2, RestIs
<1>6. watermark' \in Nat \X Nat /\ Dated'
  BY <1>2, <1>3, <1>5, ConsumedIs DEF ChatsGiven
<1>7. HandoffRests
  BY <1>1, <1>2 DEF HandoffRests, ScanTypes
<1> QED  BY <1>1, <1>2, <1>4, <1>5, <1>6, <1>7, IdleKeeps

\* Whatever a pass records of a chat but an offset.
LEMMA RecordedRests ==
    ASSUME DOMAIN handoff = O!Chats, NEW c \in O!Chats, NEW outcome, NEW rev, NEW more,
           NEW offset, O!Recorded(c, outcome, offset, rev, more),
           offset = -1 \/ handoff[c].offset # -1
    PROVE  HandoffRests
<1> DEFINE e == [status |-> outcome, rev |-> rev, more |-> more,
                 offset |-> IF handoff[c].offset # -1 THEN handoff[c].offset ELSE offset]
<1>1. handoff' = handoff \/ handoff' = [handoff EXCEPT ![c] = e]
  BY DEF O!Recorded
<1>2. e.offset = handoff[c].offset
  OBVIOUS
<1> HIDE DEF e
<1> QED  BY <1>1, <1>2 DEF HandoffRests

LEMMA LeavesKeeps ==
    ASSUME ChatsGiven, ScansInv, O!LeavesOverlap
    PROVE  ScansInv'
<1> DEFINE c == Head(opencodeScan.queue)
<1>1. ScanTypes /\ PageRows \in Nat /\ ScanShape(opencodeScan) /\ Dated
  BY DEF ScansInv, ChatsGiven, ScanTypes
<1>2. /\ opencodeScan.queue # <<>> /\ O!LeavesChat(c) /\ opencodeScan' = O!Rest
      /\ SourceRests /\ StoreRests /\ pending' = pending /\ watermark' = watermark
  BY DEF O!LeavesOverlap, O!Turns, O!sourceVars, SourceRests, StoreRests
<1>3. c \in O!Chats
  BY <1>2, HeadIs
<1>4. HandoffRests
  <2>1. DOMAIN handoff = O!Chats
    BY <1>1 DEF ScanTypes
  <2>2. \/ handoff' = handoff
        \/ O!Recorded(c, "abstained", -1, O!BothRevisions(c), FALSE)
        \/ O!Recorded(c, "waiting", -1, O!BothRevisions(c), FALSE)
    BY <1>2 DEF O!LeavesChat
  <2>3. handoff' = handoff => HandoffRests
    BY <2>1 DEF HandoffRests
  <2> HIDE DEF c
  <2> QED  BY <1>3, <2>1, <2>2, <2>3, RecordedRests
<1>5. ScanShape(opencodeScan') /\ opencodeScan'.now = O!NoChat
      /\ opencodeScan'.listed = opencodeScan.listed
  BY <1>1, <1>2, RestIs
<1>6. watermark' \in Nat \X Nat /\ Dated'
  BY <1>1, <1>2, <1>5, DatedRests DEF ScanTypes
<1>7. PendingRests
  BY <1>1, <1>2 DEF PendingRests, ScanTypes
<1> QED  BY <1>1, <1>2, <1>4, <1>5, <1>6, <1>7, IdleKeeps

\* The overlap cycle starts, and the scan ends or is stopped.
LEMMA OverlapFields ==
    ASSUME O!StartsOverlap
    PROVE  \E X, Y \in SUBSET O!Chats :
              /\ opencodeScan'.phase = "overlap" /\ opencodeScan'.now = O!NoChat
              /\ opencodeScan'.queue = O!InOrder(X, O!Smaller) \o O!InOrder(Y, O!Smaller)
              /\ opencodeScan'.listed = {} /\ DOMAIN opencodeScan' = ScanFields
<1> DEFINE behind == {c \in O!Overlapping : c > visited}
           page   == {c \in behind : \A d \in behind : c <= d}
           more   == {c \in O!Overlapping : handoff[c].more}
           q      == O!InOrder(more \ page, O!Smaller) \o O!InOrder(page, O!Smaller)
<1>1. opencodeScan' = [O!NoScan EXCEPT !.phase = "overlap", !.queue = q]
  BY DEF O!StartsOverlap
<1>2. page \in SUBSET O!Chats /\ more \ page \in SUBSET O!Chats
  BY DEF O!Overlapping
<1>3. /\ opencodeScan'.phase = "overlap" /\ opencodeScan'.now = O!NoChat
      /\ opencodeScan'.queue = q /\ opencodeScan'.listed = {}
      /\ DOMAIN opencodeScan' = ScanFields
  <2> HIDE DEF q
  <2> QED  BY <1>1 DEF O!NoScan, ScanFields
<1> HIDE DEF page, more
<1> QED  BY <1>2, <1>3

LEMMA OverlapShape ==
    ASSUME ChatsGiven, O!StartsOverlap
    PROVE  ScanShape(opencodeScan')
<1>1. PICK X, Y \in SUBSET O!Chats :
              /\ opencodeScan'.phase = "overlap" /\ opencodeScan'.now = O!NoChat
              /\ opencodeScan'.queue = O!InOrder(X, O!Smaller) \o O!InOrder(Y, O!Smaller)
              /\ opencodeScan'.listed = {} /\ DOMAIN opencodeScan' = ScanFields
  BY OverlapFields
<1> DEFINE x == O!InOrder(X, O!Smaller)
           y == O!InOrder(Y, O!Smaller)
<1>2. x \in Seq(O!Chats) /\ y \in Seq(O!Chats)
  BY QueueById
<1>3. opencodeScan'.queue = x \o y
  BY <1>1
<1> HIDE DEF x, y
<1>4. opencodeScan'.queue \in Seq(O!Chats)
  BY <1>2, <1>3
<1> QED  BY <1>1, <1>4, NoScanShape DEF ScanShape

LEMMA OverlapKeeps ==
    ASSUME ChatsGiven, ScansInv, O!StartsOverlap
    PROVE  ScansInv'
<1>1. ScanTypes /\ Dated /\ PageRows \in Nat
  BY DEF ScansInv, ChatsGiven
<1>2. /\ SourceRests /\ StoreRests /\ pending' = pending /\ handoff' = handoff
      /\ watermark' = watermark
  BY DEF O!StartsOverlap, O!sourceVars, SourceRests, StoreRests
<1>3. ScanShape(opencodeScan') /\ opencodeScan'.now = O!NoChat /\ opencodeScan'.listed = {}
  BY OverlapShape, OverlapFields
<1>4. watermark' \in Nat \X Nat /\ Dated'
  BY <1>1, <1>2, <1>3, DatedRests DEF ScanTypes
<1>5. HandoffRests /\ PendingRests
  BY <1>1, <1>2 DEF HandoffRests, PendingRests, ScanTypes
<1> QED  BY <1>1, <1>2, <1>3, <1>4, <1>5, IdleKeeps

LEMMA EndsKeeps ==
    ASSUME ChatsGiven, ScansInv, O!EndsScan \/ O!Stops
    PROVE  ScansInv'
<1>1. ScanTypes /\ Dated /\ PageRows \in Nat /\ ScanShape(opencodeScan)
  BY DEF ScansInv, ChatsGiven, ScanTypes
<1>2. /\ SourceRests /\ StoreRests /\ pending' = pending /\ handoff' = handoff
      /\ watermark' = watermark
      /\ opencodeScan' = O!NoScan \/ opencodeScan' = [opencodeScan EXCEPT !.now = O!NoChat]
  BY DEF O!EndsScan, O!Stops, O!sourceVars, O!storeVars, SourceRests, StoreRests
<1>3. /\ ScanShape(opencodeScan') /\ opencodeScan'.now = O!NoChat
      /\ opencodeScan'.listed \in {opencodeScan.listed, {}}
  <2>1. CASE opencodeScan' = O!NoScan
    BY <2>1, NoScanShape DEF O!NoScan
  <2>2. CASE opencodeScan' = [opencodeScan EXCEPT !.now = O!NoChat]
    BY <1>1, <2>2, ScanResting
  <2> QED  BY <1>2, <2>1, <2>2
<1>4. watermark' \in Nat \X Nat /\ Dated'
  BY <1>1, <1>2, <1>3, DatedRests DEF ScanTypes
<1>5. HandoffRests /\ PendingRests
  BY <1>1, <1>2 DEF HandoffRests, PendingRests, ScanTypes
<1> QED  BY <1>1, <1>2, <1>3, <1>4, <1>5, IdleKeeps

\* A step on one chat leaves the others to themselves.
Others(c) ==
    \A d \in O!Chats \ {c} :
       /\ history'[d] = history[d] /\ opencodeCursor'[d] = opencodeCursor[d]
       /\ segment'[d] = segment[d] /\ handoff'[d].offset = handoff[d].offset
       /\ pending'[d] \in {pending[d], O!NoPending} /\ ~Working(d)'

LEMMA OneKeeps ==
    ASSUME PageRows \in Nat, ScansInv, SourceRests, NEW c \in O!Chats, Others(c),
           ScanTypes', Dated', RoleOf(c)', FitsInv(c)'
    PROVE  ScansInv'
<1> SUFFICES ASSUME NEW d \in O!Chats \ {c}
             PROVE  RoleOf(d)' /\ FitsInv(d)'
  BY DEF ScansInv
<1>1. /\ d \in O!Chats /\ history'[d] = history[d] /\ opencodeCursor'[d] = opencodeCursor[d]
      /\ segment'[d] = segment[d] /\ handoff'[d].offset = handoff[d].offset
      /\ pending'[d] \in {pending[d], O!NoPending} /\ ~Working(d)'
  BY DEF Others
<1>2. RoleOf(d) /\ FitsInv(d) /\ ScanTypes
  BY DEF ScansInv
<1>3. RoleOf(d)'
  BY <1>1, <1>2 DEF RoleOf, Offset
<1>4. Rests(d, <<>>)
  BY <1>1, <1>2, RestsAsIs DEF SourceRests
<1> QED  BY <1>1, <1>2, <1>3, <1>4, RestsKeeps

LEMMA StaysIn ==
    ASSUME SourceRests, StoreRests, pending' = pending, NEW c \in O!Chats,
           FitsInv(c), FitsOf(c, rows[c]) => WorkOf(c)'
    PROVE  FitsInv(c)'
<1>1. CursorOf(c)' = CursorOf(c) /\ PendingOf(c)' = PendingOf(c) /\ ClosedIn(c)' = ClosedIn(c)
  BY DEF CursorOf, PendingOf, ClosedIn, SourceRests, StoreRests
<1>2. HistoryOf(c)' = HistoryOf(c)
  BY <1>1 DEF HistoryOf, StoreRests, Offset
<1>3. FitsOf(c, rows[c])' = FitsOf(c, rows[c])
  BY DEF FitsOf, SourceRests
<1> QED  BY <1>1, <1>2, <1>3 DEF FitsInv

\* Discovery takes the chats of the new format in hand.
LEMMA TakesFields ==
    ASSUME ScanShape(opencodeScan), O!TakesChat
    PROVE  LET c == Head(opencodeScan.queue)
               now == opencodeScan'.now
           IN /\ O!Fresh(c) /\ opencodeScan.phase = "discovery" /\ opencodeScan.queue # <<>>
              /\ opencodeScan.now = O!NoChat
              /\ DOMAIN opencodeScan' = ScanFields /\ opencodeScan'.phase = "discovery"
              /\ opencodeScan'.queue = Tail(opencodeScan.queue)
              /\ opencodeScan'.listed = opencodeScan.listed
              /\ DOMAIN now = WorkFields /\ now.chat = c /\ now.rev = <<Len(rows[c])>>
              /\ now.offset = 0 /\ now.boundary = 0 /\ now.step = "revised"
              /\ SourceRests /\ StoreRests /\ pending' = pending /\ handoff' = handoff
              /\ watermark' = watermark
<1> DEFINE c == Head(opencodeScan.queue)
           w == [O!NoChat EXCEPT !.chat = c, !.rev = O!Revision(c), !.before = opencodeCursor[c],
                                 !.step = "revised"]
<1>1. /\ O!Fresh(c) /\ opencodeScan.phase = "discovery" /\ opencodeScan.queue # <<>>
      /\ opencodeScan.now = O!NoChat
      /\ opencodeScan' = [opencodeScan EXCEPT !.queue = Tail(opencodeScan.queue), !.now = w]
      /\ SourceRests /\ StoreRests /\ pending' = pending /\ handoff' = handoff
      /\ watermark' = watermark
  BY DEF O!TakesChat, O!Turns, O!sourceVars, O!storeVars, SourceRests, StoreRests
<1>2. /\ DOMAIN w = WorkFields /\ w.chat = c /\ w.rev = <<Len(rows[c])>>
      /\ w.offset = 0 /\ w.boundary = 0 /\ w.step = "revised"
  <2> HIDE DEF c
  <2> QED  BY DEF O!NoChat, WorkFields, O!Revision
<1> HIDE DEF w
<1>3. /\ DOMAIN opencodeScan' = ScanFields /\ opencodeScan'.phase = "discovery"
      /\ opencodeScan'.queue = Tail(opencodeScan.queue)
      /\ opencodeScan'.listed = opencodeScan.listed /\ opencodeScan'.now = w
  BY <1>1 DEF ScanShape, ScanFields
<1> QED  BY <1>1, <1>2, <1>3

LEMMA TakesKeeps ==
    ASSUME ChatsGiven, ScansInv, O!TakesChat
    PROVE  ScansInv'
<1> DEFINE now == opencodeScan'.now
<1>1. ScanTypes /\ Dated /\ PageRows \in Nat /\ ScanShape(opencodeScan)
  BY DEF ScansInv, ChatsGiven, ScanTypes
<1>0. PICK c : c = Head(opencodeScan.queue)
  OBVIOUS
<1>2. /\ O!Fresh(c) /\ opencodeScan.queue # <<>>
      /\ DOMAIN opencodeScan' = ScanFields /\ opencodeScan'.phase = "discovery"
      /\ opencodeScan'.queue = Tail(opencodeScan.queue)
      /\ opencodeScan'.listed = opencodeScan.listed
      /\ DOMAIN now = WorkFields /\ now.chat = c /\ now.rev = <<Len(rows[c])>>
      /\ now.offset = 0 /\ now.boundary = 0 /\ now.step = "revised"
      /\ SourceRests /\ StoreRests /\ pending' = pending /\ handoff' = handoff
      /\ watermark' = watermark
  BY <1>0, <1>1, TakesFields
<1>3. c \in O!Chats /\ Tail(opencodeScan.queue) \in Seq(O!Chats)
  <2>1. opencodeScan.queue \in Seq(O!Chats)
    BY <1>1 DEF ScanShape
  <2> QED  BY <1>0, <1>2, <2>1
<1> HIDE DEF now
<1>4. WorkShape(now)
  BY <1>2, <1>3 DEF WorkShape
<1>5. ScanShape(opencodeScan')
  BY <1>1, <1>2, <1>3, <1>4 DEF ScanShape, now
<1>6. ScanTypes'
  BY <1>1, <1>2, <1>5 DEF ScanTypes, SourceRests, StoreRests
<1>7. Dated'
  BY <1>1, <1>2, DatedRests
<1>8. RoleOf(c) /\ FitsInv(c)
  BY <1>3 DEF ScansInv
<1>9. c \in Natives
  <2>1. handoff[c] = O!NoHandoff => handoff[c].offset = -1
    BY DEF O!NoHandoff
  <2>2. segment[c] \in Segments
    BY <1>1, <1>3 DEF ScanTypes
  <2> QED  BY <1>2, <1>8, <2>1, <2>2 DEF O!Fresh, RoleOf, Segments
<1>10. RoleOf(c)'
  BY <1>2, <1>8, <1>9 DEF RoleOf, StoreRests, Offset, now
<1>11. WorkOf(c)'
  <2>1. Len(rows[c]) \in Nat /\ rows' = rows
    BY <1>1, <1>2, <1>3 DEF ScanTypes, SourceRests
  <2>2. now.rev[1] \in 0..Len(rows'[c])
    BY <1>2, <2>1
  <2> QED  BY <1>2, <1>9, <2>2 DEF WorkOf, now
<1>12. FitsInv(c)'
  BY <1>2, <1>3, <1>8, <1>11, StaysIn
<1>13. Others(c)
  BY <1>2 DEF Others, StoreRests, Working, now
<1> QED  BY <1>1, <1>2, <1>3, <1>6, <1>7, <1>10, <1>12, <1>13, OneKeeps

\* The overlap cycle takes chats with a stored history of the old format in hand.
LEMMA OverFields ==
    ASSUME ScanShape(opencodeScan), O!TakesOver
    PROVE  LET c == Head(opencodeScan.queue)
               now == opencodeScan'.now
           IN /\ opencodeScan.phase = "overlap" /\ opencodeScan.queue # <<>>
              /\ DOMAIN opencodeScan' = ScanFields /\ opencodeScan'.phase = "overlap"
              /\ opencodeScan'.queue = Tail(opencodeScan.queue)
              /\ opencodeScan'.listed = opencodeScan.listed
              /\ DOMAIN now = WorkFields /\ now.chat = c
              /\ now.offset = O!OffsetOf(c) /\ now.step = "revised" /\ c \notin opencodeBarred
              /\ \/ /\ segment[c] = "opencode-v2" /\ handoff[c].offset # -1
                    /\ now.boundary = 0 /\ handoff' = handoff
                 \/ /\ segment[c] = "native" /\ O!FirstNew(rows[c]) # 0 /\ O!Verified(c)
                    /\ now.boundary = O!FirstNew(rows[c])
                    /\ O!Recorded(c, "waiting", O!OffsetOf(c), <<>>, FALSE)
              /\ SourceRests /\ StoreRests /\ pending' = pending /\ watermark' = watermark
<1> DEFINE c == Head(opencodeScan.queue)
           w == [O!NoChat EXCEPT !.chat = c, !.rev = O!BothRevisions(c),
                                 !.before = opencodeCursor[c], !.offset = O!OffsetOf(c),
                                 !.step = "revised"]
           v == [w EXCEPT !.boundary = O!FirstNew(rows[c])]
           first  == segment[c] = "opencode-v2" /\ handoff[c].offset # -1 /\ handoff' = handoff
           second == /\ segment[c] = "native" /\ O!FirstNew(rows[c]) # 0 /\ O!Verified(c)
                     /\ O!Recorded(c, "waiting", O!OffsetOf(c), <<>>, FALSE)
<1>1. /\ opencodeScan.phase = "overlap" /\ opencodeScan.queue # <<>> /\ c \notin opencodeBarred
      /\ \/ first /\ opencodeScan' = [opencodeScan EXCEPT !.queue = Tail(opencodeScan.queue), !.now = w]
         \/ second /\ opencodeScan' = [opencodeScan EXCEPT !.queue = Tail(opencodeScan.queue), !.now = v]
      /\ SourceRests /\ StoreRests /\ pending' = pending /\ watermark' = watermark
  BY DEF O!TakesOver, O!Turns, O!sourceVars, SourceRests, StoreRests
<1>2. /\ DOMAIN w = WorkFields /\ w.chat = c /\ w.offset = O!OffsetOf(c)
      /\ w.step = "revised" /\ w.boundary = 0
  <2> DEFINE o == O!OffsetOf(c)
             b == O!BothRevisions(c)
  <2> HIDE DEF c, o, b
  <2> QED  BY DEF O!NoChat, WorkFields
<1>3. /\ DOMAIN v = WorkFields /\ v.chat = c /\ v.offset = O!OffsetOf(c)
      /\ v.step = "revised" /\ v.boundary = O!FirstNew(rows[c])
  <2> DEFINE f == O!FirstNew(rows[c])
  <2> HIDE DEF w, c, f
  <2> QED  BY <1>2 DEF WorkFields
<1> HIDE DEF w, v
<1>4. ASSUME NEW u, opencodeScan' = [opencodeScan EXCEPT !.queue = Tail(opencodeScan.queue), !.now = u]
      PROVE  /\ DOMAIN opencodeScan' = ScanFields /\ opencodeScan'.phase = opencodeScan.phase
             /\ opencodeScan'.queue = Tail(opencodeScan.queue)
             /\ opencodeScan'.listed = opencodeScan.listed /\ opencodeScan'.now = u
  BY <1>4 DEF ScanShape, ScanFields
<1>5. CASE first /\ opencodeScan' = [opencodeScan EXCEPT !.queue = Tail(opencodeScan.queue), !.now = w]
  <2>1. /\ DOMAIN opencodeScan' = ScanFields /\ opencodeScan'.phase = opencodeScan.phase
        /\ opencodeScan'.queue = Tail(opencodeScan.queue)
        /\ opencodeScan'.listed = opencodeScan.listed /\ opencodeScan'.now = w
    BY <1>4, <1>5
  <2> QED  BY <1>1, <1>2, <1>5, <2>1
<1>6. CASE second /\ opencodeScan' = [opencodeScan EXCEPT !.queue = Tail(opencodeScan.queue), !.now = v]
  <2>1. /\ DOMAIN opencodeScan' = ScanFields /\ opencodeScan'.phase = opencodeScan.phase
        /\ opencodeScan'.queue = Tail(opencodeScan.queue)
        /\ opencodeScan'.listed = opencodeScan.listed /\ opencodeScan'.now = v
    BY <1>4, <1>6
  <2> QED  BY <1>1, <1>3, <1>6, <2>1
<1> QED  BY <1>1, <1>5, <1>6

LEMMA OffsetIs ==
    ASSUME NEW c, c \notin Natives, handoff[c].offset \in {-1, Offset(c)}
    PROVE  O!OffsetOf(c) = Offset(c) /\ Offset(c) # -1 /\ Offset(c) = 4
BY DEF O!OffsetOf, Offset, O!V1Turns

\* An offset is recorded.
LEMMA OffsetRecorded ==
    ASSUME DOMAIN handoff = O!Chats, NEW c \in O!Chats, c \notin opencodeBarred,
           O!Recorded(c, "waiting", O!OffsetOf(c), <<>>, FALSE)
    PROVE  /\ DOMAIN handoff' = O!Chats
           /\ \A d \in O!Chats \ {c} : handoff'[d].offset = handoff[d].offset
           /\ handoff'[c].offset = IF handoff[c].offset # -1 THEN handoff[c].offset ELSE O!OffsetOf(c)
<1> DEFINE o == O!OffsetOf(c)
           e == [status |-> "waiting", rev |-> <<>>, more |-> FALSE,
                 offset |-> IF handoff[c].offset # -1 THEN handoff[c].offset ELSE o]
<1>1. handoff' = [handoff EXCEPT ![c] = e]
  BY DEF O!Recorded
<1> HIDE DEF o
<1>2. e.offset = IF handoff[c].offset # -1 THEN handoff[c].offset ELSE o
  OBVIOUS
<1> HIDE DEF e
<1> QED  BY <1>1, <1>2 DEF o

LEMMA TakesOverKeeps ==
    ASSUME ChatsGiven, ScansInv, O!TakesOver
    PROVE  ScansInv'
<1> DEFINE now == opencodeScan'.now
<1>0. PICK c : c = Head(opencodeScan.queue)
  OBVIOUS
<1>1. ScanTypes /\ Dated /\ PageRows \in Nat /\ ScanShape(opencodeScan)
  BY DEF ScansInv, ChatsGiven, ScanTypes
<1> DEFINE first  == /\ segment[c] = "opencode-v2" /\ handoff[c].offset # -1
                     /\ now.boundary = 0 /\ handoff' = handoff
           second == /\ segment[c] = "native" /\ O!FirstNew(rows[c]) # 0 /\ O!Verified(c)
                     /\ now.boundary = O!FirstNew(rows[c])
                     /\ O!Recorded(c, "waiting", O!OffsetOf(c), <<>>, FALSE)
<1>2. /\ opencodeScan.phase = "overlap" /\ opencodeScan.queue # <<>>
      /\ DOMAIN opencodeScan' = ScanFields /\ opencodeScan'.phase = "overlap"
      /\ opencodeScan'.queue = Tail(opencodeScan.queue)
      /\ opencodeScan'.listed = opencodeScan.listed
      /\ DOMAIN now = WorkFields /\ now.chat = c
      /\ now.offset = O!OffsetOf(c) /\ now.step = "revised" /\ c \notin opencodeBarred
      /\ first \/ second
      /\ SourceRests /\ StoreRests /\ pending' = pending /\ watermark' = watermark
  BY <1>0, <1>1, OverFields
<1>3. c \in O!Chats /\ Tail(opencodeScan.queue) \in Seq(O!Chats)
  <2>1. opencodeScan.queue \in Seq(O!Chats)
    BY <1>1 DEF ScanShape
  <2> QED  BY <1>0, <1>2, <2>1
<1>4. WorkShape(now)
  <2> HIDE DEF now
  <2> QED  BY <1>2, <1>3 DEF WorkShape
<1>5. ScanShape(opencodeScan')
  BY <1>1, <1>2, <1>3, <1>4 DEF ScanShape
<1>6. RoleOf(c) /\ FitsInv(c)
  BY <1>3 DEF ScansInv
<1>7. c \notin Natives
  BY <1>2, <1>6 DEF RoleOf
<1>8. /\ handoff[c].offset \in {-1, Offset(c)} /\ segment[c] # "none"
      /\ segment[c] = "opencode-v2" => handoff[c].offset # -1
  BY <1>6, <1>7 DEF RoleOf
<1>9. O!OffsetOf(c) = Offset(c) /\ Offset(c) = 4
  BY <1>7, <1>8, OffsetIs
<1>10. /\ DOMAIN handoff' = O!Chats
       /\ \A d \in O!Chats \ {c} : handoff'[d].offset = handoff[d].offset
       /\ handoff'[c].offset = Offset(c)
  <2>1. DOMAIN handoff = O!Chats
    BY <1>1 DEF ScanTypes
  <2>2. CASE first
    BY <1>8, <2>1, <2>2
  <2>3. CASE second
    <3>1. O!Recorded(c, "waiting", O!OffsetOf(c), <<>>, FALSE)
      BY <2>3
    <3>2. /\ DOMAIN handoff' = O!Chats
          /\ \A d \in O!Chats \ {c} : handoff'[d].offset = handoff[d].offset
          /\ handoff'[c].offset = IF handoff[c].offset # -1 THEN handoff[c].offset ELSE O!OffsetOf(c)
      BY <1>2, <1>3, <2>1, <3>1, OffsetRecorded
    <3> QED  BY <1>8, <1>9, <3>2
  <2> HIDE DEF first, second
  <2> QED  BY <1>2, <2>2, <2>3
<1>11. ScanTypes'
  BY <1>1, <1>2, <1>5, <1>10 DEF ScanTypes, SourceRests, StoreRests
<1>12. Dated'
  BY <1>1, <1>2, DatedRests
<1>13. RoleOf(c)'
  <2>1. Offset(c)' = Offset(c)
    BY DEF Offset
  <2> HIDE DEF first, second
  <2> QED  BY <1>2, <1>6, <1>7, <1>8, <1>9, <1>10, <2>1 DEF RoleOf, StoreRests
<1>14. WorkOf(c)'
  <2>1. rows' = rows /\ segment' = segment
    BY <1>2 DEF SourceRests, StoreRests
  <2>2. CASE first
    BY <1>2, <1>7, <2>1, <2>2 DEF WorkOf
  <2>3. CASE second
    BY <1>2, <1>7, <2>1, <2>3 DEF WorkOf
  <2> HIDE DEF first, second
  <2> QED  BY <1>2, <2>2, <2>3
<1> HIDE DEF first, second
<1>15. FitsInv(c)'
  BY <1>2, <1>3, <1>6, <1>14, StaysIn
<1>16. Others(c)
  BY <1>2, <1>10 DEF Others, StoreRests, Working
<1> QED  BY <1>1, <1>2, <1>3, <1>11, <1>12, <1>13, <1>15, <1>16, OneKeeps

\* A page is read behind a row where no turn is open.
LEMMA ReadsWork ==
    ASSUME ChatsGiven, ScansInv, NEW c \in O!Chats, Working(c), FitsOf(c, rows[c]),
           opencodeScan.now.step = "revised", SourceRests, StoreRests,
           NEW b, b = IF opencodeScan.now.boundary # 0 THEN opencodeScan.now.boundary - 1
                      ELSE IF pending[c].resume # 0 THEN pending[c].resume
                      ELSE opencodeCursor[c],
           SameWork(opencodeScan.now, opencodeScan'.now), opencodeScan'.now.step = "read",
           opencodeScan'.now.ready = O!Page(rows[c], b).ready,
           opencodeScan'.now.more = O!Page(rows[c], b).more,
           opencodeScan'.now.skipped = O!Page(rows[c], b).skipped
    PROVE  WorkOf(c)'
<1> DEFINE now == opencodeScan.now
           p == O!Page(rows[c], b)
           x == ClosedIn(c)
           cur == opencodeCursor[c]
<1>1. /\ ScanTypes /\ RoleOf(c) /\ CursorOf(c) /\ WorkOf(c) /\ PendingOf(c)
      /\ PageRows \in Nat /\ rows[c] \in Seq(Rows)
  BY DEF ScansInv, FitsInv, ChatsGiven, ScanTypes
<1>2. /\ now.boundary = 0 => c \in Natives \/ segment[c] = "opencode-v2"
      /\ now.boundary # 0 => now.boundary = O!FirstNew(rows[c]) /\ segment[c] # "opencode-v2"
      /\ c \in Natives => now.rev[1] \in 0..Len(rows[c])
      /\ c \in Natives => now.boundary = 0
      /\ pending[c].resume = 0
  BY <1>1 DEF WorkOf, RoleOf, PendingOf
<1>3. NewFrom(c, rows[c]) \in Nat /\ NewFrom(c, rows[c]) <= Len(rows[c]) /\ Len(rows[c]) \in Nat
  BY <1>1, NewFromIs
<1>4. now.boundary # 0 => b = NewFrom(c, rows[c]) /\ cur = 0
  BY <1>1, <1>2 DEF NewFrom, CursorOf
<1>5. now.boundary = 0 => b = cur
  BY <1>2
<1>6. now.boundary = 0 /\ segment[c] # "opencode-v2" => cur = NewFrom(c, rows[c])
  BY <1>1, <1>2 DEF NewFrom, CursorOf
<1>7. Clean(c, rows[c], b)
  <2>1. CASE now.boundary = 0 /\ segment[c] = "opencode-v2"
    BY <1>1, <1>3, <1>5, <2>1 DEF CursorOf, Clean
  <2>2. CASE ~(now.boundary = 0 /\ segment[c] = "opencode-v2")
    BY <1>3, <1>4, <1>5, <1>6, <2>2 DEF Clean
  <2> QED  BY <2>1, <2>2
<1>8. IsPage(p, x, b)
  BY SMTT(30), <1>1, <1>7, PageRead DEF ClosedIn
<1>9. PICK m \in Nat : Piece(x, m, p.ready) /\ Splits(x, m, b) /\ (p.more \/ m + Len(p.ready) = Len(x))
  BY <1>8 DEF IsPage
<1>10. p.skipped = 0 /\ p.ready \in Seq(Ends)
  BY <1>8 DEF IsPage
<1>11. x \in Seq(Ends) /\ EndsWithin(x, rows[c], NewFrom(c, rows[c]), Len(rows[c]))
  BY <1>1, ClosedIs DEF ClosedIn
<1>12. \A n \in DOMAIN x : x[n].upto \in Nat /\ x[n].upto > NewFrom(c, rows[c])
  BY <1>11, EndTypes DEF EndsWithin
<1>13. /\ rows' = rows /\ opencodeCursor' = opencodeCursor /\ segment' = segment /\ v1' = v1
  BY DEF SourceRests, StoreRests
<1>14. ClosedIn(c)' = x
  BY <1>13 DEF ClosedIn
<1> DEFINE after == opencodeScan'.now
<1>15. after.ready = p.ready /\ after.more = p.more /\ after.skipped = p.skipped
       /\ after.boundary = now.boundary /\ after.rev = now.rev /\ after.step = "read"
  BY DEF SameWork
<1>16. \A n \in DOMAIN x : n <= m => now.boundary = 0 /\ x[n].upto <= cur
  <2> SUFFICES ASSUME NEW n \in DOMAIN x, n <= m PROVE now.boundary = 0 /\ x[n].upto <= cur
    OBVIOUS
  <2>1. x[n].upto <= b
    BY <1>9 DEF Splits
  <2>2. now.boundary = 0
    BY <1>3, <1>4, <1>12, <2>1
  <2> QED  BY <1>5, <2>1, <2>2
<1>17. \A n \in DOMAIN x : n > m => x[n].upto > cur
  <2> SUFFICES ASSUME NEW n \in DOMAIN x, n > m PROVE x[n].upto > cur
    OBVIOUS
  <2>1. ~(n <= m)
    BY <1>11
  <2>2. ~(x[n].upto <= b) /\ b \in Nat
    BY <1>7, <1>9, <2>1 DEF Splits, Clean
  <2>3. x[n].upto > b
    BY <1>12, <2>2
  <2> QED  BY <1>3, <1>4, <1>5, <1>12, <2>3
<1> HIDE DEF x, p, now, cur, after
<1>18. Passed(c, m)'
  <2>1. \A n \in DOMAIN x : IF n <= m THEN x[n].upto <= cur ELSE x[n].upto > cur
    <3>1. \A n \in DOMAIN x : n \in Nat
      BY <1>11
    <3> QED  BY <1>16, <1>17, <3>1
  <2>2. Passed(c, m)' <=> \A n \in DOMAIN x :
                            IF n <= m THEN x[n].upto <= cur
                                           \/ (O!HandsOff(c)' /\ (x[n].dropped \/ ~O!Verified(c)'))
                            ELSE x[n].upto > cur
    BY <1>13, <1>14 DEF Passed, cur
  <2> QED  BY <2>1, <2>2
<1>19. Left(c, m)'
  <2> SUFFICES ASSUME ~after.more PROVE \A n \in DOMAIN x : ~(n > m + Len(after.ready))
    BY <1>14 DEF Left, after
  <2>1. m + Len(p.ready) = Len(x)
    BY <1>9, <1>15
  <2> QED  BY <1>11, <1>15, <2>1
<1>20. Piece(x, m, after.ready)
  BY <1>9, <1>15
<1>21. InHand(c, m)'
  BY <1>14, <1>18, <1>19, <1>20 DEF InHand, after
<1>22. \E k \in Nat : InHand(c, k)'
  BY <1>21
<1> QED  BY <1>2, <1>10, <1>13, <1>15, <1>22 DEF WorkOf, after, now

LEMMA ReadsFields ==
    ASSUME ScanTypes, O!ReadsRows
    PROVE  LET c == opencodeScan.now.chat
               b == IF opencodeScan.now.boundary # 0 THEN opencodeScan.now.boundary - 1
                    ELSE IF pending[c].resume # 0 THEN pending[c].resume ELSE opencodeCursor[c]
               p == O!Page(rows[c], b)
           IN /\ c \in O!Chats /\ opencodeScan.now.step = "revised"
              /\ ScanShape(opencodeScan') /\ opencodeScan'.queue = opencodeScan.queue
              /\ opencodeScan'.listed = opencodeScan.listed
              /\ opencodeScan'.phase = opencodeScan.phase
              /\ SameWork(opencodeScan.now, opencodeScan'.now) /\ opencodeScan'.now.step = "read"
              /\ opencodeScan'.now.ready = p.ready /\ opencodeScan'.now.more = p.more
              /\ opencodeScan'.now.skipped = p.skipped
              /\ SourceRests /\ StoreRests /\ pending' = pending /\ handoff' = handoff
              /\ watermark' = watermark
<1> DEFINE c == opencodeScan.now.chat
           b == IF opencodeScan.now.boundary # 0 THEN opencodeScan.now.boundary - 1
                ELSE IF pending[c].resume # 0 THEN pending[c].resume ELSE opencodeCursor[c]
           p == O!Page(rows[c], b)
           s == opencodeScan
           u == opencodeScan'
<1>1. /\ s.now.step = "revised"
      /\ IsRead(s, u, p)
      /\ SourceRests /\ StoreRests /\ pending' = pending /\ handoff' = handoff
      /\ watermark' = watermark
  BY DEF O!ReadsRows, O!sourceVars, O!storeVars, SourceRests, StoreRests, IsRead
<1>2. ScanShape(s) /\ s.now.step # "none"
  BY <1>1 DEF ScanTypes
<1>3. c \in O!Chats
  BY <1>2 DEF ScanShape, WorkShape
<1> HIDE DEF p, s, u
<1>4. /\ ScanShape(u) /\ u.queue = s.queue /\ u.listed = s.listed /\ u.phase = s.phase
      /\ SameWork(s.now, u.now) /\ u.now.step = "read" /\ u.now.ready = p.ready
      /\ u.now.more = p.more /\ u.now.skipped = p.skipped
  BY <1>1, <1>2, ScanReading
<1> QED  BY <1>1, <1>3, <1>4 DEF p, s, u

LEMMA ReadsKeeps ==
    ASSUME ChatsGiven, ScansInv, O!ReadsRows
    PROVE  ScansInv'
<1>1. ScanTypes /\ Dated /\ PageRows \in Nat
  BY DEF ScansInv, ChatsGiven
<1> DEFINE after == opencodeScan'.now
           now   == opencodeScan.now
<1>0. PICK c : c = now.chat
  OBVIOUS
<1>2. PICK b : b = IF now.boundary # 0 THEN now.boundary - 1
                   ELSE IF pending[c].resume # 0 THEN pending[c].resume ELSE opencodeCursor[c]
  OBVIOUS
<1>3. /\ c \in O!Chats /\ now.step = "revised"
      /\ ScanShape(opencodeScan') /\ opencodeScan'.listed = opencodeScan.listed
      /\ opencodeScan'.phase = opencodeScan.phase
      /\ SameWork(now, after) /\ after.step = "read"
      /\ after.ready = O!Page(rows[c], b).ready /\ after.more = O!Page(rows[c], b).more
      /\ after.skipped = O!Page(rows[c], b).skipped
      /\ SourceRests /\ StoreRests /\ pending' = pending /\ handoff' = handoff
      /\ watermark' = watermark
  BY <1>0, <1>1, <1>2, ReadsFields
<1>4. Working(c) /\ RoleOf(c) /\ FitsInv(c)
  BY <1>0, <1>3 DEF Working, ScansInv
<1>5. FitsOf(c, rows[c]) => WorkOf(c)'
  BY <1>2, <1>3, <1>4, ReadsWork
<1>6. FitsInv(c)'
  BY <1>3, <1>4, <1>5, StaysIn
<1>7. ScanTypes'
  BY <1>1, <1>3 DEF ScanTypes, SourceRests, StoreRests
<1>8. Dated'
  BY <1>1, <1>3, DatedRests
<1>9. RoleOf(c)'
  BY <1>3, <1>4 DEF RoleOf, StoreRests, Offset, Working, SameWork
<1>10. Others(c)
  BY <1>0, <1>3 DEF Others, StoreRests, Working, SameWork
<1> QED  BY <1>1, <1>3, <1>6, <1>7, <1>8, <1>9, <1>10, OneKeeps

\* The next turn in hand is the first one closed that is neither stored nor passed over.
Next1(c, m, t) ==
    /\ m \in Nat /\ m + 1 \in DOMAIN ClosedIn(c) /\ ClosedIn(c)[m + 1] = t /\ t \in Ends
    /\ NewFrom(c, rows[c]) < t.upto /\ t.upto <= Len(rows[c]) /\ rows[c][t.upto] = "idle"
    /\ opencodeCursor[c] < t.upto /\ t.upto \in Nat /\ t.from \in Nat
    /\ \A n \in DOMAIN ClosedIn(c) :
          /\ n \in Nat /\ ClosedIn(c)[n].upto \in Nat
          /\ n <= m + 1 => ClosedIn(c)[n].upto <= t.upto
          /\ n > m + 1 => ClosedIn(c)[n].upto > t.upto

LEMMA NextIs ==
    ASSUME NEW c \in O!Chats, ScanTypes, CursorOf(c), NEW m \in Nat, InHand(c, m),
           opencodeScan.now.ready \in Seq(Ends), opencodeScan.now.ready # <<>>,
           NEW t, t = opencodeScan.now.ready[1]
    PROVE  /\ Next1(c, m, t)
           /\ Len(Tail(opencodeScan.now.ready)) = Len(opencodeScan.now.ready) - 1
           /\ Piece(ClosedIn(c), m + 1, Tail(opencodeScan.now.ready))
           /\ Piece(ClosedIn(c), m, <<>>)
           /\ Tail(opencodeScan.now.ready) \in Seq(Ends)
<1> DEFINE x == ClosedIn(c)
           ready == opencodeScan.now.ready
           cur == opencodeCursor[c]
<1>1. rows[c] \in Seq(Rows) /\ cur \in Nat
  BY CursorIs DEF ScanTypes
<1>2. /\ x \in Seq(Ends) /\ EndsWithin(x, rows[c], NewFrom(c, rows[c]), Len(rows[c]))
      /\ Ascending(x)
  BY <1>1, ClosedIs DEF ClosedIn
<1>3. Piece(x, m, ready) /\ Passed(c, m)
  BY DEF InHand
<1>4. \A n \in DOMAIN x : n > m => x[n].upto > cur
  <2>1. \A n \in DOMAIN x : n \in Nat
    BY <1>2
  <2> QED  BY <1>3, <2>1 DEF Passed
<1>5. ready \in Seq(Ends) /\ ready # <<>> /\ t = ready[1]
  OBVIOUS
<1>6. \A n \in DOMAIN x : x[n] \in Ends /\ x[n].upto \in Nat /\ x[n].from \in Nat
  BY <1>2, EndTypes
<1> HIDE DEF x, ready, cur
<1>7. 1 \in DOMAIN ready /\ Len(ready) \in Nat /\ Len(ready) >= 1
  BY <1>5
<1>8. m + 1 \in DOMAIN x /\ x[m + 1] = t
  <2>1. m + Len(ready) <= Len(x) /\ ready[1] = x[m + 1]
    BY <1>3, <1>7 DEF Piece
  <2> QED  BY <1>2, <1>5, <1>7, <2>1
<1>9. t \in Ends /\ t.upto \in Nat /\ t.from \in Nat /\ cur < t.upto
  <2>1. m + 1 > m
    OBVIOUS
  <2>2. x[m + 1].upto > cur /\ x[m + 1].upto \in Nat
    BY <1>4, <1>6, <1>8, <2>1
  <2> QED  BY <1>1, <1>6, <1>8, <2>2
<1>10. NewFrom(c, rows[c]) < t.upto /\ t.upto <= Len(rows[c]) /\ rows[c][t.upto] = "idle"
  BY <1>2, <1>8 DEF EndsWithin
<1>11. ASSUME NEW n \in DOMAIN x
       PROVE  /\ n \in Nat /\ x[n].upto \in Nat
              /\ n <= m + 1 => x[n].upto <= t.upto
              /\ n > m + 1 => x[n].upto > t.upto
  <2>1. n \in Nat /\ x[n].upto \in Nat
    BY <1>2, <1>6
  <2>2. n < m + 1 => x[n].upto < t.upto
    BY <1>2, <1>8 DEF Ascending
  <2>3. m + 1 < n => t.upto < x[n].upto
    BY <1>2, <1>8 DEF Ascending
  <2>4. n = m + 1 => x[n].upto = t.upto
    BY <1>8
  <2> QED  BY <1>9, <2>1, <2>2, <2>3, <2>4
<1>12. Next1(c, m, t)
  BY <1>8, <1>9, <1>10, <1>11 DEF Next1, x, cur
<1>13. /\ Tail(ready) \in Seq(Ends) /\ Len(Tail(ready)) = Len(ready) - 1
       /\ \A k \in DOMAIN Tail(ready) : k + 1 \in DOMAIN ready /\ Tail(ready)[k] = ready[k + 1] /\ k \in Nat
  BY <1>5, <1>7
<1>14. Piece(x, m + 1, Tail(ready))
  <2>1. m + Len(ready) <= Len(x) /\ \A k \in DOMAIN ready : ready[k] = x[m + k]
    BY <1>3 DEF Piece
  <2>2. \A k \in DOMAIN Tail(ready) : Tail(ready)[k] = x[(m + 1) + k]
    <3> SUFFICES ASSUME NEW k \in DOMAIN Tail(ready) PROVE Tail(ready)[k] = x[(m + 1) + k]
      OBVIOUS
    <3>1. k + 1 \in DOMAIN ready /\ Tail(ready)[k] = ready[k + 1] /\ k \in Nat
      BY <1>13
    <3>2. ready[k + 1] = x[m + (k + 1)]
      BY <2>1, <3>1
    <3>3. m + (k + 1) = (m + 1) + k
      BY <3>1
    <3> QED  BY <3>1, <3>2, <3>3
  <2>3. (m + 1) + Len(Tail(ready)) <= Len(x)
    BY <1>2, <1>7, <1>13, <2>1
  <2> QED  BY <2>2, <2>3 DEF Piece
<1>15. Piece(x, m, <<>>)
  <2>1. m <= Len(x)
    BY <1>2, <1>3, <1>7 DEF Piece
  <2> QED  BY <2>1 DEF Piece
<1> QED  BY <1>12, <1>13, <1>14, <1>15 DEF x, ready

\* The cursor moves to its end.
LEMMA CursorMoves ==
    ASSUME NEW c \in O!Chats, NEW m, NEW t, Next1(c, m, t), CursorOf(c), PendingOf(c),
           ScanTypes, SourceRests, pending' = pending, opencodeCursor'[c] = t.upto,
           segment'[c] = "opencode-v2"
    PROVE  CursorOf(c)' /\ PendingOf(c)' /\ Passed(c, m + 1)'
<1>1. rows' = rows
  BY DEF SourceRests
<1>2. ClosedIn(c)' = ClosedIn(c)
  BY <1>1 DEF ClosedIn
<1>3. opencodeCursor[c] \in Nat
  BY CursorIs
<1>4. CursorOf(c)'
  BY <1>1 DEF Next1, CursorOf
<1>5. Passed(c, m + 1)'
  BY <1>2 DEF Next1, Passed
<1>6. \A n \in DOMAIN ClosedIn(c) : ClosedIn(c)[n].upto > t.upto => ClosedIn(c)[n].upto > opencodeCursor[c]
  BY <1>3 DEF Next1
<1>7. PendingOf(c)'
  BY <1>1, <1>2, <1>6 DEF PendingOf
<1> QED  BY <1>4, <1>5, <1>7

\* What is stored behind it.
LEMMA KeptBefore ==
    ASSUME NEW c \in O!Chats, NEW m, NEW t, Next1(c, m, t), Passed(c, m), HistoryOf(c),
           O!HandsOff(c) => O!Verified(c),
           NEW n \in DOMAIN ClosedIn(c), ~ClosedIn(c)[n].dropped, n <= m
    PROVE  \E k \in DOMAIN history[c] : O!IsOf(history[c][k], ClosedIn(c)[n])
<1>1. ClosedIn(c)[n].upto <= opencodeCursor[c]
  BY DEF Passed
<1> QED  BY <1>1 DEF HistoryOf

LEMMA DroppedHistory ==
    ASSUME NEW c \in O!Chats, NEW m, NEW t, Next1(c, m, t), Passed(c, m), HistoryOf(c),
           CursorOf(c), ScanTypes, ~O!HandsOff(c), t.dropped, SourceRests,
           history'[c] = history[c], opencodeCursor'[c] = t.upto
    PROVE  HistoryOf(c)'
<1> DEFINE x == ClosedIn(c)
           h == history[c]
<1>1. ClosedIn(c)' = x
  BY DEF ClosedIn, SourceRests
<1>2. opencodeCursor[c] \in Nat /\ t.upto \in Nat /\ opencodeCursor[c] < t.upto
  BY CursorIs DEF Next1
<1>3. h \in Seq(StoredTurns) /\ \A k \in DOMAIN h : h[k].upto \in Nat
  <2>1. h \in Seq(StoredTurns)
    BY DEF HistoryOf
  <2>2. \A k \in DOMAIN h : h[k] \in StoredTurns
    BY <2>1
  <2> QED  BY <2>1, <2>2 DEF StoredTurns
<1>4. \A k \in DOMAIN h : h[k].upto <= t.upto
  BY <1>2, <1>3 DEF HistoryOf
<1>5. ASSUME NEW n \in DOMAIN x, ~x[n].dropped, x[n].upto <= t.upto
      PROVE  \E k \in DOMAIN h : O!IsOf(h[k], x[n])
  <2>1. n \in Nat /\ m \in Nat /\ x[n].upto \in Nat /\ (n > m + 1 => x[n].upto > t.upto)
        /\ x[m + 1] = t
    BY DEF Next1
  <2>2. n <= m
    BY <1>2, <1>5, <2>1
  <2> QED  BY <1>5, <2>2, KeptBefore
<1> QED  BY <1>1, <1>4, <1>5 DEF HistoryOf, Offset, O!IsOf

LEMMA StoredHistory ==
    ASSUME NEW c \in O!Chats, NEW m, NEW t, Next1(c, m, t), Passed(c, m), HistoryOf(c),
           CursorOf(c), ScanTypes, O!HandsOff(c) => O!Verified(c), ~t.dropped, SourceRests,
           history'[c] = Append(history[c], [from |-> t.from, upto |-> t.upto,
                                             index |-> t.upto - 1 + Offset(c)]),
           opencodeCursor'[c] = t.upto
    PROVE  HistoryOf(c)'
<1> DEFINE x == ClosedIn(c)
           h == history[c]
           s == [from |-> t.from, upto |-> t.upto, index |-> t.upto - 1 + Offset(c)]
           z == Append(h, s)
<1>1. ClosedIn(c)' = x
  BY DEF ClosedIn, SourceRests
<1>2. opencodeCursor[c] \in Nat /\ t.upto \in Nat /\ opencodeCursor[c] < t.upto /\ t.from \in Nat
  BY CursorIs DEF Next1
<1>3. /\ h \in Seq(StoredTurns)
      /\ \A k \in DOMAIN h : h[k].upto <= opencodeCursor[c] /\ h[k].index = h[k].upto - 1 + Offset(c)
      /\ \A k \in DOMAIN h : \E n \in DOMAIN x : ~x[n].dropped /\ O!IsOf(h[k], x[n])
      /\ \A j, k \in DOMAIN h : j < k => h[j].upto < h[k].upto
  BY DEF HistoryOf
<1>4. \A k \in DOMAIN h : h[k].upto \in Nat
  <2>1. \A k \in DOMAIN h : h[k] \in StoredTurns
    BY <1>3
  <2> QED  BY <2>1 DEF StoredTurns
<1>5. s \in StoredTurns /\ s.upto = t.upto /\ s.from = t.from /\ s.index = s.upto - 1 + Offset(c)
  BY <1>2 DEF StoredTurns, Offset, O!V1Turns
<1>6. m + 1 \in DOMAIN x /\ x[m + 1] = t /\ m \in Nat
      /\ \A n \in DOMAIN x : n \in Nat /\ x[n].upto \in Nat /\ (n > m + 1 => x[n].upto > t.upto)
  BY DEF Next1
<1>7. \A n \in DOMAIN x : ~x[n].dropped /\ n <= m => \E k \in DOMAIN h : O!IsOf(h[k], x[n])
  BY KeptBefore
<1>8. O!IsOf(s, t)
  BY <1>5 DEF O!IsOf
<1> HIDE DEF s
<1>9. z \in Seq(StoredTurns) /\ Len(h) \in Nat /\ DOMAIN z = 1..(Len(h) + 1) /\ DOMAIN h = 1..Len(h)
      /\ z[Len(h) + 1] = s /\ \A k \in DOMAIN h : z[k] = h[k]
  BY <1>3, <1>5
<1> HIDE DEF z, h, x
<1>10. \A k \in DOMAIN z : k \in DOMAIN h \/ k = Len(h) + 1
  BY <1>9
<1>11. \A k \in DOMAIN z : z[k].upto <= t.upto /\ z[k].index = z[k].upto - 1 + Offset(c)
  <2> SUFFICES ASSUME NEW k \in DOMAIN z
               PROVE  z[k].upto <= t.upto /\ z[k].index = z[k].upto - 1 + Offset(c)
    OBVIOUS
  <2>1. CASE k \in DOMAIN h
    BY <1>2, <1>3, <1>4, <1>9, <2>1
  <2>2. CASE k = Len(h) + 1
    BY <1>2, <1>5, <1>9, <2>2
  <2> QED  BY <1>10, <2>1, <2>2
<1>12. \A k \in DOMAIN z : \E n \in DOMAIN x : ~x[n].dropped /\ O!IsOf(z[k], x[n])
  <2> SUFFICES ASSUME NEW k \in DOMAIN z
               PROVE  \E n \in DOMAIN x : ~x[n].dropped /\ O!IsOf(z[k], x[n])
    OBVIOUS
  <2>1. CASE k \in DOMAIN h
    BY <1>3, <1>9, <2>1
  <2>2. CASE k = Len(h) + 1
    BY <1>6, <1>8, <1>9, <2>2
  <2> QED  BY <1>10, <2>1, <2>2
<1>13. \A j, k \in DOMAIN z : j < k => z[j].upto < z[k].upto
  <2> SUFFICES ASSUME NEW j \in DOMAIN z, NEW k \in DOMAIN z, j < k PROVE z[j].upto < z[k].upto
    OBVIOUS
  <2>1. j \in DOMAIN h
    BY <1>9
  <2>2. CASE k \in DOMAIN h
    BY <1>3, <1>9, <2>1, <2>2
  <2>3. CASE k = Len(h) + 1
    BY <1>2, <1>3, <1>4, <1>5, <1>9, <2>1, <2>3
  <2> QED  BY <1>10, <2>2, <2>3
<1>14. ASSUME NEW n \in DOMAIN x, ~x[n].dropped, x[n].upto <= t.upto
       PROVE  \E k \in DOMAIN z : O!IsOf(z[k], x[n])
  <2>1. n <= m \/ n = m + 1
    BY <1>2, <1>6, <1>14
  <2>2. CASE n <= m
    <3>1. PICK k \in DOMAIN h : O!IsOf(h[k], x[n])
      BY <1>7, <1>14, <2>2
    <3>2. k \in DOMAIN z /\ z[k] = h[k]
      BY <1>9
    <3> QED  BY <3>1, <3>2
  <2>3. CASE n = m + 1
    BY SMTT(30), <1>6, <1>8, <1>9, <2>3
  <2> QED  BY <2>1, <2>2, <2>3
<1>15. history'[c] = z
  BY DEF z, h, s
<1>16. ClosedIn(c)' = x /\ opencodeCursor'[c] = t.upto
  BY <1>1 DEF x
<1>17. HistoryOf(c)' <=>
         /\ z \in Seq(StoredTurns)
         /\ \A k \in DOMAIN z :
               /\ z[k].upto <= t.upto /\ z[k].index = z[k].upto - 1 + Offset(c)
               /\ \E n \in DOMAIN x : ~x[n].dropped /\ O!IsOf(z[k], x[n])
         /\ \A j, k \in DOMAIN z : j < k => z[j].upto < z[k].upto
         /\ \A n \in DOMAIN x : ~x[n].dropped /\ x[n].upto <= t.upto =>
               \E k \in DOMAIN z : O!IsOf(z[k], x[n])
  BY <1>15, <1>16 DEF HistoryOf, Offset, O!IsOf
<1> QED  BY <1>9, <1>11, <1>12, <1>13, <1>14, <1>17

\* A turn that is handled is in hand no more; what is left of the page is.
LEMMA HandledWork ==
    ASSUME NEW c \in O!Chats, Working(c), WorkOf(c), SourceRests, watermark' = watermark,
           opencodeScan'.listed = opencodeScan.listed,
           opencodeScan.now.step = "read", opencodeScan'.now.step = "read",
           SameWork(opencodeScan.now, opencodeScan'.now),
           opencodeScan'.now.more = opencodeScan.now.more,
           opencodeScan'.now.skipped = opencodeScan.now.skipped,
           segment'[c] \in {segment[c], "opencode-v2"},
           NEW rest \in Seq(Ends), opencodeScan'.now.ready = rest,
           NEW m \in Nat, NEW k \in Nat, Left(c, m), Piece(ClosedIn(c), k, rest), Passed(c, k)',
           c \notin opencodeBarred => k + Len(rest) = m + Len(opencodeScan.now.ready)
    PROVE  WorkOf(c)'
<1>1. rows' = rows /\ ClosedIn(c)' = ClosedIn(c)
  BY DEF SourceRests, ClosedIn
<1>2. Newer(c)' = Newer(c)
  BY DEF Newer, SourceRests
<1>3. Left(c, k)'
  BY <1>1, <1>2 DEF Left, SourceRests, SameWork
<1>4. InHand(c, k)'
  BY <1>1, <1>3 DEF InHand
<1>5. \E i \in Nat : InHand(c, i)'
  BY <1>4
<1> QED  BY <1>1, <1>5 DEF WorkOf, SameWork

Handled(c, t) ==
    \/ /\ StoreRests
       /\ c \in opencodeBarred \/ (t.dropped /\ O!HandsOff(c)) \/ (~t.dropped /\ ~O!StillVerified(c))
          \/ (~t.dropped /\ t.upto - 1 + opencodeScan.now.offset \in O!Indexes(c))
    \/ /\ t.dropped /\ c \notin opencodeBarred /\ ~O!HandsOff(c) /\ history' = history
       /\ opencodeCursor' = [opencodeCursor EXCEPT ![c] = t.upto]
       /\ segment' = [segment EXCEPT ![c] = "opencode-v2"]
    \/ /\ ~t.dropped /\ c \notin opencodeBarred /\ O!StillVerified(c)
       /\ history' = [history EXCEPT ![c] = Append(history[c],
                         [from |-> t.from, upto |-> t.upto,
                          index |-> t.upto - 1 + opencodeScan.now.offset])]
       /\ opencodeCursor' = [opencodeCursor EXCEPT ![c] = t.upto]
       /\ segment' = [segment EXCEPT ![c] = "opencode-v2"]

LEMMA HandlesFields ==
    ASSUME ScanTypes, O!HandlesTurn
    PROVE  LET c == opencodeScan.now.chat
               t == Head(opencodeScan.now.ready)
           IN /\ c \in O!Chats /\ opencodeScan.now.step = "read" /\ opencodeScan.now.ready # <<>>
              /\ ScanShape(opencodeScan') /\ opencodeScan'.queue = opencodeScan.queue
              /\ opencodeScan'.listed = opencodeScan.listed
              /\ opencodeScan'.phase = opencodeScan.phase
              /\ SameWork(opencodeScan.now, opencodeScan'.now) /\ opencodeScan'.now.step = "read"
              /\ opencodeScan'.now.ready = IF c \in opencodeBarred THEN <<>>
                                           ELSE Tail(opencodeScan.now.ready)
              /\ opencodeScan'.now.more = opencodeScan.now.more
              /\ opencodeScan'.now.skipped = opencodeScan.now.skipped
              /\ Handled(c, t)
              /\ SourceRests /\ pending' = pending /\ handoff' = handoff
              /\ watermark' = watermark
<1> DEFINE c == opencodeScan.now.chat
           t == Head(opencodeScan.now.ready)
           rest == IF c \in opencodeBarred THEN <<>> ELSE Tail(opencodeScan.now.ready)
           s == opencodeScan
           u == opencodeScan'
<1>1. /\ s.now.step = "read" /\ s.now.ready # <<>>
      /\ IsHandled(s, u, rest)
      /\ IF t.dropped THEN O!Advances(c, t) ELSE O!Stores(c, t)
      /\ SourceRests /\ pending' = pending /\ handoff' = handoff
      /\ watermark' = watermark
  BY DEF O!HandlesTurn, O!sourceVars, SourceRests, IsHandled
<1>2. ScanShape(s) /\ s.now.step # "none"
  BY <1>1 DEF ScanTypes
<1>3. c \in O!Chats
  BY <1>2 DEF ScanShape, WorkShape
<1>4. Handled(c, t)
  <2> DEFINE z == [from |-> t.from, upto |-> t.upto, index |-> t.upto - 1 + opencodeScan.now.offset]
  <2>1. CASE t.dropped
    BY <1>1, <2>1 DEF O!Advances, Handled, StoreRests
  <2>2. CASE ~t.dropped
    BY <1>1, <2>2 DEF O!Stores, Handled, StoreRests
  <2> QED  BY <2>1, <2>2
<1> HIDE DEF rest, s, u
<1>5. /\ ScanShape(u) /\ u.queue = s.queue /\ u.listed = s.listed /\ u.phase = s.phase
      /\ SameWork(s.now, u.now) /\ u.now.step = "read" /\ u.now.ready = rest
      /\ u.now.more = s.now.more /\ u.now.skipped = s.now.skipped
  BY <1>1, <1>2, ScanHandling
<1> QED  BY <1>1, <1>3, <1>4, <1>5 DEF rest, s, u

\* The index of a turn that is not stored yet is free.
LEMMA IndexIsFree ==
    ASSUME ChatsGiven, NEW c \in O!Chats, NEW m, NEW t, Next1(c, m, t), HistoryOf(c),
           CursorOf(c), ScanTypes, opencodeScan.now.offset = Offset(c)
    PROVE  t.upto - 1 + opencodeScan.now.offset \notin O!Indexes(c)
<1> DEFINE i == t.upto - 1 + Offset(c)
           h == history[c]
<1>1. opencodeCursor[c] \in Nat /\ t.upto \in Nat /\ opencodeCursor[c] < t.upto
  BY CursorIs DEF Next1
<1>2. Offset(c) \in Nat /\ (c \in Migrants => Offset(c) = 4)
  <2>1. c \in Migrants => c \notin Natives
    BY DEF ChatsGiven
  <2> QED  BY <2>1 DEF Offset, O!V1Turns
<1>3. \A k \in DOMAIN h : h[k].upto \in Nat /\ h[k].upto < t.upto /\ h[k].index = h[k].upto - 1 + Offset(c)
  <2>1. h \in Seq(StoredTurns)
    BY DEF HistoryOf
  <2>2. \A k \in DOMAIN h : h[k] \in StoredTurns
    BY <2>1
  <2>3. \A k \in DOMAIN h : h[k].upto <= opencodeCursor[c] /\ h[k].index = h[k].upto - 1 + Offset(c)
    BY DEF HistoryOf
  <2> QED  BY <1>1, <2>2, <2>3 DEF StoredTurns
<1>4. \A k \in DOMAIN h : h[k].index # i
  BY <1>1, <1>2, <1>3
<1>5. c \in Migrants => i \notin 0..O!V1Turns
  BY <1>1, <1>2 DEF O!V1Turns
<1> HIDE DEF i
<1>6. i \notin O!Indexes(c)
  BY <1>4, <1>5 DEF O!Indexes
<1> QED  BY <1>6 DEF i

LEMMA HandlesChat ==
    ASSUME ChatsGiven, ScansInv, NEW c \in O!Chats, Working(c), FitsOf(c, rows[c]),
           opencodeScan.now.step = "read", opencodeScan.now.ready # <<>>, SourceRests,
           NEW t, t = Head(opencodeScan.now.ready), Handled(c, t),
           pending' = pending, watermark' = watermark,
           opencodeScan'.listed = opencodeScan.listed,
           opencodeScan'.now.step = "read", SameWork(opencodeScan.now, opencodeScan'.now),
           opencodeScan'.now.more = opencodeScan.now.more,
           opencodeScan'.now.skipped = opencodeScan.now.skipped,
           opencodeScan'.now.ready = IF c \in opencodeBarred THEN <<>>
                                     ELSE Tail(opencodeScan.now.ready)
    PROVE  FitsInv(c)'
<1> DEFINE ready == opencodeScan.now.ready
           rest  == opencodeScan'.now.ready
<1>1. /\ ScanTypes /\ RoleOf(c) /\ CursorOf(c) /\ HistoryOf(c) /\ WorkOf(c) /\ PendingOf(c)
  BY DEF ScansInv, FitsInv
<1>2. ready \in Seq(Ends) /\ \E i \in Nat : InHand(c, i)
  BY <1>1 DEF WorkOf
<1>3. PICK m \in Nat : InHand(c, m)
  BY <1>2
<1>4. t = ready[1]
  BY <1>2
<1>5. /\ Next1(c, m, t) /\ Len(Tail(ready)) = Len(ready) - 1
      /\ Piece(ClosedIn(c), m + 1, Tail(ready)) /\ Piece(ClosedIn(c), m, <<>>)
      /\ Tail(ready) \in Seq(Ends)
  BY <1>1, <1>2, <1>3, <1>4, NextIs
<1>6. Passed(c, m) /\ Left(c, m)
  BY <1>3 DEF InHand
<1>7. opencodeScan.now.offset = Offset(c)
  BY <1>1 DEF RoleOf
<1>8. t.upto - 1 + opencodeScan.now.offset \notin O!Indexes(c)
  BY <1>1, <1>5, <1>7, IndexIsFree
<1>9. rows' = rows /\ ClosedIn(c)' = ClosedIn(c) /\ v1' = v1
  BY DEF SourceRests, ClosedIn
<1>10. /\ c \in opencodeBarred => Piece(ClosedIn(c), m, rest) /\ rest \in Seq(Ends)
       /\ c \notin opencodeBarred => /\ Piece(ClosedIn(c), m + 1, rest) /\ rest \in Seq(Ends)
                                     /\ (m + 1) + Len(rest) = m + Len(ready)
  <2>1. <<>> \in Seq(Ends) /\ Len(ready) \in Nat
    BY <1>2
  <2>2. rest = IF c \in opencodeBarred THEN <<>> ELSE Tail(ready)
    OBVIOUS
  <2> DEFINE tl == Tail(ready)
             x == ClosedIn(c)
  <2>3. /\ Piece(x, m + 1, tl) /\ Piece(x, m, <<>>) /\ tl \in Seq(Ends)
        /\ Len(tl) = Len(ready) - 1
    BY <1>5
  <2> HIDE DEF ready, rest, tl, x
  <2>4. (m + 1) + Len(tl) = m + Len(ready)
    BY <2>1, <2>3
  <2>5. rest = IF c \in opencodeBarred THEN <<>> ELSE tl
    BY <2>2 DEF tl
  <2>6. CASE c \in opencodeBarred
    BY <2>1, <2>3, <2>5, <2>6 DEF x
  <2>7. CASE c \notin opencodeBarred
    BY <2>3, <2>4, <2>5, <2>7 DEF x
  <2> QED  BY <2>6, <2>7
<1> HIDE DEF ready, rest
<1>11. CASE StoreRests /\ c \in opencodeBarred
  <2>1. O!HandsOff(c)' = O!HandsOff(c) /\ O!Verified(c)' = O!Verified(c)
    BY <1>9, <1>11 DEF StoreRests, SameWork, O!HandsOff, O!Verified, O!HistoryCaptured,
       O!PrefixMigrated, O!OnlyNewBehind
  <2>2. Passed(c, m)'
    BY <1>6, <1>9, <1>11, <2>1 DEF Passed, StoreRests
  <2>3. WorkOf(c)'
    BY <1>1, <1>6, <1>10, <1>11, <2>2, HandledWork DEF StoreRests, rest
  <2> QED  BY <1>11, <2>3, StaysIn, <1>1 DEF ScansInv
<1>12. CASE /\ StoreRests /\ c \notin opencodeBarred
            /\ (t.dropped /\ O!HandsOff(c)) \/ (~t.dropped /\ ~O!StillVerified(c))
  <2>1. O!HandsOff(c)' = O!HandsOff(c) /\ O!Verified(c)' = O!Verified(c)
    BY <1>9, <1>12 DEF StoreRests, SameWork, O!HandsOff, O!Verified, O!HistoryCaptured,
       O!PrefixMigrated, O!OnlyNewBehind
  <2>3. O!HandsOff(c) /\ (t.dropped \/ ~O!Verified(c))
    <3>1. opencodeScan.now.boundary # 0 => opencodeScan.now.boundary = O!FirstNew(rows[c])
      BY <1>1 DEF WorkOf
    <3> QED  BY <1>12, <3>1 DEF O!StillVerified, O!HandsOff
  <2>4. Passed(c, m + 1)'
    <3>1. ASSUME NEW n \in DOMAIN ClosedIn(c), n > m + 1 PROVE ClosedIn(c)[n].upto > opencodeCursor[c]
      <4>1. n \in Nat /\ ~(n <= m)
        BY <1>5, <3>1 DEF Next1
      <4> QED  BY <1>6, <4>1 DEF Passed
    <3>2. ASSUME NEW n \in DOMAIN ClosedIn(c), n <= m + 1
          PROVE \/ ClosedIn(c)[n].upto <= opencodeCursor[c]
                \/ O!HandsOff(c) /\ (ClosedIn(c)[n].dropped \/ ~O!Verified(c))
      <4>1. n <= m \/ n = m + 1
        BY <1>5, <3>2 DEF Next1
      <4>2. CASE n <= m
        BY <1>6, <4>2 DEF Passed
      <4>3. CASE n = m + 1
        BY <1>5, <2>3, <4>3 DEF Next1
      <4> QED  BY <4>1, <4>2, <4>3
    <3>3. \A n \in DOMAIN ClosedIn(c) : n > m + 1 \/ n <= m + 1
      BY <1>5 DEF Next1
    <3>4. Passed(c, m + 1)' <=>
            \A n \in DOMAIN ClosedIn(c) :
               IF n <= m + 1
               THEN \/ ClosedIn(c)[n].upto <= opencodeCursor[c]
                    \/ O!HandsOff(c) /\ (ClosedIn(c)[n].dropped \/ ~O!Verified(c))
               ELSE ClosedIn(c)[n].upto > opencodeCursor[c]
      BY <1>9, <1>12, <2>1 DEF Passed, StoreRests
    <3> QED  BY <3>1, <3>2, <3>3, <3>4
  <2>5. WorkOf(c)'
    <3>1. PICK k \in Nat : k = m + 1
      OBVIOUS
    <3>2. /\ Piece(ClosedIn(c), k, rest) /\ rest \in Seq(Ends) /\ Passed(c, k)'
          /\ k + Len(rest) = m + Len(opencodeScan.now.ready) /\ segment'[c] = segment[c]
      BY <1>10, <1>12, <2>4, <3>1 DEF ready, StoreRests
    <3> QED  BY <1>1, <1>6, <3>2, HandledWork DEF rest
  <2> QED  BY <1>12, <2>5, StaysIn, <1>1 DEF ScansInv
<1>13. CASE /\ c \notin opencodeBarred /\ opencodeCursor'[c] = t.upto /\ segment'[c] = "opencode-v2"
            /\ \/ t.dropped /\ ~O!HandsOff(c) /\ history'[c] = history[c]
               \/ /\ ~t.dropped /\ O!StillVerified(c)
                  /\ history'[c] = Append(history[c], [from |-> t.from, upto |-> t.upto,
                                             index |-> t.upto - 1 + Offset(c)])
  <2>1. CursorOf(c)' /\ PendingOf(c)' /\ Passed(c, m + 1)'
    BY <1>1, <1>5, <1>13, CursorMoves
  <2>2. HistoryOf(c)'
    <3>1. CASE t.dropped
      BY <1>1, <1>5, <1>6, <1>13, <3>1, DroppedHistory
    <3>2. CASE ~t.dropped
      BY <1>1, <1>5, <1>6, <1>13, <3>2, StoredHistory DEF O!StillVerified
    <3> QED  BY <3>1, <3>2
  <2>3. WorkOf(c)'
    <3>1. PICK k \in Nat : k = m + 1
      OBVIOUS
    <3>2. /\ Piece(ClosedIn(c), k, rest) /\ rest \in Seq(Ends) /\ Passed(c, k)'
          /\ k + Len(rest) = m + Len(opencodeScan.now.ready)
      BY <1>10, <1>13, <2>1, <3>1 DEF ready
    <3> QED  BY <1>1, <1>6, <1>13, <3>2, HandledWork DEF rest
  <2> QED  BY <2>1, <2>2, <2>3 DEF FitsInv
<1>14. DOMAIN history = O!Chats /\ DOMAIN opencodeCursor = O!Chats /\ segment \in [O!Chats -> Segments]
  BY <1>1 DEF ScanTypes
<1>15. \/ StoreRests /\ c \in opencodeBarred
       \/ /\ StoreRests /\ c \notin opencodeBarred
          /\ (t.dropped /\ O!HandsOff(c)) \/ (~t.dropped /\ ~O!StillVerified(c))
       \/ /\ t.dropped /\ c \notin opencodeBarred /\ ~O!HandsOff(c) /\ history'[c] = history[c]
          /\ opencodeCursor'[c] = t.upto /\ segment'[c] = "opencode-v2"
       \/ /\ ~t.dropped /\ c \notin opencodeBarred /\ O!StillVerified(c)
          /\ history'[c] = Append(history[c], [from |-> t.from, upto |-> t.upto,
                                      index |-> t.upto - 1 + Offset(c)])
          /\ opencodeCursor'[c] = t.upto /\ segment'[c] = "opencode-v2"
  <2> DEFINE z == Append(history[c], [from |-> t.from, upto |-> t.upto,
                                      index |-> t.upto - 1 + opencodeScan.now.offset])
  <2>1. \/ StoreRests /\ c \in opencodeBarred
        \/ /\ StoreRests /\ c \notin opencodeBarred
           /\ (t.dropped /\ O!HandsOff(c)) \/ (~t.dropped /\ ~O!StillVerified(c))
        \/ /\ t.dropped /\ c \notin opencodeBarred /\ ~O!HandsOff(c) /\ history' = history
           /\ opencodeCursor' = [opencodeCursor EXCEPT ![c] = t.upto]
           /\ segment' = [segment EXCEPT ![c] = "opencode-v2"]
        \/ /\ ~t.dropped /\ c \notin opencodeBarred /\ O!StillVerified(c)
           /\ history' = [history EXCEPT ![c] = z]
           /\ opencodeCursor' = [opencodeCursor EXCEPT ![c] = t.upto]
           /\ segment' = [segment EXCEPT ![c] = "opencode-v2"]
    BY <1>8 DEF Handled
  <2>2. z = Append(history[c], [from |-> t.from, upto |-> t.upto,
                                index |-> t.upto - 1 + Offset(c)])
    BY <1>7
  <2> HIDE DEF z
  <2> QED  BY <1>14, <2>1, <2>2
<1> QED  BY <1>11, <1>12, <1>13, <1>15

LEMMA HandlesKeeps ==
    ASSUME ChatsGiven, ScansInv, O!HandlesTurn
    PROVE  ScansInv'
<1>1. ScanTypes /\ Dated /\ PageRows \in Nat
  BY DEF ScansInv, ChatsGiven
<1> DEFINE after == opencodeScan'.now
           now   == opencodeScan.now
<1>0. PICK c : c = now.chat
  OBVIOUS
<1>2. PICK t : t = Head(now.ready)
  OBVIOUS
<1>3. /\ c \in O!Chats /\ now.step = "read" /\ now.ready # <<>>
      /\ ScanShape(opencodeScan') /\ opencodeScan'.listed = opencodeScan.listed
      /\ opencodeScan'.phase = opencodeScan.phase
      /\ SameWork(now, after) /\ after.step = "read"
      /\ after.ready = IF c \in opencodeBarred THEN <<>> ELSE Tail(now.ready)
      /\ after.more = now.more /\ after.skipped = now.skipped
      /\ Handled(c, t)
      /\ SourceRests /\ pending' = pending /\ handoff' = handoff
      /\ watermark' = watermark
  BY <1>0, <1>1, <1>2, HandlesFields
<1>4. Working(c) /\ RoleOf(c) /\ FitsInv(c)
  BY <1>0, <1>3 DEF Working, ScansInv
<1>5. rows' = rows
  BY <1>3 DEF SourceRests
<1>6. FitsInv(c)'
  <2>1. CASE FitsOf(c, rows[c])
    BY <1>2, <1>3, <1>4, <2>1, HandlesChat
  <2>2. CASE ~FitsOf(c, rows[c])
    BY <1>5, <2>2 DEF FitsInv, FitsOf
  <2> QED  BY <2>1, <2>2
<1>7. /\ DOMAIN history = O!Chats /\ DOMAIN opencodeCursor = O!Chats
      /\ segment \in [O!Chats -> Segments]
  BY <1>1 DEF ScanTypes
<1>8. \/ StoreRests
      \/ \E z : /\ history' = history \/ history' = [history EXCEPT ![c] = z]
                /\ opencodeCursor' = [opencodeCursor EXCEPT ![c] = t.upto]
                /\ segment' = [segment EXCEPT ![c] = "opencode-v2"]
  BY <1>3 DEF Handled
<1>9. /\ DOMAIN history' = O!Chats /\ DOMAIN opencodeCursor' = O!Chats
      /\ segment' \in [O!Chats -> Segments] /\ segment'[c] \in {segment[c], "opencode-v2"}
      /\ \A d \in O!Chats \ {c} : /\ history'[d] = history[d]
                                 /\ opencodeCursor'[d] = opencodeCursor[d]
                                 /\ segment'[d] = segment[d]
  <2>1. "opencode-v2" \in Segments
    BY DEF Segments
  <2>2. CASE StoreRests
    BY <1>3, <1>7, <2>2 DEF StoreRests
  <2>3. CASE ~StoreRests
    <3>1. PICK z : /\ history' = history \/ history' = [history EXCEPT ![c] = z]
                   /\ opencodeCursor' = [opencodeCursor EXCEPT ![c] = t.upto]
                   /\ segment' = [segment EXCEPT ![c] = "opencode-v2"]
      BY <1>8, <2>3
    <3> QED  BY <1>3, <1>7, <2>1, <3>1
  <2> QED  BY <2>2, <2>3
<1>10. ScanTypes'
  BY <1>1, <1>3, <1>9 DEF ScanTypes, SourceRests
<1>11. Dated'
  BY <1>1, <1>3, DatedRests
<1>12. RoleOf(c)'
  BY <1>3, <1>4, <1>9 DEF RoleOf, Offset, Working, SameWork
<1>13. Others(c)
  BY <1>0, <1>3, <1>9 DEF Others, Working, SameWork
<1> QED  BY <1>1, <1>3, <1>6, <1>10, <1>11, <1>12, <1>13, OneKeeps

\* A chat is finished in discovery: what was not read of it stays pending.
LEMMA FinishesFields ==
    ASSUME ScanTypes, O!FinishesChat
    PROVE  LET c == opencodeScan.now.chat
               now == opencodeScan.now
               resume == IF opencodeCursor[c] # now.before THEN 0
                         ELSE IF now.skipped # 0 THEN now.skipped ELSE pending[c].resume
           IN /\ c \in O!Chats /\ now.step = "read" /\ now.ready = <<>>
              /\ opencodeScan.phase = "discovery"
              /\ opencodeScan' = [opencodeScan EXCEPT !.now = O!NoChat]
              /\ ScanShape(opencodeScan') /\ opencodeScan'.now = O!NoChat
              /\ opencodeScan'.queue = opencodeScan.queue
              /\ opencodeScan'.listed = opencodeScan.listed
              /\ opencodeScan'.phase = opencodeScan.phase
              /\ IF c \notin opencodeBarred /\ (now.pending \/ now.more \/ resume # 0)
                 THEN pending' = [pending EXCEPT ![c] = [rev |-> now.rev, more |-> now.more,
                                                         resume |-> resume]]
                 ELSE pending' = [pending EXCEPT ![c] = O!NoPending]
              /\ O!Consumed(c) /\ SourceRests /\ StoreRests /\ handoff' = handoff
<1> DEFINE c == opencodeScan.now.chat
           now == opencodeScan.now
           resume == IF opencodeCursor[c] # now.before THEN 0
                     ELSE IF now.skipped # 0 THEN now.skipped ELSE pending[c].resume
           u == opencodeScan'
           s == opencodeScan
<1>1. /\ now.step = "read" /\ now.ready = <<>> /\ s.phase = "discovery"
      /\ u = [s EXCEPT !.now = O!NoChat]
      /\ O!Consumed(c) /\ SourceRests /\ StoreRests /\ handoff' = handoff
      /\ IF c \notin opencodeBarred /\ (now.pending \/ now.more \/ resume # 0)
         THEN pending' = [pending EXCEPT ![c] = [rev |-> now.rev, more |-> now.more,
                                                 resume |-> resume]]
         ELSE pending' = [pending EXCEPT ![c] = O!NoPending]
  BY DEF O!FinishesChat, O!Drops, O!sourceVars, SourceRests, StoreRests
<1>2. ScanShape(s) /\ now.step # "none"
  BY <1>1 DEF ScanTypes
<1>3. c \in O!Chats
  BY <1>2 DEF ScanShape, WorkShape
<1>4. /\ ScanShape(u) /\ u.now = O!NoChat /\ u.queue = s.queue /\ u.listed = s.listed
      /\ u.phase = s.phase
  <2> HIDE DEF u, s
  <2> QED  BY <1>1, <1>2, ScanResting
<1> HIDE DEF resume
<1> QED  BY <1>1, <1>3, <1>4 DEF resume

LEMMA FinishedPending ==
    ASSUME ScansInv, NEW c \in O!Chats, Working(c), FitsOf(c, rows[c]),
           opencodeScan.now.step = "read", opencodeScan.now.ready = <<>>,
           SourceRests, StoreRests, c \notin opencodeBarred,
           pending'[c] = [rev |-> opencodeScan.now.rev, more |-> opencodeScan.now.more,
                          resume |-> 0]
    PROVE  PendingOf(c)'
<1> DEFINE now == opencodeScan.now
           x == ClosedIn(c)
<1>1. /\ RoleOf(c) /\ WorkOf(c)
  BY DEF ScansInv, FitsInv
<1>2. PICK m \in Nat : InHand(c, m)
  BY <1>1 DEF WorkOf
<1>3. Piece(x, m, now.ready) /\ Passed(c, m) /\ Left(c, m)
  BY <1>2 DEF InHand
<1>4. ClosedIn(c)' = x /\ opencodeCursor' = opencodeCursor /\ rows' = rows
  BY DEF ClosedIn, SourceRests, StoreRests
<1>5. c \in Natives => ~O!HandsOff(c) /\ now.rev[1] \in 0..Len(rows[c])
  BY <1>1 DEF RoleOf, WorkOf, O!HandsOff
<1>6. ASSUME c \in Natives, ~now.more, NEW n \in DOMAIN x, x[n].upto > opencodeCursor[c]
      PROVE  x[n].upto > now.rev[1]
  <2>0. ScanTypes /\ CursorOf(c)
    BY DEF ScansInv, FitsInv
  <2>1. x \in Seq(Ends) /\ opencodeCursor[c] \in Nat
    BY <2>0, ClosedIs, CursorIs DEF ClosedIn, ScanTypes
  <2>2. n \in Nat /\ x[n].upto \in Nat
    BY <2>1, EndTypes
  <2>3. ~(n <= m)
    <3> SUFFICES ASSUME n <= m PROVE FALSE
      OBVIOUS
    <3>1. x[n].upto <= opencodeCursor[c]
      BY <1>3, <1>5, <1>6 DEF Passed
    <3> QED  BY <1>6, <2>1, <2>2, <3>1
  <2>4. n > m + Len(now.ready)
    BY <2>2, <2>3
  <2> QED  BY <1>3, <1>6, <2>4 DEF Left
<1> DEFINE p == [rev |-> now.rev, more |-> now.more, resume |-> 0]
<1>7. p.rev = now.rev /\ p.more = now.more /\ p.resume = 0
  OBVIOUS
<1>8. pending'[c] = p
  OBVIOUS
<1> HIDE DEF p, x, now
<1> QED  BY <1>4, <1>5, <1>6, <1>7, <1>8 DEF PendingOf

LEMMA FinishesKeeps ==
    ASSUME ChatsGiven, ScansInv, O!FinishesChat
    PROVE  ScansInv'
<1>1. ScanTypes /\ Dated /\ PageRows \in Nat
  BY DEF ScansInv, ChatsGiven
<1> DEFINE now == opencodeScan.now
<1>0. PICK c : c = now.chat
  OBVIOUS
<1>2. PICK resume : resume = IF opencodeCursor[c] # now.before THEN 0
                             ELSE IF now.skipped # 0 THEN now.skipped ELSE pending[c].resume
  OBVIOUS
<1> DEFINE p == [rev |-> now.rev, more |-> now.more, resume |-> resume]
<1>3. /\ c \in O!Chats /\ now.step = "read" /\ now.ready = <<>>
      /\ ScanShape(opencodeScan') /\ opencodeScan'.now = O!NoChat
      /\ opencodeScan'.listed = opencodeScan.listed
      /\ opencodeScan'.phase = opencodeScan.phase
      /\ IF c \notin opencodeBarred /\ (now.pending \/ now.more \/ resume # 0)
         THEN pending' = [pending EXCEPT ![c] = p]
         ELSE pending' = [pending EXCEPT ![c] = O!NoPending]
      /\ O!Consumed(c) /\ SourceRests /\ StoreRests /\ handoff' = handoff
  BY <1>0, <1>1, <1>2, FinishesFields
<1>4. Working(c) /\ RoleOf(c) /\ FitsInv(c)
  BY <1>0, <1>3 DEF Working, ScansInv
<1>5. watermark' \in Nat \X Nat /\ Dated'
  BY <1>3, ConsumedIs DEF ChatsGiven
<1> HIDE DEF p
<1>6. /\ DOMAIN pending' = O!Chats /\ \A d \in O!Chats \ {c} : pending'[d] = pending[d]
      /\ pending'[c] = O!NoPending \/ (c \notin opencodeBarred /\ pending'[c] = p)
  <2>1. DOMAIN pending = O!Chats
    BY <1>1 DEF ScanTypes
  <2> HIDE DEF now
  <2> QED  BY <1>3, <2>1
<1>7. ScanTypes'
  BY <1>1, <1>3, <1>5, <1>6 DEF ScanTypes, SourceRests, StoreRests
<1>8. opencodeScan'.now.step = "none" /\ \A d \in O!Chats : ~Working(d)'
  BY <1>3 DEF O!NoChat, Working
<1>9. RoleOf(c)'
  BY <1>3, <1>4, <1>8 DEF RoleOf, StoreRests, Offset
<1>10. Others(c)
  BY <1>3, <1>6, <1>8 DEF Others, StoreRests
<1>11. FitsInv(c)'
  <2>1. rows' = rows /\ ClosedIn(c)' = ClosedIn(c)
    BY <1>3 DEF SourceRests, ClosedIn
  <2>2. CASE ~FitsOf(c, rows[c])
    BY <2>1, <2>2 DEF FitsInv, FitsOf
  <2>3. CASE FitsOf(c, rows[c])
    <3>1. CursorOf(c) /\ HistoryOf(c) /\ PendingOf(c) /\ WorkOf(c)
      BY <1>4, <2>3 DEF FitsInv
    <3>2. CursorOf(c)' /\ HistoryOf(c)'
      BY <1>3, <2>1, <3>1 DEF CursorOf, HistoryOf, StoreRests, Offset
    <3>3. resume = 0
      BY <1>2, <1>3, <1>4, <3>1 DEF WorkOf, PendingOf
    <3>4. PendingOf(c)'
      <4>1. CASE pending'[c] = O!NoPending
        BY <4>1 DEF PendingOf, O!NoPending
      <4>2. CASE c \notin opencodeBarred /\ pending'[c] = p
        BY <1>3, <1>4, <2>3, <3>3, <4>2, FinishedPending DEF p
      <4> QED  BY <1>6, <4>1, <4>2
    <3>5. WorkOf(c)'
      BY <1>3, <1>8 DEF WorkOf
    <3> QED  BY <3>2, <3>4, <3>5 DEF FitsInv
  <2> QED  BY <2>2, <2>3
<1> QED  BY <1>1, <1>3, <1>5, <1>7, <1>9, <1>10, <1>11, OneKeeps

LEMMA FinishesOverlapKeeps ==
    ASSUME ChatsGiven, ScansInv, O!FinishesOverlap
    PROVE  ScansInv'
<1> DEFINE now == opencodeScan.now
           u == opencodeScan'
           s == opencodeScan
<1>1. ScanTypes /\ PageRows \in Nat /\ ScanShape(opencodeScan) /\ Dated
  BY DEF ScansInv, ChatsGiven, ScanTypes
<1>0. PICK c : c = now.chat
  OBVIOUS
<1> DEFINE outcome == IF segment[c] = "opencode-v2" THEN "active" ELSE "waiting"
           more == now.more /\ opencodeCursor[c] # now.before
<1>2. /\ s.phase = "overlap" /\ now.step = "read" /\ u = [s EXCEPT !.now = O!NoChat]
      /\ O!Recorded(c, outcome, now.offset, now.rev, more)
      /\ SourceRests /\ StoreRests /\ pending' = pending /\ watermark' = watermark
  BY <1>0 DEF O!FinishesOverlap, O!sourceVars, SourceRests, StoreRests
<1>3. c \in O!Chats /\ Working(c)
  BY <1>0, <1>1, <1>2 DEF ScanShape, WorkShape, Working
<1>4. handoff[c].offset # -1
  <2>1. RoleOf(c)
    BY <1>3 DEF ScansInv
  <2> QED  BY <1>2, <1>3, <2>1 DEF RoleOf
<1>5. HandoffRests
  <2>1. DOMAIN handoff = O!Chats
    BY <1>1 DEF ScanTypes
  <2> DEFINE e == [status |-> outcome, rev |-> now.rev, more |-> more,
                   offset |-> IF handoff[c].offset # -1 THEN handoff[c].offset ELSE now.offset]
  <2>2. handoff' = handoff \/ handoff' = [handoff EXCEPT ![c] = e]
    BY <1>2 DEF O!Recorded
  <2>3. e.offset = handoff[c].offset
    BY <1>4
  <2> HIDE DEF e
  <2> QED  BY <1>3, <2>1, <2>2, <2>3 DEF HandoffRests
<1>6. ScanShape(u) /\ u.now = O!NoChat /\ u.listed = s.listed
  <2> HIDE DEF u, s
  <2> QED  BY <1>1, <1>2, ScanResting DEF s
<1>7. watermark' \in Nat \X Nat /\ Dated'
  BY <1>1, <1>2, <1>6, DatedRests DEF ScanTypes
<1>8. PendingRests
  BY <1>1, <1>2 DEF PendingRests, ScanTypes
<1> QED  BY <1>1, <1>2, <1>5, <1>6, <1>7, <1>8, IdleKeeps

\* The whole of it.
LEMMA ScansStart ==
    ASSUME ChatsGiven, O!OpencodeInit
    PROVE  ScansInv
<1>1. /\ rows \in [O!Chats -> {<<>>, <<"v1user", "v1reply">>}]
      /\ updated = [c \in O!Chats |-> 0]
      /\ v1 = [c \in O!Chats |-> IF c \in Migrants THEN "kept" ELSE "none"]
      /\ writes = 0 /\ history = [c \in O!Chats |-> <<>>] /\ opencodeCursor = [c \in O!Chats |-> 0]
      /\ segment = [c \in O!Chats |-> IF c \in Migrants THEN "native" ELSE "none"]
      /\ pending = [c \in O!Chats |-> O!NoPending] /\ handoff = [c \in O!Chats |-> O!NoHandoff]
      /\ watermark = <<0, 0>> /\ opencodeScan = O!NoScan
  BY DEF O!OpencodeInit
<1>2. rows \in [O!Chats -> Seq(Rows)]
  <2>1. {<<>>, <<"v1user", "v1reply">>} \subseteq Seq(Rows)
    BY RunsAreRows
  <2>2. \A c \in O!Chats : rows[c] \in Seq(Rows)
    BY <1>1, <2>1
  <2> QED  BY <1>1, <2>2
<1>3. ScanTypes
  BY <1>1, <1>2, NoScanShape DEF ScanTypes, Formats, Segments
<1>4. Dated
  BY <1>1 DEF Dated, O!NoScan
<1>5. ASSUME NEW c \in O!Chats
      PROVE  RoleOf(c) /\ FitsInv(c)
  <2>1. ~Working(c)
    BY <1>1 DEF Working, O!NoScan, O!NoChat
  <2>2. c \in Natives => c \notin Migrants
    BY DEF ChatsGiven
  <2>3. handoff[c].offset = -1 /\ segment[c] = (IF c \in Migrants THEN "native" ELSE "none")
    BY <1>1 DEF O!NoHandoff
  <2>4. RoleOf(c)
    BY <2>1, <2>2, <2>3 DEF RoleOf, O!Chats
  <2>5. /\ history[c] = <<>> /\ opencodeCursor[c] = 0 /\ segment[c] # "opencode-v2"
        /\ pending[c] = O!NoPending /\ pending[c].resume = 0
    BY <1>1, <2>3 DEF O!NoPending
  <2>6. CursorOf(c) /\ PendingOf(c) /\ WorkOf(c)
    BY <2>1, <2>5 DEF CursorOf, PendingOf, WorkOf
  <2>7. \A n \in DOMAIN ClosedIn(c) : ~(ClosedIn(c)[n].upto <= 0)
    <3>1. rows[c] \in Seq(Rows)
      BY <1>2
    <3>2. /\ ClosedIn(c) \in Seq(Ends) /\ EndsWithin(ClosedIn(c), rows[c], NewFrom(c, rows[c]), Len(rows[c]))
          /\ NewFrom(c, rows[c]) \in Nat
      BY <3>1, ClosedIs, NewFromIs DEF ClosedIn
    <3>3. \A n \in DOMAIN ClosedIn(c) : ClosedIn(c)[n].upto \in Nat
      BY <3>2, EndTypes
    <3> QED  BY <3>2, <3>3 DEF EndsWithin
  <2>8. HistoryOf(c)
    <3>1. <<>> \in Seq(StoredTurns) /\ DOMAIN <<>> = {}
      OBVIOUS
    <3> QED  BY <2>5, <2>7, <3>1 DEF HistoryOf
  <2> QED  BY <2>4, <2>6, <2>8 DEF FitsInv
<1> QED  BY <1>3, <1>4, <1>5 DEF ScansInv

LEMMA ScansStep ==
    ASSUME ChatsGiven
    PROVE  ScansInv /\ [O!OpencodeNext]_(O!opencodeVars) => ScansInv'
<1> SUFFICES ASSUME ScansInv, [O!OpencodeNext]_(O!opencodeVars)
             PROVE  ScansInv'
  OBVIOUS
<1>0. PageRows \in Nat /\ Natives \cap Migrants = {} /\ writes \in Nat
  BY DEF ChatsGiven, ScansInv, ScanTypes
<1>1. CASE UNCHANGED O!opencodeVars
  BY <1>1 DEF O!opencodeVars, O!sourceVars, O!storeVars, ScansInv, ScanTypes, Dated, RoleOf,
     FitsInv, FitsOf, CursorOf, HistoryOf, WorkOf, PendingOf, Working, InHand, Left, Passed,
     Newer, ClosedIn, Offset, O!HandsOff, O!Verified, O!HistoryCaptured, O!PrefixMigrated,
     O!OnlyNewBehind
<1>2. ASSUME NEW c \in O!Chats, NEW kinds \in O!Runs, O!Writes(c, kinds)
      PROVE  ScansInv'
  <2>1. O!Appends(c, kinds, writes + 1) /\ kinds \in Seq(Rows) /\ writes + 1 \in Nat
    BY <1>0, <1>2, RunsAreRows DEF O!Writes
  <2> QED  BY <1>0, <2>1, AppendsKeeps
<1>3. ASSUME NEW c \in O!Chats, O!Migrates(c)
      PROVE  ScansInv'
  <2>1. /\ O!Appends(c, <<"v1user", "v1reply">>, 0) /\ v1[c] # "none"
        /\ <<"v1user", "v1reply">> \in Seq(Rows)
    BY <1>3, RunsAreRows DEF O!Migrates
  <2> QED  BY <1>0, <2>1, AppendsKeeps
<1>4. ASSUME NEW c \in O!Chats,
             (\E rest \in {"grown", "none"} : O!ChangesOldFormat(c, rest)) \/ O!IsBarred(c)
      PROVE  ScansInv'
  BY <1>0, <1>4, ChangesKeeps
<1>5. CASE O!OpencodeNext
  BY <1>2, <1>3, <1>4, <1>5, StartsKeeps, SkipsKeeps, TakesKeeps, ReadsKeeps, HandlesKeeps,
     FinishesKeeps, OverlapKeeps, LeavesKeeps, TakesOverKeeps, FinishesOverlapKeeps,
     EndsKeeps DEF O!OpencodeNext
<1> QED  BY <1>1, <1>5

LEMMA OpencodeFollowed == [Next]_vars => [O!OpencodeNext]_(O!opencodeVars)
BY DEF Next, vars, opencodeVars, O!opencodeVars, O!sourceVars, O!storeVars, LifecycleSteps,
   ArchiveSteps, MigrationSteps, SourceSteps, OpencodeSteps, TaskStateSteps, RulesSteps,
   ParanoidSteps, EvidenceSteps, SetupSteps, InstallSteps, OpenTurnSteps

LEMMA ScansAreKept ==
    ASSUME ChatsGiven
    PROVE  Spec => []ScansInv
<1>1. Init => ScansInv
  BY ScansStart DEF Init
<1>2. ScansInv /\ [Next]_vars => ScansInv'
  BY OpencodeFollowed, ScansStep
<1> QED  BY <1>1, <1>2, PTL DEF Spec

LEMMA ClosedMeans ==
    ASSUME NEW c
    PROVE  /\ O!Closed(c) = ClosedIn(c) /\ O!Start(c) = NewFrom(c, rows[c])
           /\ O!FitsPages(c) <=> FitsOf(c, rows[c])
<1>1. O!Start(c) = NewFrom(c, rows[c])
  BY DEF O!Start, NewFrom
<1>2. O!Closed(c) = ClosedIn(c)
  BY <1>1 DEF O!Closed, ClosedIn, ClosedOf, ReadTo
<1>3. O!FitsPages(c) <=> FitsOf(c, rows[c])
  BY <1>1, <1>2 DEF O!FitsPages, FitsOf, ClosedIn
<1> QED  BY <1>1, <1>2, <1>3

LEMMA ScansInOrder == ScansInv => O!CapturedInOrder
<1> SUFFICES ASSUME ScansInv, NEW c \in O!Chats, O!FitsPages(c)
             PROVE  LET stored == history[c]
                        kept   == O!Kept(c)
                    IN  /\ \A k \in DOMAIN stored : \E t \in kept : O!IsOf(stored[k], t)
                        /\ \A j, k \in DOMAIN stored : j < k => stored[j].upto < stored[k].upto
                        /\ \A t \in kept, k \in DOMAIN stored : t.upto < stored[k].upto =>
                              \E j \in DOMAIN stored : O!IsOf(stored[j], t)
  BY DEF O!CapturedInOrder
<1> DEFINE x == ClosedIn(c)
           h == history[c]
           b == opencodeCursor[c]
<1>1. ScanTypes /\ CursorOf(c) /\ HistoryOf(c)
  BY ClosedMeans DEF ScansInv, FitsInv
<1>2. O!Kept(c) = {x[n] : n \in {m \in DOMAIN x : ~x[m].dropped}}
  BY ClosedMeans DEF O!Kept
<1>3. /\ \A k \in DOMAIN h : /\ h[k].upto <= b
                             /\ \E n \in DOMAIN x : ~x[n].dropped /\ O!IsOf(h[k], x[n])
      /\ \A j, k \in DOMAIN h : j < k => h[j].upto < h[k].upto
      /\ \A n \in DOMAIN x : ~x[n].dropped /\ x[n].upto <= b =>
            \E k \in DOMAIN h : O!IsOf(h[k], x[n])
  BY <1>1 DEF HistoryOf
<1>4. /\ b \in Nat /\ \A k \in DOMAIN h : h[k].upto \in Nat
      /\ \A n \in DOMAIN x : x[n].upto \in Nat
  <2>1. x \in Seq(Ends)
    BY <1>1, ClosedIs DEF ScanTypes, ClosedIn
  <2>2. \A k \in DOMAIN h : h[k] \in StoredTurns
    <3>1. h \in Seq(StoredTurns)
      BY <1>1 DEF HistoryOf
    <3> QED  BY <3>1
  <2> QED  BY <1>1, <2>1, <2>2, CursorIs, EndTypes DEF StoredTurns
<1> HIDE DEF x, h, b
<1>5. \A k \in DOMAIN h : \E t \in O!Kept(c) : O!IsOf(h[k], t)
  BY <1>2, <1>3
<1>6. ASSUME NEW t \in O!Kept(c), NEW k \in DOMAIN h, t.upto < h[k].upto
      PROVE  \E j \in DOMAIN h : O!IsOf(h[j], t)
  <2>1. PICK n \in DOMAIN x : ~x[n].dropped /\ t = x[n]
    BY <1>2
  <2>2. x[n].upto <= b
    BY <1>3, <1>4, <1>6, <2>1
  <2> QED  BY <1>3, <2>1, <2>2
<1> QED  BY <1>3, <1>5, <1>6 DEF h

\* What is stored of a chat in the new format is the first of its closed turns, each once, in
\* order and without a gap, behind the history of the old one, for any chats, any number of
\* rows read at once and whatever scans fail (daemon/index.ts: the cursor of a chat moves with
\* each turn that is stored or dropped; what was verified of the old rows must still hold).
THEOREM CapturedInOrderHolds ==
    ASSUME ChatsGiven
    PROVE  Spec => []CapturedInOrder
<1>1. ScansInv => CapturedInOrder
  BY ScansInOrder DEF CapturedInOrder
<1> QED  BY <1>1, ScansAreKept, PTL

\* The order of discovery.  Ahead of it are the chat in hand and those of its queue.
Precedes(t, d, s, c) == t < s \/ (t = s /\ d < c)
Ahead == IF opencodeScan.now.step = "none" THEN opencodeScan.queue
         ELSE <<opencodeScan.now.chat>> \o opencodeScan.queue

IsDue(c)  == c \in Natives /\ rows[c] # <<>> /\ v1[c] = "none" /\ O!Follows(c)
IsLate(c) == \A l \in opencodeScan.listed : updated[c] > l[2]

\* A chat that is due is still ahead, at the time it was listed with, or was written since;
\* the chats ahead are in the order of those times, and all behind the watermark.
DueIsAhead ==
    \A c \in Natives : IsDue(c) =>
       IsLate(c) \/ (<<c, updated[c]>> \in opencodeScan.listed /\ \E i \in DOMAIN Ahead : Ahead[i] = c)
AheadInOrder ==
    \A i, j \in DOMAIN Ahead : i < j =>
       \A l, k \in opencodeScan.listed :
          l[1] = Ahead[i] /\ k[1] = Ahead[j] => Precedes(l[2], l[1], k[2], k[1])
AheadFollows ==
    \A i \in DOMAIN Ahead : \A l \in opencodeScan.listed :
       l[1] = Ahead[i] => Precedes(watermark[1], watermark[2], l[2], l[1])
QueueInv ==
    opencodeScan.phase = "discovery" => DueIsAhead /\ AheadInOrder /\ AheadFollows

LEMMA QueueRests ==
    ASSUME QueueInv, Ahead' = Ahead, opencodeScan'.listed = opencodeScan.listed,
           watermark' = watermark,
           opencodeScan'.phase = "discovery" => opencodeScan.phase = "discovery",
           \A c \in Natives : IsDue(c)' => IsLate(c)' \/ (IsDue(c) /\ updated'[c] = updated[c])
    PROVE  QueueInv'
<1> SUFFICES ASSUME opencodeScan'.phase = "discovery"
             PROVE  DueIsAhead' /\ AheadInOrder' /\ AheadFollows'
  BY DEF QueueInv
<1>1. DueIsAhead /\ AheadInOrder /\ AheadFollows
  BY DEF QueueInv
<1>2. AheadInOrder' /\ AheadFollows'
  BY <1>1 DEF AheadInOrder, AheadFollows
<1>3. \A c \in Natives : IsDue(c) /\ updated'[c] = updated[c] =>
         IsLate(c)' \/ (<<c, updated'[c]>> \in opencodeScan.listed /\ \E i \in DOMAIN Ahead : Ahead[i] = c)
  BY <1>1 DEF DueIsAhead, IsLate
<1>4. DueIsAhead'
  BY <1>3 DEF DueIsAhead
<1> QED  BY <1>2, <1>4

\* Whatever was due keeps following the watermark when the first of the chats ahead is
\* consumed.
Consumes(d) ==
    /\ Ahead # <<>> /\ d = Ahead[1] /\ Ahead' = Tail(Ahead)
    /\ opencodeScan'.listed = opencodeScan.listed /\ opencodeScan.phase = "discovery"
    /\ IF \E l \in opencodeScan.listed : l[1] = d
       THEN \E l \in opencodeScan.listed : l[1] = d /\ watermark' = <<l[2], d>>
       ELSE watermark' = watermark

LEMMA TimesAre ==
    ASSUME ChatsGiven, ScanTypes
    PROVE  /\ Ahead \in Seq(O!Chats) /\ O!Chats \in SUBSET Nat
           /\ watermark[1] \in Nat /\ watermark[2] \in Nat
           /\ \A l \in opencodeScan.listed : l[1] \in Nat /\ l[2] \in Nat /\ l = <<l[1], l[2]>>
           /\ \A c \in Natives : c \in O!Chats /\ updated[c] \in Nat
<1>1. Ahead \in Seq(O!Chats)
  <2>1. opencodeScan.queue \in Seq(O!Chats) /\ WorkShape(opencodeScan.now)
    BY DEF ScanTypes, ScanShape
  <2>2. CASE opencodeScan.now.step = "none"
    BY <2>1, <2>2 DEF Ahead
  <2>3. CASE opencodeScan.now.step # "none"
    <3>1. opencodeScan.now.chat \in O!Chats
      BY <2>1, <2>3 DEF WorkShape
    <3> DEFINE c == opencodeScan.now.chat
               q == opencodeScan.queue
    <3>2. Ahead = <<c>> \o q /\ c \in O!Chats /\ q \in Seq(O!Chats)
      BY <2>1, <2>3, <3>1 DEF Ahead
    <3> HIDE DEF c, q
    <3> QED  BY <3>2
  <2> QED  BY <2>2, <2>3
<1>2. O!Chats \in SUBSET Nat
  BY DEF ChatsGiven, O!Chats
<1>3. opencodeScan.listed \in SUBSET (O!Chats \X Nat)
  BY DEF ScanTypes, ScanShape
<1>4. \A c \in Natives : c \in O!Chats /\ updated[c] \in Nat
  BY DEF O!Chats, ScanTypes
<1>5. watermark[1] \in Nat /\ watermark[2] \in Nat
  BY DEF ScanTypes
<1>6. \A l \in opencodeScan.listed : l[1] \in Nat /\ l[2] \in Nat /\ l = <<l[1], l[2]>>
  BY <1>2, <1>3
<1> QED  BY <1>1, <1>2, <1>4, <1>5, <1>6

LEMMA QueueConsumes ==
    ASSUME ChatsGiven, ScansInv, QueueInv, SourceRests, NEW d, Consumes(d)
    PROVE  /\ opencodeScan'.phase = opencodeScan.phase => QueueInv'
           /\ \A c \in Natives : c # d /\ IsDue(c) => O!Follows(c)'
<1> DEFINE ls == opencodeScan.listed
           z == Ahead
           w == watermark
<1>1. /\ DueIsAhead /\ AheadInOrder /\ AheadFollows
      /\ \A l, k \in ls : l[1] = k[1] => l = k
  BY DEF QueueInv, Consumes, ScansInv, Dated
<1>2. /\ z \in Seq(O!Chats) /\ O!Chats \in SUBSET Nat /\ w[1] \in Nat /\ w[2] \in Nat
      /\ \A l \in ls : l[1] \in Nat /\ l[2] \in Nat /\ l = <<l[1], l[2]>>
      /\ \A c \in Natives : c \in O!Chats /\ updated[c] \in Nat
  BY TimesAre DEF ScansInv
<1>3. /\ z # <<>> /\ d = z[1] /\ Ahead' = Tail(z) /\ opencodeScan'.listed = ls
      /\ IF \E l \in ls : l[1] = d
         THEN \E l \in ls : l[1] = d /\ watermark' = <<l[2], d>>
         ELSE watermark' = w
  BY DEF Consumes
<1>4. /\ 1 \in DOMAIN z /\ DOMAIN Tail(z) = 1..(Len(z) - 1) /\ Len(z) \in Nat /\ DOMAIN z = 1..Len(z)
      /\ \A i \in DOMAIN Tail(z) : i + 1 \in DOMAIN z /\ Tail(z)[i] = z[i + 1] /\ i + 1 > 1
  BY <1>2, <1>3
<1>5. /\ rows' = rows /\ updated' = updated /\ v1' = v1
  BY DEF SourceRests
<1>6. /\ \A c \in Natives : IsDue(c) => IsLate(c) \/ (<<c, updated[c]>> \in ls /\ \E i \in DOMAIN z : z[i] = c)
      /\ \A i, j \in DOMAIN z : i < j =>
            \A l, k \in ls : l[1] = z[i] /\ k[1] = z[j] => Precedes(l[2], l[1], k[2], k[1])
      /\ \A i \in DOMAIN z : \A l \in ls : l[1] = z[i] => Precedes(w[1], w[2], l[2], l[1])
  BY <1>1 DEF DueIsAhead, AheadInOrder, AheadFollows
<1>7. /\ \A c : O!Follows(c) <=> updated[c] > w[1] \/ (updated[c] = w[1] /\ c > w[2])
      /\ \A c : O!Follows(c)' <=> updated[c] > watermark'[1] \/ (updated[c] = watermark'[1] /\ c > watermark'[2])
  BY <1>5 DEF O!Follows
<1> HIDE DEF ls, z, w
<1>8. CASE ~\E l \in ls : l[1] = d
  <2>1. watermark' = w
    BY <1>3, <1>8
  <2>2. \A c \in Natives : O!Follows(c)' <=> O!Follows(c)
    BY <1>7, <2>1
  <2>3. \A c \in Natives : IsDue(c)' <=> IsDue(c)
    BY <1>5, <2>2 DEF IsDue
  <2>4. DueIsAhead'
    <3> SUFFICES ASSUME NEW c \in Natives, IsDue(c), ~IsLate(c)
                 PROVE  <<c, updated[c]>> \in ls /\ \E i \in DOMAIN Tail(z) : Tail(z)[i] = c
      BY <1>3, <1>5, <2>3 DEF DueIsAhead, IsLate, ls
    <3>1. <<c, updated[c]>> \in ls
      BY <1>6
    <3>2. PICK i \in DOMAIN z : z[i] = c
      BY <1>6
    <3>3. c # d
      BY <1>8, <3>1
    <3>4. i # 1 /\ i - 1 \in DOMAIN Tail(z) /\ (i - 1) + 1 = i
      BY <1>3, <1>4, <3>2, <3>3
    <3>5. Tail(z)[i - 1] = c
      BY <1>4, <3>2, <3>4
    <3> QED  BY <3>1, <3>4, <3>5
  <2>5. AheadInOrder' /\ AheadFollows'
    <3>1. \A i, j \in DOMAIN Tail(z) : i < j => i + 1 < j + 1
      BY <1>4
    <3>2. \A i, j \in DOMAIN Tail(z) : i < j =>
             \A l, k \in ls : l[1] = Tail(z)[i] /\ k[1] = Tail(z)[j] => Precedes(l[2], l[1], k[2], k[1])
      BY <1>4, <1>6, <3>1
    <3>3. \A i \in DOMAIN Tail(z) : \A l \in ls : l[1] = Tail(z)[i] => Precedes(w[1], w[2], l[2], l[1])
      BY <1>4, <1>6
    <3> QED  BY <1>3, <2>1, <3>2, <3>3 DEF AheadInOrder, AheadFollows, ls, w
  <2>6. \A c \in Natives : IsDue(c) => O!Follows(c)'
    BY <2>2 DEF IsDue
  <2> QED  BY <2>4, <2>5, <2>6 DEF QueueInv
<1>9. CASE \E l \in ls : l[1] = d
  <2>1. PICK a \in ls : a[1] = d /\ watermark' = <<a[2], d>>
    BY <1>3, <1>9
  <2>2. /\ watermark'[1] = a[2] /\ watermark'[2] = d /\ a[2] \in Nat /\ d \in Nat /\ a = <<d, a[2]>>
    BY <1>2, <2>1
  <2>3. Precedes(w[1], w[2], a[2], d)
    BY <1>3, <1>4, <1>6, <2>1
  <2>4. \A j \in DOMAIN z : j > 1 => \A k \in ls : k[1] = z[j] => Precedes(a[2], d, k[2], k[1])
    BY <1>3, <1>4, <1>6, <2>1
  <2>5. ASSUME NEW c \in Natives, c # d, IsDue(c), ~IsLate(c)
        PROVE  <<c, updated[c]>> \in ls /\ \E i \in DOMAIN z : i > 1 /\ z[i] = c
    <3>1. <<c, updated[c]>> \in ls
      BY <1>6, <2>5
    <3>2. PICK i \in DOMAIN z : z[i] = c
      BY <1>6, <2>5
    <3>3. i > 1
      BY <1>3, <1>4, <2>5, <3>2
    <3> QED  BY <3>1, <3>2, <3>3
  <2>6. ASSUME NEW c \in Natives, c # d, IsDue(c)
        PROVE  O!Follows(c)'
    <3>1. CASE IsLate(c)
      <4>1. updated[c] > a[2]
        BY <3>1, <2>1 DEF IsLate, ls
      <4> QED  BY <1>7, <2>2, <4>1
    <3>2. CASE ~IsLate(c)
      <4> DEFINE k == <<c, updated[c]>>
      <4>1. k \in ls /\ \E i \in DOMAIN z : i > 1 /\ z[i] = c
        BY <2>5, <2>6, <3>2
      <4>2. k[1] = c /\ k[2] = updated[c]
        OBVIOUS
      <4> HIDE DEF k
      <4>3. Precedes(a[2], d, updated[c], c)
        BY <2>4, <4>1, <4>2
      <4>4. c \in Nat /\ updated[c] \in Nat
        BY <1>2
      <4> QED  BY <1>7, <2>2, <4>3, <4>4 DEF Precedes
    <3> QED  BY <3>1, <3>2
  <2>7. ASSUME NEW c \in Natives, O!Follows(c)'
        PROVE  O!Follows(c)
    <3>1. c \in Nat /\ updated[c] \in Nat
      BY <1>2
    <3> QED  BY <1>2, <1>7, <2>2, <2>3, <2>7, <3>1 DEF Precedes
  <2>8. \A c \in Natives : IsDue(c)' => IsDue(c)
    BY <1>5, <2>7 DEF IsDue
  <2>9. DueIsAhead'
    <3> SUFFICES ASSUME NEW c \in Natives, IsDue(c)', ~IsLate(c)
                 PROVE  <<c, updated[c]>> \in ls /\ \E i \in DOMAIN Tail(z) : Tail(z)[i] = c
      BY <1>3, <1>5 DEF DueIsAhead, IsLate, ls
    <3>1. IsDue(c) /\ O!Follows(c)'
      BY <2>8 DEF IsDue
    <3>2. c # d
      <4> SUFFICES ASSUME c = d PROVE FALSE
        OBVIOUS
      <4> DEFINE k == <<c, updated[c]>>
      <4>1. k \in ls /\ k[1] = c /\ k[2] = updated[c]
        BY <1>6, <3>1
      <4> HIDE DEF k
      <4>2. k = a
        BY <1>1, <2>1, <4>1 DEF ls
      <4>3. updated[c] = a[2] /\ c \in Nat
        BY <1>2, <4>1, <4>2
      <4> QED  BY <1>7, <2>2, <3>1, <4>3
    <3>3. <<c, updated[c]>> \in ls
      BY <2>5, <3>1, <3>2
    <3>4. PICK i \in DOMAIN z : i > 1 /\ z[i] = c
      BY <2>5, <3>1, <3>2
    <3>5. i - 1 \in DOMAIN Tail(z) /\ (i - 1) + 1 = i
      BY <1>4, <3>4
    <3>6. Tail(z)[i - 1] = c
      BY <1>4, <3>4, <3>5
    <3> QED  BY <3>3, <3>5, <3>6
  <2>10. AheadInOrder' /\ AheadFollows'
    <3>1. \A i, j \in DOMAIN Tail(z) : i < j => i + 1 < j + 1
      BY <1>4
    <3>2. \A i, j \in DOMAIN Tail(z) : i < j =>
             \A l, k \in ls : l[1] = Tail(z)[i] /\ k[1] = Tail(z)[j] => Precedes(l[2], l[1], k[2], k[1])
      BY <1>4, <1>6, <3>1
    <3>3. \A i \in DOMAIN Tail(z) : \A l \in ls : l[1] = Tail(z)[i] => Precedes(a[2], d, l[2], l[1])
      BY <1>4, <2>4
    <3> QED  BY <1>3, <2>2, <3>2, <3>3 DEF AheadInOrder, AheadFollows, ls
  <2> QED  BY <2>6, <2>9, <2>10 DEF QueueInv
<1> QED  BY <1>8, <1>9

LEMMA AppendsQueue ==
    ASSUME ScansInv, QueueInv, NEW c \in O!Chats, NEW kinds \in Seq(Rows), NEW time \in Nat,
           time = writes + 1 \/ (time = 0 /\ v1[c] # "none"), O!Appends(c, kinds, time)
    PROVE  QueueInv' /\ \A d \in Natives : IsDue(d)' => IsLate(d)' \/ (IsDue(d) /\ updated'[d] = updated[d])
<1>1. /\ rows' = [rows EXCEPT ![c] = @ \o kinds] /\ updated' = [updated EXCEPT ![c] = time]
      /\ v1' = v1 /\ Untouched
  BY DEF O!Appends, O!storeVars, Untouched
<1>2. /\ rows \in [O!Chats -> Seq(Rows)] /\ updated \in [O!Chats -> Nat] /\ writes \in Nat
      /\ \A l \in opencodeScan.listed : l[2] <= writes /\ l[2] \in Nat
  BY DEF ScansInv, ScanTypes, ScanShape, Dated
<1>3. watermark' = watermark /\ opencodeScan' = opencodeScan
  BY <1>1 DEF Untouched
<1>4. ASSUME NEW d \in Natives, IsDue(d)'
      PROVE  IsLate(d)' \/ (IsDue(d) /\ updated'[d] = updated[d])
  <2>1. d \in O!Chats
    BY DEF O!Chats
  <2>2. CASE d # c
    <3>1. rows'[d] = rows[d] /\ updated'[d] = updated[d]
      BY <1>1, <1>2, <2>1, <2>2
    <3> QED  BY <1>1, <1>3, <1>4, <3>1 DEF IsDue, O!Follows
  <2>3. CASE d = c
    <3>1. v1[c] = "none"
      BY <1>1, <1>4, <2>3 DEF IsDue
    <3>2. updated'[d] = writes + 1
      BY <1>1, <1>2, <2>3, <3>1
    <3> QED  BY <1>2, <1>3, <3>2 DEF IsLate
  <2> QED  BY <2>2, <2>3
<1>5. Ahead' = Ahead
  BY <1>3 DEF Ahead
<1> QED  BY <1>3, <1>4, <1>5, QueueRests

LEMMA ChangesQueue ==
    ASSUME ScansInv, QueueInv, NEW c \in O!Chats, Natives \cap Migrants = {},
           (\E rest \in {"grown", "none"} : O!ChangesOldFormat(c, rest)) \/ O!IsBarred(c)
    PROVE  QueueInv' /\ \A d \in Natives : v1'[d] = "none" => v1[d] = "none"
<1>1. /\ rows' = rows /\ updated' = updated /\ Untouched
      /\ \/ v1' = v1
         \/ \E rest \in (IF c \in Migrants THEN {"grown", "none"} ELSE {"grown"}) :
               v1' = [v1 EXCEPT ![c] = rest]
  BY DEF O!ChangesOldFormat, O!IsBarred, O!storeVars, Untouched
<1>2. v1 \in [O!Chats -> Formats]
  BY DEF ScansInv, ScanTypes
<1>3. ASSUME NEW d \in Natives
      PROVE  v1'[d] = "none" => v1[d] = "none"
  <2>1. d \in O!Chats /\ d \notin Migrants
    BY DEF O!Chats
  <2> QED  BY <1>1, <1>2, <2>1
<1>4. watermark' = watermark /\ opencodeScan' = opencodeScan
  BY <1>1 DEF Untouched
<1>5. Ahead' = Ahead
  BY <1>4 DEF Ahead
<1>6. \A d \in Natives : IsDue(d)' => IsDue(d) /\ updated'[d] = updated[d]
  BY <1>1, <1>3, <1>4 DEF IsDue, O!Follows
<1> QED  BY <1>3, <1>4, <1>5, <1>6, QueueRests

LEMMA StartsQueue ==
    ASSUME ChatsGiven, ScansInv, O!StartsScan
    PROVE  QueueInv'
<1> DEFINE x == O!InOrder(O!Dirty, O!Earlier)
           y == O!InOrder(O!Waiting \ O!Dirty, O!Smaller)
           ls == opencodeScan'.listed
           z == x \o y
<1>1. /\ opencodeScan'.now = O!NoChat /\ opencodeScan'.queue = z
      /\ ls = {<<c, updated[c]>> : c \in O!Dirty}
      /\ SourceRests /\ watermark' = watermark
  BY StartsFields
<1>2. updated \in [O!Chats -> Nat] /\ O!Dirty \in SUBSET O!Chats
      /\ O!Waiting \ O!Dirty \in SUBSET O!Chats /\ O!Chats \in SUBSET Nat
      /\ watermark[1] \in Nat /\ watermark[2] \in Nat
  BY DEF ScansInv, ScanTypes, O!Dirty, O!Waiting, ChatsGiven, O!Chats
<1>3. /\ x \in Seq(O!Chats) /\ \A c \in O!Dirty : \E i \in DOMAIN x : x[i] = c
      /\ \A i \in DOMAIN x : x[i] \in O!Dirty
      /\ \A i, j \in DOMAIN x : i < j => Sooner(updated, x[i], x[j])
  BY <1>2, QueueByTime
<1>4. /\ y \in Seq(O!Chats) /\ \A i \in DOMAIN y : y[i] \in O!Waiting \ O!Dirty
  BY <1>2, QueueById
<1> HIDE DEF x, y
<1>5. /\ z \in Seq(O!Chats) /\ Len(z) = Len(x) + Len(y) /\ Len(x) \in Nat /\ Len(y) \in Nat
      /\ DOMAIN z = 1..(Len(x) + Len(y)) /\ DOMAIN x = 1..Len(x) /\ DOMAIN y = 1..Len(y)
      /\ \A i \in DOMAIN x : z[i] = x[i] /\ i \in DOMAIN z
      /\ \A i \in DOMAIN z : i \notin DOMAIN x => i - Len(x) \in DOMAIN y /\ z[i] = y[i - Len(x)]
  BY <1>3, <1>4
<1>6. Ahead' = z
  BY <1>1 DEF Ahead, O!NoChat
<1>7. \A i \in DOMAIN z : z[i] \in O!Dirty => i \in DOMAIN x
  BY <1>4, <1>5
<1> HIDE DEF z, ls
<1>8. ASSUME NEW l \in ls
      PROVE  /\ l[1] \in O!Dirty /\ l[2] = updated[l[1]] /\ l[1] \in Nat /\ updated[l[1]] \in Nat
             /\ O!Follows(l[1])
  <2>1. PICK c \in O!Dirty : l = <<c, updated[c]>>
    BY <1>1
  <2>2. l[1] = c /\ l[2] = updated[c] /\ c \in Nat /\ updated[c] \in Nat
    BY <1>2, <2>1
  <2> QED  BY <2>2 DEF O!Dirty
<1>9. DueIsAhead'
  <2> SUFFICES ASSUME NEW c \in Natives, IsDue(c)'
               PROVE  <<c, updated'[c]>> \in ls /\ \E i \in DOMAIN z : z[i] = c
    BY <1>6 DEF DueIsAhead, ls
  <2>1. c \in O!Dirty
    BY <1>1 DEF IsDue, O!Dirty, O!Follows, SourceRests, O!Chats
  <2>2. updated' = updated
    BY <1>1 DEF SourceRests
  <2>3. <<c, updated[c]>> \in ls
    BY <1>1, <2>1
  <2>4. \E i \in DOMAIN z : z[i] = c
    BY <1>3, <1>5, <2>1
  <2> QED  BY <2>2, <2>3, <2>4
<1>10. AheadInOrder'
  <2> SUFFICES ASSUME NEW i \in DOMAIN z, NEW j \in DOMAIN z, i < j, NEW l \in ls, NEW k \in ls,
                      l[1] = z[i], k[1] = z[j]
               PROVE  Precedes(l[2], l[1], k[2], k[1])
    BY <1>6 DEF AheadInOrder, ls
  <2>1. i \in DOMAIN x /\ j \in DOMAIN x
    BY <1>7, <1>8
  <2>2. Sooner(updated, z[i], z[j])
    BY <1>3, <1>5, <2>1
  <2> QED  BY <1>8, <2>2 DEF Sooner, Precedes
<1>11. AheadFollows'
  <2> SUFFICES ASSUME NEW i \in DOMAIN z, NEW l \in ls, l[1] = z[i]
               PROVE  Precedes(watermark[1], watermark[2], l[2], l[1])
    BY <1>1, <1>6 DEF AheadFollows, ls
  <2> QED  BY <1>2, <1>8 DEF Precedes, O!Follows
<1> QED  BY <1>9, <1>10, <1>11 DEF QueueInv

\* A closed turn of a chat that may be read is not read yet; a scan will find it.
Missed(c) ==
    /\ Current(c) /\ handoff[c] = O!NoHandoff /\ c \notin opencodeBarred
    /\ FitsOf(c, rows[c])
    /\ \E k \in DOMAIN ClosedIn(c) : ClosedIn(c)[k].upto > opencodeCursor[c]
Waits(c) ==
    pending[c] # O!NoPending /\ (pending[c].more \/ pending[c].rev # O!Revision(c))
Found == \A c \in Natives : Missed(c) => O!Follows(c) \/ Waits(c)

LEMMA MissedIsDue ==
    ASSUME ScanTypes, NEW c \in Natives, Missed(c), O!Follows(c)
    PROVE  IsDue(c)
<1>1. c \in O!Chats /\ rows[c] \in Seq(Rows)
  BY DEF ScanTypes, O!Chats
<1>2. ClosedIn(c) \in Seq(Ends) /\ EndsWithin(ClosedIn(c), rows[c], NewFrom(c, rows[c]), Len(rows[c]))
      /\ NewFrom(c, rows[c]) \in Nat
  BY <1>1, ClosedIs, NewFromIs DEF ClosedIn
<1>3. PICK k \in DOMAIN ClosedIn(c) : ClosedIn(c)[k].upto > opencodeCursor[c]
  BY DEF Missed
<1>4. ClosedIn(c)[k].upto \in Nat /\ ClosedIn(c)[k].upto <= Len(rows[c]) /\ NewFrom(c, rows[c]) < ClosedIn(c)[k].upto
  BY <1>2, EndTypes DEF EndsWithin
<1>5. rows[c] # <<>>
  <2> SUFFICES ASSUME rows[c] = <<>> PROVE FALSE
    OBVIOUS
  <2>1. Len(rows[c]) = 0
    OBVIOUS
  <2> QED  BY <1>2, <1>4, <2>1
<1> QED  BY <1>5 DEF Missed, Current, IsDue

\* Discovery reads further and forgets nothing.
LEMMA FoundRests ==
    ASSUME Found, SourceRests, watermark' = watermark, pending' = pending,
           \A c \in Natives : Missed(c)' => Missed(c)
    PROVE  Found'
<1>1. \A c \in Natives : O!Follows(c)' <=> O!Follows(c)
  BY DEF O!Follows, SourceRests
<1>2. \A c \in Natives : Waits(c)' <=> Waits(c)
  BY DEF Waits, O!Revision, SourceRests
<1> QED  BY <1>1, <1>2 DEF Found

LEMMA MissedRests ==
    ASSUME SourceRests, opencodeCursor' = opencodeCursor,
           \A c \in Natives : handoff'[c] = O!NoHandoff => handoff[c] = O!NoHandoff
    PROVE  \A c \in Natives : Missed(c)' => Missed(c)
BY DEF Missed, Current, FitsOf, ClosedIn, SourceRests

LEMMA RecordedIs ==
    ASSUME DOMAIN handoff = O!Chats, NEW c \in O!Chats, NEW outcome, outcome # "none",
           NEW rev, NEW more, NEW offset, O!Recorded(c, outcome, offset, rev, more)
    PROVE  \A d \in Natives : handoff'[d] = O!NoHandoff => handoff[d] = O!NoHandoff
<1> DEFINE e == [status |-> outcome, rev |-> rev, more |-> more,
                 offset |-> IF handoff[c].offset # -1 THEN handoff[c].offset ELSE offset]
<1>1. handoff' = handoff \/ handoff' = [handoff EXCEPT ![c] = e]
  BY DEF O!Recorded
<1>2. e.status = outcome /\ O!NoHandoff.status = "none"
  BY DEF O!NoHandoff
<1>3. e # O!NoHandoff
  <2> HIDE DEF e
  <2> QED  BY <1>2
<1> HIDE DEF e
<1>4. \A d \in Natives : d \in O!Chats
  BY DEF O!Chats
<1> QED  BY <1>1, <1>3, <1>4

LEMMA AppendsFound ==
    ASSUME ScansInv, Found, NEW c \in O!Chats, NEW kinds \in Seq(Rows), NEW time \in Nat,
           time = writes + 1 \/ (time = 0 /\ v1[c] # "none"), O!Appends(c, kinds, time)
    PROVE  Found'
<1>1. /\ rows' = [rows EXCEPT ![c] = @ \o kinds] /\ updated' = [updated EXCEPT ![c] = time]
      /\ v1' = v1 /\ Untouched /\ opencodeBarred' = opencodeBarred
  BY DEF O!Appends, O!storeVars, Untouched
<1>2. /\ rows \in [O!Chats -> Seq(Rows)] /\ updated \in [O!Chats -> Nat] /\ writes \in Nat
      /\ watermark[1] \in Nat /\ watermark[1] <= writes
  BY DEF ScansInv, ScanTypes, Dated
<1> SUFFICES ASSUME NEW d \in Natives, Missed(d)'
             PROVE  O!Follows(d)' \/ Waits(d)'
  BY DEF Found
<1>3. d \in O!Chats
  BY DEF O!Chats
<1>4. CASE d = c
  <2>1. v1[c] = "none"
    BY <1>1, <1>4 DEF Missed, Current
  <2>2. updated'[d] = writes + 1
    BY <1>1, <1>2, <1>4, <2>1
  <2> QED  BY <1>1, <1>2, <2>2 DEF O!Follows, Untouched
<1>5. CASE d # c
  <2>1. rows'[d] = rows[d] /\ updated'[d] = updated[d]
    BY <1>1, <1>2, <1>3, <1>5
  <2>2. /\ handoff' = handoff /\ pending' = pending /\ watermark' = watermark
        /\ opencodeCursor' = opencodeCursor
    BY <1>1 DEF Untouched
  <2>3. Missed(d)
    BY <1>1, <2>1, <2>2 DEF Missed, Current, FitsOf, ClosedIn
  <2>4. O!Follows(d) \/ Waits(d)
    BY <2>3 DEF Found
  <2> QED  BY <2>1, <2>2, <2>4 DEF O!Follows, Waits, O!Revision
<1> QED  BY <1>4, <1>5

LEMMA ChangesFound ==
    ASSUME ScansInv, Found, NEW c \in O!Chats,
           (\E rest \in {"grown", "none"} : O!ChangesOldFormat(c, rest)) \/ O!IsBarred(c),
           \A d \in Natives : v1'[d] = "none" => v1[d] = "none"
    PROVE  Found'
<1>1. /\ rows' = rows /\ updated' = updated /\ Untouched /\ opencodeBarred \subseteq opencodeBarred'
  BY DEF O!ChangesOldFormat, O!IsBarred, O!storeVars, Untouched
<1> SUFFICES ASSUME NEW d \in Natives, Missed(d)'
             PROVE  O!Follows(d)' \/ Waits(d)'
  BY DEF Found
<1>2. Missed(d)
  BY <1>1 DEF Missed, Current, FitsOf, ClosedIn, Untouched
<1>3. O!Follows(d) \/ Waits(d)
  BY <1>2 DEF Found
<1> QED  BY <1>1, <1>3 DEF O!Follows, Waits, O!Revision, Untouched

\* A step of a scan that reads on.
LEMMA ReadsOn ==
    ASSUME ScansInv, QueueInv, Found, SourceRests, watermark' = watermark,
           opencodeScan'.listed = opencodeScan.listed, Ahead' = Ahead,
           opencodeScan'.phase = "discovery" => opencodeScan.phase = "discovery",
           pending' = pending, \A c \in Natives : Missed(c)' => Missed(c)
    PROVE  QueueInv' /\ Found'
<1>1. \A c \in Natives : IsDue(c)' => IsDue(c) /\ updated'[c] = updated[c]
  BY DEF IsDue, O!Follows, SourceRests
<1>2. QueueInv'
  BY <1>1, QueueRests
<1> QED  BY <1>2, FoundRests

LEMMA TakesFound ==
    ASSUME ChatsGiven, ScansInv, QueueInv, Found, O!TakesChat
    PROVE  QueueInv' /\ Found'
<1> DEFINE c == Head(opencodeScan.queue)
           q == opencodeScan.queue
<1>1. ScanTypes /\ ScanShape(opencodeScan)
  BY DEF ScansInv, ScanTypes
<1>2. /\ opencodeScan.phase = "discovery" /\ q # <<>> /\ opencodeScan.now = O!NoChat
      /\ opencodeScan'.queue = Tail(q)
      /\ opencodeScan'.listed = opencodeScan.listed
      /\ opencodeScan'.now.chat = c /\ opencodeScan'.now.step = "revised"
      /\ SourceRests /\ StoreRests /\ pending' = pending /\ handoff' = handoff
      /\ watermark' = watermark
  BY <1>1, TakesFields
<1>3. Ahead = q /\ Ahead' = <<c>> \o Tail(q)
  BY <1>2 DEF Ahead, O!NoChat
<1>4. q \in Seq(O!Chats)
  BY <1>1 DEF ScanShape
<1>5. <<Head(q)>> \o Tail(q) = q
  <2> HIDE DEF q
  <2> QED  BY <1>2, <1>4
<1>6. \A d \in Natives : Missed(d)' => Missed(d)
  BY <1>2, MissedRests DEF StoreRests
<1> QED  BY <1>2, <1>3, <1>5, <1>6, ReadsOn

LEMMA ReadsFound ==
    ASSUME ChatsGiven, ScansInv, QueueInv, Found, O!ReadsRows
    PROVE  QueueInv' /\ Found'
<1>1. ScanTypes
  BY DEF ScansInv
<1>2. /\ opencodeScan.now.step = "revised" /\ opencodeScan'.queue = opencodeScan.queue
      /\ opencodeScan'.listed = opencodeScan.listed
      /\ opencodeScan'.phase = opencodeScan.phase
      /\ opencodeScan'.now.chat = opencodeScan.now.chat /\ opencodeScan'.now.step = "read"
      /\ SourceRests /\ StoreRests /\ pending' = pending /\ handoff' = handoff
      /\ watermark' = watermark
  BY <1>1, ReadsFields DEF SameWork
<1>3. Ahead' = Ahead
  BY <1>2 DEF Ahead
<1>4. \A d \in Natives : Missed(d)' => Missed(d)
  BY <1>2, MissedRests DEF StoreRests
<1> QED  BY <1>2, <1>3, <1>4, ReadsOn

LEMMA HandlesFound ==
    ASSUME ChatsGiven, ScansInv, QueueInv, Found, O!HandlesTurn
    PROVE  QueueInv' /\ Found'
<1> DEFINE now == opencodeScan.now
<1>1. ScanTypes
  BY DEF ScansInv
<1>0. PICK c : c = now.chat
  OBVIOUS
<1>2. PICK t : t = Head(now.ready)
  OBVIOUS
<1>3. /\ c \in O!Chats /\ now.step = "read" /\ now.ready # <<>>
      /\ opencodeScan'.listed = opencodeScan.listed
      /\ opencodeScan'.phase = opencodeScan.phase /\ opencodeScan'.queue = opencodeScan.queue
      /\ opencodeScan'.now.chat = c /\ opencodeScan'.now.step = "read"
      /\ Handled(c, t)
      /\ SourceRests /\ pending' = pending /\ handoff' = handoff
      /\ watermark' = watermark
  BY <1>0, <1>1, <1>2, HandlesFields DEF SameWork
<1>4. Ahead' = Ahead
  BY <1>0, <1>3 DEF Ahead
<1>5. opencodeCursor' = opencodeCursor \/ opencodeCursor' = [opencodeCursor EXCEPT ![c] = t.upto]
  BY <1>3 DEF Handled, StoreRests
<1>6. ASSUME NEW d \in Natives, Missed(d)'
      PROVE  Missed(d)
  <2>1. d \in O!Chats /\ DOMAIN opencodeCursor = O!Chats
    BY <1>1 DEF O!Chats, ScanTypes
  <2>2. ClosedIn(d)' = ClosedIn(d) /\ FitsOf(d, rows[d])
    BY <1>3, <1>6 DEF ClosedIn, Missed, FitsOf, SourceRests
  <2>3. PICK k \in DOMAIN ClosedIn(d) : ClosedIn(d)[k].upto > opencodeCursor'[d]
    BY <1>6, <2>2 DEF Missed
  <2>4. Current(d) /\ handoff[d] = O!NoHandoff /\ d \notin opencodeBarred
    BY <1>3, <1>6 DEF Missed, Current, SourceRests
  <2>5. CASE opencodeCursor'[d] = opencodeCursor[d]
    BY <2>2, <2>3, <2>4, <2>5 DEF Missed
  <2>6. CASE d = c /\ opencodeCursor'[d] = t.upto
    <3>1. Working(c) /\ CursorOf(c) /\ WorkOf(c)
      BY <1>0, <1>3, <2>2, <2>6 DEF Working, ScansInv, FitsInv
    <3>2. now.ready \in Seq(Ends) /\ \E m \in Nat : InHand(c, m)
      BY <1>3, <3>1 DEF WorkOf
    <3>3. PICK m \in Nat : InHand(c, m)
      BY <3>2
    <3>4. t = now.ready[1]
      BY <1>2, <3>2
    <3>5. Next1(c, m, t)
      BY <1>1, <1>3, <3>1, <3>2, <3>3, <3>4, NextIs
    <3>6. opencodeCursor[c] < t.upto /\ t.upto \in Nat /\ ClosedIn(c)[k].upto \in Nat
      BY <2>3, <2>6, <3>5 DEF Next1
    <3>7. opencodeCursor[c] \in Nat
      BY <1>1, <1>3, <3>1, CursorIs
    <3>8. ClosedIn(d)[k].upto > opencodeCursor[d]
      BY <2>3, <2>6, <3>6, <3>7
    <3> QED  BY <2>2, <2>4, <3>8 DEF Missed
  <2> QED  BY <1>5, <2>1, <2>5, <2>6
<1> QED  BY <1>3, <1>4, <1>6, ReadsOn

\* The overlap cycle, and the end of a scan.
LEMMA LeftAlone ==
    ASSUME ScansInv, Found, SourceRests, watermark' = watermark, pending' = pending,
           opencodeCursor' = opencodeCursor, opencodeScan'.phase # "discovery",
           \A c \in Natives : handoff'[c] = O!NoHandoff => handoff[c] = O!NoHandoff
    PROVE  QueueInv' /\ Found'
<1>1. QueueInv'
  BY DEF QueueInv
<1> QED  BY <1>1, MissedRests, FoundRests

LEMMA OverlapsFound ==
    ASSUME ChatsGiven, ScansInv, QueueInv, Found,
           O!StartsOverlap \/ O!LeavesOverlap \/ O!TakesOver \/ O!FinishesOverlap \/ O!EndsScan
           \/ O!Stops
    PROVE  QueueInv' /\ Found'
<1>1. ScanTypes /\ ScanShape(opencodeScan) /\ DOMAIN handoff = O!Chats
  BY DEF ScansInv, ScanTypes
<1>2. /\ SourceRests /\ watermark' = watermark /\ pending' = pending
      /\ opencodeCursor' = opencodeCursor
  BY DEF O!StartsOverlap, O!LeavesOverlap, O!TakesOver, O!FinishesOverlap, O!EndsScan, O!Stops,
     O!sourceVars, O!storeVars, SourceRests
<1>3. CASE O!StartsOverlap
  <2>1. opencodeScan'.phase = "overlap" /\ handoff' = handoff
    BY <1>3, OverlapFields DEF O!StartsOverlap
  <2> QED  BY <1>2, <2>1, LeftAlone
<1>4. CASE O!LeavesOverlap
  <2> DEFINE c == Head(opencodeScan.queue)
  <2>1. opencodeScan.phase = "overlap" /\ opencodeScan.queue # <<>> /\ O!LeavesChat(c)
        /\ opencodeScan' = O!Rest
    BY <1>4 DEF O!LeavesOverlap, O!Turns
  <2>2. opencodeScan'.phase = "overlap" /\ c \in O!Chats
    BY <1>1, <2>1, RestIs, HeadIs
  <2>3. \/ handoff' = handoff
        \/ O!Recorded(c, "abstained", -1, O!BothRevisions(c), FALSE)
        \/ O!Recorded(c, "waiting", -1, O!BothRevisions(c), FALSE)
    BY <2>1 DEF O!LeavesChat
  <2>4. \A d \in Natives : handoff'[d] = O!NoHandoff => handoff[d] = O!NoHandoff
    <3> HIDE DEF c
    <3> QED  BY <1>1, <2>2, <2>3, RecordedIs
  <2> QED  BY <1>2, <2>2, <2>4, LeftAlone
<1>5. CASE O!TakesOver
  <2> DEFINE c == Head(opencodeScan.queue)
  <2>1. /\ opencodeScan'.phase = "overlap" /\ opencodeScan.queue # <<>>
        /\ handoff' = handoff \/ O!Recorded(c, "waiting", O!OffsetOf(c), <<>>, FALSE)
    BY <1>1, <1>5, OverFields
  <2>2. c \in O!Chats
    BY <2>1, HeadIs
  <2>3. \A d \in Natives : handoff'[d] = O!NoHandoff => handoff[d] = O!NoHandoff
    <3> DEFINE o == O!OffsetOf(c)
    <3>1. handoff' = handoff \/ O!Recorded(c, "waiting", o, <<>>, FALSE)
      BY <2>1
    <3> HIDE DEF c, o
    <3> QED  BY <1>1, <2>2, <3>1, RecordedIs
  <2> QED  BY <1>2, <2>1, <2>3, LeftAlone
<1>6. CASE O!FinishesOverlap
  <2> DEFINE c == opencodeScan.now.chat
             outcome == IF segment[c] = "opencode-v2" THEN "active" ELSE "waiting"
             more == opencodeScan.now.more /\ opencodeCursor[c] # opencodeScan.now.before
             o == opencodeScan.now.offset
             r == opencodeScan.now.rev
  <2>1. /\ opencodeScan.phase = "overlap" /\ opencodeScan.now.step = "read"
        /\ opencodeScan' = [opencodeScan EXCEPT !.now = O!NoChat]
        /\ O!Recorded(c, outcome, o, r, more)
    BY <1>6 DEF O!FinishesOverlap
  <2>2. opencodeScan'.phase = "overlap"
    BY <1>1, <2>1 DEF ScanShape, ScanFields
  <2>3. c \in O!Chats
    BY <1>1, <2>1 DEF ScanShape, WorkShape
  <2>4. outcome # "none"
    OBVIOUS
  <2>5. \A d \in Natives : handoff'[d] = O!NoHandoff => handoff[d] = O!NoHandoff
    <3> HIDE DEF c, o, outcome, r, more
    <3> QED  BY <1>1, <2>1, <2>3, <2>4, RecordedIs
  <2> QED  BY <1>2, <2>2, <2>5, LeftAlone
<1>7. CASE O!EndsScan \/ O!Stops
  <2>1. /\ handoff' = handoff
        /\ opencodeScan' = O!NoScan \/ (opencodeScan.phase = "overlap" /\ opencodeScan' = [opencodeScan EXCEPT !.now = O!NoChat])
    BY <1>7 DEF O!EndsScan, O!Stops, O!storeVars
  <2>2. opencodeScan'.phase # "discovery"
    <3>1. CASE opencodeScan' = O!NoScan
      BY <3>1 DEF O!NoScan
    <3>2. CASE opencodeScan.phase = "overlap" /\ opencodeScan' = [opencodeScan EXCEPT !.now = O!NoChat]
      BY <1>1, <3>2 DEF ScanShape, ScanFields
    <3> QED  BY <2>1, <3>1, <3>2
  <2> QED  BY <1>2, <2>1, <2>2, LeftAlone
<1> QED  BY <1>3, <1>4, <1>5, <1>6, <1>7

\* A chat that is consumed was read to its end, or waits for what was left of it.
LEMMA ConsumesFound ==
    ASSUME ChatsGiven, ScansInv, QueueInv, Found, SourceRests, NEW d \in O!Chats, Consumes(d),
           opencodeScan'.phase = opencodeScan.phase,
           opencodeCursor' = opencodeCursor, handoff' = handoff,
           \A c \in O!Chats \ {d} : pending'[c] = pending[c],
           d \in Natives /\ Missed(d) => O!Follows(d)' \/ Waits(d)'
    PROVE  QueueInv' /\ Found'
<1>1. QueueInv' /\ \A c \in Natives : c # d /\ IsDue(c) => O!Follows(c)'
  BY QueueConsumes
<1>2. ScanTypes
  BY DEF ScansInv
<1>3. ASSUME NEW c \in Natives, Missed(c)'
      PROVE  O!Follows(c)' \/ Waits(c)'
  <2>1. Missed(c)
    BY <1>3, MissedRests
  <2>2. O!Follows(c) \/ Waits(c)
    BY <2>1 DEF Found
  <2>3. CASE c = d
    BY <2>1, <2>3
  <2>4. CASE c # d /\ O!Follows(c)
    BY <1>1, <1>2, <2>1, <2>4, MissedIsDue
  <2>5. CASE c # d /\ Waits(c)
    <3>1. pending'[c] = pending[c]
      BY <2>5 DEF O!Chats
    <3> QED  BY <2>5, <3>1 DEF Waits, O!Revision, SourceRests
  <2> QED  BY <2>2, <2>3, <2>4, <2>5
<1> QED  BY <1>1, <1>3 DEF Found

\* A chat without news has been read to its end.
LEMMA NoNewsIsNone ==
    ASSUME ScansInv, NEW d \in Natives, O!HasNoNews(d)
    PROVE  ~Missed(d)
<1> SUFFICES ASSUME Missed(d) PROVE FALSE
  OBVIOUS
<1>1. d \in O!Chats /\ ScanTypes /\ rows[d] \in Seq(Rows)
  BY DEF O!Chats, ScansInv, ScanTypes
<1>2. PendingOf(d)
  BY <1>1 DEF Missed, ScansInv, FitsInv
<1>3. /\ pending[d] # O!NoPending /\ ~pending[d].more /\ pending[d].rev = <<Len(rows[d])>>
  BY DEF O!HasNoNews, O!Revision
<1>4. pending[d].rev[1] = Len(rows[d])
  BY <1>3
<1>5. \A n \in DOMAIN ClosedIn(d) : ClosedIn(d)[n].upto > opencodeCursor[d] => ClosedIn(d)[n].upto > Len(rows[d])
  BY <1>2, <1>3, <1>4 DEF PendingOf
<1>6. ClosedIn(d) \in Seq(Ends) /\ EndsWithin(ClosedIn(d), rows[d], NewFrom(d, rows[d]), Len(rows[d]))
      /\ Len(rows[d]) \in Nat
  BY <1>1, ClosedIs DEF ClosedIn
<1>7. \A n \in DOMAIN ClosedIn(d) : ClosedIn(d)[n].upto <= Len(rows[d]) /\ ClosedIn(d)[n].upto \in Nat
  BY <1>6, EndTypes DEF EndsWithin
<1> QED  BY <1>5, <1>6, <1>7 DEF Missed

LEMMA SkipsFound ==
    ASSUME ChatsGiven, ScansInv, QueueInv, Found, O!SkipsChat
    PROVE  QueueInv' /\ Found'
<1>0. PICK d : d = Head(opencodeScan.queue)
  OBVIOUS
<1>1. ScanTypes /\ ScanShape(opencodeScan)
  BY DEF ScansInv, ScanTypes
<1>2. /\ opencodeScan.phase = "discovery" /\ opencodeScan.now = O!NoChat
      /\ opencodeScan.queue # <<>> /\ (O!PassesOver(d) \/ O!HasNoNews(d))
      /\ O!Consumed(d) /\ opencodeScan' = O!Rest
      /\ SourceRests /\ StoreRests /\ handoff' = handoff
  BY <1>0 DEF O!SkipsChat, O!Turns, O!sourceVars, SourceRests, StoreRests
<1>3. d \in O!Chats /\ opencodeScan.queue[1] = d
  BY <1>0, <1>2, HeadIs
<1>4. /\ opencodeScan'.now = O!NoChat /\ opencodeScan'.queue = Tail(opencodeScan.queue)
      /\ opencodeScan'.listed = opencodeScan.listed /\ opencodeScan'.phase = opencodeScan.phase
  BY <1>1, <1>2, RestIs
<1>5. Ahead = opencodeScan.queue /\ Ahead' = Tail(opencodeScan.queue)
  BY <1>2, <1>4 DEF Ahead, O!NoChat
<1>6. IF \E l \in opencodeScan.listed : l[1] = d
      THEN \E l \in opencodeScan.listed : l[1] = d /\ watermark' = <<l[2], d>>
      ELSE watermark' = watermark
  BY <1>2, <1>3, <1>4, ConsumedIs DEF ChatsGiven
<1>7. Consumes(d)
  BY <1>2, <1>3, <1>4, <1>5, <1>6 DEF Consumes
<1>8. \A c \in O!Chats \ {d} : pending'[c] = pending[c]
  <2>1. pending' = pending \/ pending' = [pending EXCEPT ![d] = O!NoPending]
    BY <1>2 DEF O!PassesOver, O!HasNoNews, O!Drops
  <2> QED  BY <1>1, <2>1 DEF ScanTypes
<1>9. d \in Natives => ~Missed(d)
  <2> SUFFICES ASSUME d \in Natives, Missed(d) PROVE FALSE
    OBVIOUS
  <2>1. RoleOf(d)
    BY <1>3 DEF ScansInv
  <2>2. ~O!PassesOver(d)
    BY <2>1 DEF RoleOf, Missed, O!PassesOver
  <2> QED  BY <1>2, <2>2, NoNewsIsNone
<1> QED  BY <1>2, <1>3, <1>4, <1>7, <1>8, <1>9, ConsumesFound DEF StoreRests

\* A chat is finished with turns left unread: it has more rows, or they were written since.
LEMMA LeftIsFound ==
    ASSUME ScansInv, NEW d \in Natives, Missed(d), Working(d), SourceRests,
           opencodeScan.now.step = "read", opencodeScan.now.ready = <<>>,
           ~opencodeScan.now.more, Consumes(d)
    PROVE  O!Follows(d)'
<1> DEFINE x == ClosedIn(d)
           now == opencodeScan.now
<1>1. d \in O!Chats /\ ScanTypes /\ rows[d] \in Seq(Rows)
  BY DEF O!Chats, ScansInv, ScanTypes
<1>2. WorkOf(d) /\ RoleOf(d) /\ CursorOf(d)
  BY <1>1 DEF Missed, ScansInv, FitsInv
<1>3. PICK m \in Nat : InHand(d, m)
  BY <1>2 DEF WorkOf
<1>4. Passed(d, m) /\ Left(d, m)
  BY <1>3 DEF InHand
<1>5. ~O!HandsOff(d)
  BY <1>2 DEF RoleOf, O!HandsOff
<1>6. PICK n \in DOMAIN x : x[n].upto > opencodeCursor[d]
  BY DEF Missed
<1>7. x \in Seq(Ends) /\ opencodeCursor[d] \in Nat
  BY <1>1, <1>2, ClosedIs, CursorIs DEF ClosedIn
<1>8. n \in Nat /\ x[n].upto \in Nat
  BY <1>7, EndTypes
<1>9. ~(n <= m)
  BY <1>4, <1>5, <1>6, <1>7, <1>8 DEF Passed
<1>10. n > m + Len(now.ready)
  BY <1>8, <1>9
<1>11. Newer(d)
  BY <1>4, <1>10 DEF Left, Missed, Current
<1>12. updated' = updated
  BY DEF SourceRests
<1>13. updated[d] > watermark[1] /\ \A l \in opencodeScan.listed : updated[d] > l[2]
  BY <1>11 DEF Newer
<1>14. updated[d] > watermark'[1]
  <2>1. CASE watermark' = watermark
    BY <1>13, <2>1
  <2>2. CASE watermark' # watermark
    <3>1. PICK l \in opencodeScan.listed : watermark' = <<l[2], d>>
      BY <2>2 DEF Consumes
    <3> QED  BY <1>13, <3>1
  <2> QED  BY <2>1, <2>2
<1> QED  BY <1>12, <1>14 DEF O!Follows

LEMMA FinishesFound ==
    ASSUME ChatsGiven, ScansInv, QueueInv, Found, O!FinishesChat
    PROVE  QueueInv' /\ Found'
<1> DEFINE now == opencodeScan.now
<1>0. PICK d : d = now.chat
  OBVIOUS
<1>1. ScanTypes /\ ScanShape(opencodeScan)
  BY DEF ScansInv, ScanTypes
<1>2. PICK resume : resume = IF opencodeCursor[d] # now.before THEN 0
                             ELSE IF now.skipped # 0 THEN now.skipped ELSE pending[d].resume
  OBVIOUS
<1> DEFINE p == [rev |-> now.rev, more |-> now.more, resume |-> resume]
<1>3. /\ d \in O!Chats /\ now.step = "read" /\ now.ready = <<>>
      /\ opencodeScan.phase = "discovery" /\ opencodeScan'.now = O!NoChat
      /\ opencodeScan'.queue = opencodeScan.queue
      /\ opencodeScan'.listed = opencodeScan.listed
      /\ opencodeScan'.phase = opencodeScan.phase
      /\ IF d \notin opencodeBarred /\ (now.pending \/ now.more \/ resume # 0)
         THEN pending' = [pending EXCEPT ![d] = p]
         ELSE pending' = [pending EXCEPT ![d] = O!NoPending]
      /\ O!Consumed(d) /\ SourceRests /\ StoreRests /\ handoff' = handoff
  BY <1>0, <1>1, <1>2, FinishesFields
<1>4. IF \E l \in opencodeScan.listed : l[1] = d
      THEN \E l \in opencodeScan.listed : l[1] = d /\ watermark' = <<l[2], d>>
      ELSE watermark' = watermark
  BY <1>3, ConsumedIs DEF ChatsGiven
<1>5. Ahead = <<d>> \o opencodeScan.queue /\ Ahead' = opencodeScan.queue
  BY <1>0, <1>3 DEF Ahead, O!NoChat
<1>6. Ahead # <<>> /\ d = Ahead[1] /\ Ahead' = Tail(Ahead)
  <2>1. opencodeScan.queue \in Seq(O!Chats)
    BY <1>1 DEF ScanShape
  <2> DEFINE q == opencodeScan.queue
  <2>2. <<d>> \o q # <<>> /\ (<<d>> \o q)[1] = d /\ Tail(<<d>> \o q) = q
    <3> HIDE DEF q
    <3>1. q \in Seq(O!Chats)
      BY <2>1 DEF q
    <3> QED  BY <1>3, <3>1
  <2> QED  BY <1>5, <2>2
<1>7. Consumes(d)
  BY <1>3, <1>4, <1>6 DEF Consumes
<1> HIDE DEF p
<1>8. /\ \A c \in O!Chats \ {d} : pending'[c] = pending[c]
      /\ d \notin opencodeBarred /\ now.more => pending'[d] = p
  <2>1. DOMAIN pending = O!Chats
    BY <1>1 DEF ScanTypes
  <2> HIDE DEF now
  <2> QED  BY <1>3, <2>1
<1>9. ASSUME d \in Natives, Missed(d)
      PROVE  O!Follows(d)' \/ Waits(d)'
  <2>1. CASE ~now.more
    BY <1>0, <1>3, <1>7, <1>9, <2>1, LeftIsFound DEF Working
  <2>2. CASE now.more
    <3>1. pending'[d] = p
      BY <1>8, <1>9, <2>2 DEF Missed
    <3>2. p.more /\ ~O!NoPending.more
      BY <2>2 DEF p, O!NoPending
    <3> QED  BY <3>1, <3>2 DEF Waits
  <2> QED  BY <2>1, <2>2
<1> QED  BY <1>3, <1>7, <1>8, <1>9, ConsumesFound DEF StoreRests

FoundInv == ScansInv /\ QueueInv /\ Found

LEMMA FoundStarts ==
    ASSUME ChatsGiven, O!OpencodeInit
    PROVE  FoundInv
<1>1. ScansInv
  BY ScansStart
<1>2. QueueInv
  BY DEF O!OpencodeInit, O!NoScan, QueueInv
<1>3. Found
  <2> SUFFICES ASSUME NEW c \in Natives, Missed(c) PROVE FALSE
    BY DEF Found
  <2>1. c \in O!Chats
    BY DEF O!Chats
  <2>2. rows[c] = <<>> /\ rows[c] \in Seq(Rows)
    BY <1>1, <2>1 DEF O!OpencodeInit, ScansInv, ScanTypes
  <2>3. ClosedIn(c) \in Seq(Ends) /\ EndsWithin(ClosedIn(c), rows[c], NewFrom(c, rows[c]), Len(rows[c]))
        /\ NewFrom(c, rows[c]) \in Nat /\ Len(rows[c]) = 0
    BY <2>2, ClosedIs, NewFromIs DEF ClosedIn
  <2>4. PICK k \in DOMAIN ClosedIn(c) : ClosedIn(c)[k].upto > opencodeCursor[c]
    BY DEF Missed
  <2>5. /\ ClosedIn(c)[k].upto \in Nat /\ ClosedIn(c)[k].upto <= 0
        /\ NewFrom(c, rows[c]) < ClosedIn(c)[k].upto
    BY <2>3, <2>4, EndTypes DEF EndsWithin
  <2> QED  BY <2>3, <2>5
<1> QED  BY <1>1, <1>2, <1>3 DEF FoundInv

LEMMA FoundStep ==
    ASSUME ChatsGiven
    PROVE  FoundInv /\ [O!OpencodeNext]_(O!opencodeVars) => FoundInv'
<1> SUFFICES ASSUME FoundInv, [O!OpencodeNext]_(O!opencodeVars)
             PROVE  FoundInv'
  OBVIOUS
<1>0. /\ ScansInv /\ QueueInv /\ Found /\ Natives \cap Migrants = {} /\ writes \in Nat
  BY DEF FoundInv, ChatsGiven, ScansInv, ScanTypes
<1>1. ScansInv'
  BY <1>0, ScansStep
<1>2. CASE UNCHANGED O!opencodeVars
  <2>1. SourceRests /\ watermark' = watermark /\ pending' = pending /\ handoff' = handoff
        /\ opencodeCursor' = opencodeCursor /\ opencodeScan' = opencodeScan
    BY <1>2 DEF O!opencodeVars, O!sourceVars, O!storeVars, SourceRests
  <2>2. Ahead' = Ahead
    BY <2>1 DEF Ahead
  <2>3. \A c \in Natives : Missed(c)' => Missed(c)
    BY <2>1, MissedRests
  <2>4. QueueInv' /\ Found'
    BY <1>0, <2>1, <2>2, <2>3, ReadsOn
  <2> QED  BY <1>1, <2>4 DEF FoundInv
<1>3. ASSUME NEW c \in O!Chats, NEW kinds \in O!Runs, O!Writes(c, kinds)
      PROVE  QueueInv' /\ Found'
  <2>1. O!Appends(c, kinds, writes + 1) /\ kinds \in Seq(Rows) /\ writes + 1 \in Nat
    BY <1>0, <1>3, RunsAreRows DEF O!Writes
  <2> QED  BY <1>0, <2>1, AppendsQueue, AppendsFound
<1>4. ASSUME NEW c \in O!Chats, O!Migrates(c)
      PROVE  QueueInv' /\ Found'
  <2>1. /\ O!Appends(c, <<"v1user", "v1reply">>, 0) /\ v1[c] # "none"
        /\ <<"v1user", "v1reply">> \in Seq(Rows)
    BY <1>4, RunsAreRows DEF O!Migrates
  <2> QED  BY <1>0, <2>1, AppendsQueue, AppendsFound
<1>5. ASSUME NEW c \in O!Chats,
             (\E rest \in {"grown", "none"} : O!ChangesOldFormat(c, rest)) \/ O!IsBarred(c)
      PROVE  QueueInv' /\ Found'
  BY <1>0, <1>5, ChangesQueue, ChangesFound
<1>6. CASE O!StartsScan
  <2>1. QueueInv'
    BY <1>0, <1>6, StartsQueue
  <2>2. SourceRests /\ StoreRests /\ pending' = pending /\ handoff' = handoff /\ watermark' = watermark
    BY <1>6, StartsFields
  <2>3. \A c \in Natives : Missed(c)' => Missed(c)
    BY <2>2, MissedRests DEF StoreRests
  <2>4. Found'
    BY <1>0, <2>2, <2>3, FoundRests
  <2> QED  BY <1>1, <2>1, <2>4 DEF FoundInv
<1>7. CASE O!OpencodeNext /\ ~O!StartsScan
  <2>1. QueueInv' /\ Found'
    BY <1>0, <1>3, <1>4, <1>5, <1>7, SkipsFound, TakesFound, ReadsFound, HandlesFound,
       FinishesFound, OverlapsFound DEF O!OpencodeNext
  <2> QED  BY <1>1, <2>1 DEF FoundInv
<1> QED  BY <1>2, <1>6, <1>7

LEMMA NothingMissed == FoundInv => O!NothingForgotten
<1> SUFFICES ASSUME FoundInv, NEW c \in Natives, v1[c] = "none", handoff[c] = O!NoHandoff,
                    c \notin opencodeBarred, O!FitsPages(c),
                    \E k \in DOMAIN O!Closed(c) : O!Closed(c)[k].upto > opencodeCursor[c]
             PROVE  O!Follows(c) \/ (pending[c] # O!NoPending
                                     /\ (pending[c].more \/ pending[c].rev # O!Revision(c)))
  BY DEF O!NothingForgotten
<1>1. Missed(c)
  BY ClosedMeans DEF Missed, Current
<1>2. O!Follows(c) \/ Waits(c)
  BY <1>1 DEF FoundInv, Found
<1> QED  BY <1>2 DEF Waits

LEMMA NothingIsMissed ==
    ASSUME ChatsGiven
    PROVE  Spec => []FoundInv
<1>1. Init => FoundInv
  BY FoundStarts DEF Init
<1>2. FoundInv /\ [Next]_vars => FoundInv'
  BY OpencodeFollowed, FoundStep
<1> QED  BY <1>1, <1>2, PTL DEF Spec

\* A closed turn that is not read yet is found by a later scan, whatever is written while one
\* is in progress and wherever it fails: its chat follows the watermark, or is pending with
\* rows or a revision still to be read (daemon/index.ts: the watermark moves with each chat, to
\* the time it was listed with; adapters/opencode.ts: the revision is read before the rows).
THEOREM NothingForgottenHolds ==
    ASSUME ChatsGiven
    PROVE  Spec => []NothingForgotten
<1>1. FoundInv => NothingForgotten
  BY NothingMissed DEF NothingForgotten
<1> QED  BY <1>1, NothingIsMissed, PTL

================================================================================
