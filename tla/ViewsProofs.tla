---------------------------- MODULE ViewsProofs ----------------------------
(***************************************************************************)
(* The explorer's three views.  First why its two hooks keep what they     *)
(* promise, for every size of the scrollback, the pages and the result     *)
(* list, and every set of stored events: the inductive invariants of       *)
(* LogTail and of LogSearch.  Then the connection of the live tail: why    *)
(* the frames of TailStream are honest for every buffer, filter and number *)
(* of events.  Then the theorems of the views as the explorer composes     *)
(* them.                                                                   *)
(***************************************************************************)
EXTENDS Views, FiniteSetTheorems, TLAPS

\* Most steps are first-order: Zenon proves every leaf that names no other prover.
USE ZenonT(30)

-----------------------------------------------------------------------------
(* Sequences *)

LEMMA SeqIs ==
  ASSUME NEW S, NEW s \in Seq(S)
  PROVE  Len(s) \in Nat /\ \A i \in 1..Len(s) : s[i] \in S
BY SMTT(30)

LEMMA SeqEqual ==
  ASSUME NEW S, NEW s \in Seq(S), NEW t \in Seq(S),
         Len(s) = Len(t), \A i \in 1..Len(s) : s[i] = t[i]
  PROVE  s = t
BY SMTT(30)

LEMMA AppendIs ==
  ASSUME NEW S, NEW s \in Seq(S), NEW r \in S
  PROVE  /\ Append(s, r) \in Seq(S) /\ Len(Append(s, r)) = Len(s) + 1
         /\ Append(s, r)[Len(s) + 1] = r /\ \A i \in 1..Len(s) : Append(s, r)[i] = s[i]
BY SMTT(30)

LEMMA ConcatIs ==
  ASSUME NEW S, NEW s \in Seq(S), NEW t \in Seq(S)
  PROVE  s \o t \in Seq(S) /\ Len(s \o t) = Len(s) + Len(t) /\ s \o <<>> = s
BY SMTT(30)

LEMMA RangeIs ==
  ASSUME NEW S, NEW s \in Seq(S)
  PROVE  \A e : e \in Range(s) <=> \E i \in 1..Len(s) : e = s[i]
<1>1. DOMAIN s = 1..Len(s)
  BY SMTT(30)
<1> QED BY <1>1 DEF Range

\* What Newest keeps of a sequence is its end.
LEMMA NewestIs ==
  ASSUME NEW S, NEW s \in Seq(S), NEW n \in Nat
  PROVE  /\ Newest(n, s) \in Seq(S)
         /\ Len(Newest(n, s)) = (IF Len(s) > n THEN n ELSE Len(s))
         /\ \A i \in 1..Len(Newest(n, s)) : Newest(n, s)[i] = s[Len(s) - Len(Newest(n, s)) + i]
<1>1. Len(s) \in Nat /\ \A i \in 1..Len(s) : s[i] \in S
  BY SeqIs
<1>2. PICK m : m = IF Len(s) > n THEN n ELSE Len(s)
  OBVIOUS
<1>3. m \in Nat /\ m <= Len(s)
  BY SMTT(30), <1>1, <1>2
<1>4. Newest(n, s) = SubSeq(s, Len(s) - m + 1, Len(s))
  BY <1>2 DEF Newest
<1>5. Len(s) - m + 1 \in Int /\ Len(s) \in Int /\ \A i \in (Len(s) - m + 1)..Len(s) : s[i] \in S
  BY SMTT(30), <1>1, <1>3
<1>6. /\ Newest(n, s) \in Seq(S)
      /\ Len(Newest(n, s)) = IF Len(s) - m + 1 <= Len(s) THEN Len(s) - (Len(s) - m + 1) + 1 ELSE 0
      /\ \A i \in 1..(Len(s) - (Len(s) - m + 1) + 1) : Newest(n, s)[i] = s[Len(s) - m + 1 + i - 1]
  BY SMTT(30), <1>4, <1>5
<1>7. Len(Newest(n, s)) = m
  BY SMTT(30), <1>1, <1>3, <1>6
<1>8. \A i \in 1..m : Newest(n, s)[i] = s[Len(s) - m + i]
  <2> TAKE i \in 1..m
  <2>1. i \in 1..(Len(s) - (Len(s) - m + 1) + 1) /\ Len(s) - m + 1 + i - 1 = Len(s) - m + i
    BY SMTT(30), <1>1, <1>3
  <2> QED BY <1>6, <2>1
<1> QED BY <1>2, <1>6, <1>7, <1>8

\* Element by element, t is the end of s.
EndOf(t, s) ==
  /\ Len(t) <= Len(s)
  /\ \A i \in 1..Len(t) : t[i] = s[Len(s) - Len(t) + i]

LEMMA EndIsNewest ==
  ASSUME NEW S, NEW s \in Seq(S), NEW t \in Seq(S)
  PROVE  t = Newest(Len(t), s) <=> EndOf(t, s)
<1>1. Len(s) \in Nat /\ Len(t) \in Nat
  BY SeqIs
<1>2. PICK u : u = Newest(Len(t), s)
  OBVIOUS
<1>3. /\ u \in Seq(S) /\ Len(u) = (IF Len(s) > Len(t) THEN Len(t) ELSE Len(s))
      /\ \A i \in 1..Len(u) : u[i] = s[Len(s) - Len(u) + i]
  BY <1>1, <1>2, NewestIs
<1>4. ASSUME t = u PROVE EndOf(t, s)
  <2>1. Len(t) <= Len(s)
    BY SMTT(30), <1>1, <1>3, <1>4
  <2> QED BY <1>3, <1>4, <2>1 DEF EndOf
<1>5. ASSUME EndOf(t, s) PROVE t = u
  <2>1. Len(u) = Len(t)
    BY SMTT(30), <1>1, <1>3, <1>5 DEF EndOf
  <2>2. \A i \in 1..Len(t) : t[i] = u[i]
    BY <1>3, <1>5, <2>1 DEF EndOf
  <2> QED BY <1>3, <2>1, <2>2, SeqEqual
<1> QED BY <1>2, <1>4, <1>5

LEMMA EndOfEnd ==
  ASSUME NEW S, NEW s \in Seq(S), NEW t \in Seq(S), NEW u \in Seq(S), EndOf(t, s), EndOf(u, t)
  PROVE  EndOf(u, s)
<1>1. Len(s) \in Nat /\ Len(t) \in Nat /\ Len(u) \in Nat /\ Len(u) <= Len(t) /\ Len(t) <= Len(s)
  BY SeqIs DEF EndOf
<1>2. Len(u) <= Len(s)
  BY SMTT(30), <1>1
<1>3. ASSUME NEW i \in 1..Len(u) PROVE u[i] = s[Len(s) - Len(u) + i]
  <2>1. /\ Len(t) - Len(u) + i \in 1..Len(t)
        /\ Len(s) - Len(t) + (Len(t) - Len(u) + i) = Len(s) - Len(u) + i
    BY SMTT(30), <1>1
  <2>2. u[i] = t[Len(t) - Len(u) + i]
    BY DEF EndOf
  <2>3. t[Len(t) - Len(u) + i] = s[Len(s) - Len(t) + (Len(t) - Len(u) + i)]
    BY <2>1 DEF EndOf
  <2> QED BY <2>1, <2>2, <2>3
<1> QED BY <1>2, <1>3 DEF EndOf

LEMMA EndAppend ==
  ASSUME NEW S, NEW s \in Seq(S), NEW t \in Seq(S), NEW r \in S, EndOf(t, s)
  PROVE  EndOf(Append(t, r), Append(s, r))
<1>1. Len(s) \in Nat /\ Len(t) \in Nat /\ Len(t) <= Len(s)
  BY SeqIs DEF EndOf
<1>2. PICK a, b : a = Append(s, r) /\ b = Append(t, r)
  OBVIOUS
<1>3. /\ Len(a) = Len(s) + 1 /\ a[Len(s) + 1] = r /\ \A i \in 1..Len(s) : a[i] = s[i]
      /\ Len(b) = Len(t) + 1 /\ b[Len(t) + 1] = r /\ \A i \in 1..Len(t) : b[i] = t[i]
  BY SMTT(30), <1>2
<1>4. Len(b) <= Len(a)
  BY SMTT(30), <1>1, <1>3
<1>5. ASSUME NEW i \in 1..Len(b) PROVE b[i] = a[Len(a) - Len(b) + i]
  <2>1. Len(a) - Len(b) + i = Len(s) - Len(t) + i
    BY SMTT(30), <1>1, <1>3
  <2>2. CASE i \in 1..Len(t)
    <3>1. Len(s) - Len(t) + i \in 1..Len(s)
      BY SMTT(30), <1>1, <2>2
    <3> QED BY <1>3, <2>1, <2>2, <3>1 DEF EndOf
  <2>3. CASE i = Len(t) + 1
    <3>1. Len(s) - Len(t) + i = Len(s) + 1
      BY SMTT(30), <1>1, <2>3
    <3> QED BY <1>3, <2>1, <2>3, <3>1
  <2>4. i \in 1..Len(t) \/ i = Len(t) + 1
    BY SMTT(30), <1>1, <1>3
  <2> QED BY <2>2, <2>3, <2>4
<1> QED BY <1>2, <1>4, <1>5 DEF EndOf

\* Newest keeps all that fits, and every end that is short enough.
LEMMA NewestKeeps ==
  ASSUME NEW S, NEW s \in Seq(S), NEW n \in Nat
  PROVE  /\ EndOf(Newest(n, s), s)
         /\ Len(s) <= n => Newest(n, s) = s
         /\ \A t \in Seq(S) : (EndOf(t, s) /\ Len(t) <= n) => EndOf(t, Newest(n, s))
<1>1. PICK u : u = Newest(n, s)
  OBVIOUS
<1>2. /\ u \in Seq(S) /\ Len(u) = (IF Len(s) > n THEN n ELSE Len(s))
      /\ \A i \in 1..Len(u) : u[i] = s[Len(s) - Len(u) + i]
  BY <1>1, NewestIs
<1>3. Len(s) \in Nat /\ Len(u) \in Nat
  BY <1>2, SeqIs
<1>4. EndOf(u, s)
  <2>1. Len(u) <= Len(s)
    BY SMTT(30), <1>2, <1>3
  <2> QED BY <1>2, <2>1 DEF EndOf
<1>5. ASSUME Len(s) <= n PROVE u = s
  <2>1. Len(u) = Len(s)
    BY SMTT(30), <1>2, <1>3, <1>5
  <2>2. \A i \in 1..Len(u) : Len(s) - Len(u) + i = i
    BY SMTT(30), <1>3, <2>1
  <2>3. \A i \in 1..Len(u) : u[i] = s[i]
    BY <1>2, <2>2
  <2> QED BY <1>2, <2>1, <2>3, SeqEqual
<1>6. ASSUME NEW t \in Seq(S), EndOf(t, s), Len(t) <= n PROVE EndOf(t, u)
  <2>1. Len(t) \in Nat /\ Len(t) <= Len(s)
    BY <1>6, SeqIs DEF EndOf
  <2>2. Len(t) <= Len(u)
    BY SMTT(30), <1>2, <1>3, <1>6, <2>1
  <2>3. ASSUME NEW i \in 1..Len(t) PROVE t[i] = u[Len(u) - Len(t) + i]
    <3>1. /\ Len(u) - Len(t) + i \in 1..Len(u)
          /\ Len(s) - Len(u) + (Len(u) - Len(t) + i) = Len(s) - Len(t) + i
      BY SMTT(30), <1>3, <2>1, <2>2
    <3>2. u[Len(u) - Len(t) + i] = s[Len(s) - Len(u) + (Len(u) - Len(t) + i)]
      BY <1>2, <3>1
    <3> QED BY <1>6, <3>1, <3>2 DEF EndOf
  <2> QED BY <2>2, <2>3 DEF EndOf
<1> QED BY <1>1, <1>4, <1>5, <1>6

-----------------------------------------------------------------------------
(* The scrollback *)

Scroll == items \o pending

\* Between log lines of two connections there is a marker.
Marked(s) ==
  \A i, j \in 1..Len(s) :
    (i < j /\ s[i].kind = "log" /\ s[j].kind = "log" /\ s[i].conn # s[j].conn)
      => \E k \in i..j : s[k].kind = "reconnect"

\* No marker follows the log line i.
Unmarked(s, i) == s[i].kind = "log" /\ \A k \in i..Len(s) : s[k].kind # "reconnect"

\* The end of a sequence is marked where the sequence is, and has no unmarked
\* lines of its own.
LEMMA EndMarked ==
  ASSUME NEW s \in Seq(Row), NEW t \in Seq(Row), EndOf(t, s)
  PROVE  /\ Marked(s) => Marked(t)
         /\ \A i \in 1..Len(t) : Unmarked(t, i) =>
              \E j \in 1..Len(s) : s[j] = t[i] /\ Unmarked(s, j)
<1>1. Len(s) \in Nat /\ Len(t) \in Nat /\ Len(t) <= Len(s)
  BY SeqIs DEF EndOf
<1>2. PICK d \in Nat : Len(s) = Len(t) + d
  <2>1. Len(s) - Len(t) \in Nat /\ Len(s) = Len(t) + (Len(s) - Len(t))
    BY SMTT(30), <1>1
  <2> QED BY <2>1
<1>3. \A i \in 1..Len(t) : i + d \in 1..Len(s) /\ t[i] = s[i + d]
  <2>1. \A i \in 1..Len(t) : i + d \in 1..Len(s) /\ Len(s) - Len(t) + i = i + d
    BY SMTT(30), <1>1, <1>2
  <2> QED BY <2>1 DEF EndOf
<1>4. ASSUME Marked(s) PROVE Marked(t)
  <2> SUFFICES ASSUME NEW i \in 1..Len(t), NEW j \in 1..Len(t), i < j,
                      t[i].kind = "log", t[j].kind = "log", t[i].conn # t[j].conn
               PROVE  \E k \in i..j : t[k].kind = "reconnect"
    BY DEF Marked
  <2>1. i + d < j + d
    BY SMTT(30), <1>1, <1>2
  <2>2. PICK k \in (i + d)..(j + d) : s[k].kind = "reconnect"
    BY <1>3, <1>4, <2>1 DEF Marked
  <2>3. k - d \in i..j /\ k - d \in 1..Len(t) /\ (k - d) + d = k
    BY SMTT(30), <1>1, <1>2
  <2>4. t[k - d] = s[k]
    BY <1>3, <2>3
  <2> QED BY <2>2, <2>3, <2>4
<1>5. ASSUME NEW i \in 1..Len(t), Unmarked(t, i)
      PROVE  \E j \in 1..Len(s) : s[j] = t[i] /\ Unmarked(s, j)
  <2>1. s[i + d] = t[i] /\ i + d \in 1..Len(s)
    BY <1>3
  <2>2. ASSUME NEW k \in (i + d)..Len(s) PROVE s[k].kind # "reconnect"
    <3>1. k - d \in i..Len(t) /\ k - d \in 1..Len(t) /\ (k - d) + d = k
      BY SMTT(30), <1>1, <1>2
    <3>2. t[k - d] = s[k]
      BY <1>3, <3>1
    <3> QED BY <3>1, <3>2, <1>5 DEF Unmarked
  <2> QED BY <1>5, <2>1, <2>2 DEF Unmarked
<1> QED BY <1>4, <1>5

\* A row at the end: a marker marks everything, and any other row leaves the
\* lines before it as they were.
LEMMA AppendMarked ==
  ASSUME NEW s \in Seq(Row), Marked(s), NEW r \in Row,
         r.kind = "log" => \A i \in 1..Len(s) : Unmarked(s, i) => s[i].conn = r.conn
  PROVE  /\ Marked(Append(s, r))
         /\ \A i \in 1..Len(Append(s, r)) : Unmarked(Append(s, r), i) =>
              /\ r.kind # "reconnect"
              /\ i = Len(s) + 1 \/ (i \in 1..Len(s) /\ Unmarked(s, i) /\ s[i] = Append(s, r)[i])
<1>1. PICK t : t = Append(s, r)
  OBVIOUS
<1>2. /\ Len(s) \in Nat /\ Len(t) = Len(s) + 1 /\ t[Len(s) + 1] = r
      /\ \A i \in 1..Len(s) : t[i] = s[i]
  BY SMTT(30), <1>1
<1>3. \A i \in 1..Len(t) : i \in 1..Len(s) \/ i = Len(s) + 1
  BY SMTT(30), <1>2
<1>4. ASSUME NEW i \in 1..Len(t), NEW j \in 1..Len(t), i < j,
             t[i].kind = "log", t[j].kind = "log", t[i].conn # t[j].conn
      PROVE  \E k \in i..j : t[k].kind = "reconnect"
  <2>1. i \in 1..Len(s)
    BY SMTT(30), <1>2, <1>4
  <2>2. CASE j \in 1..Len(s)
    <3>1. PICK k \in i..j : s[k].kind = "reconnect"
      BY <1>2, <1>4, <2>1, <2>2 DEF Marked
    <3>2. k \in 1..Len(s)
      BY SMTT(30), <2>1, <2>2, <1>2
    <3> QED BY <1>2, <3>1, <3>2
  <2>3. CASE j = Len(s) + 1
    <3>1. ~Unmarked(s, i)
      BY <1>2, <1>4, <2>1, <2>3
    <3>2. PICK k \in i..Len(s) : s[k].kind = "reconnect"
      BY <3>1, <1>2, <1>4, <2>1 DEF Unmarked
    <3>3. k \in 1..Len(s) /\ k \in i..j
      BY SMTT(30), <2>1, <2>3, <1>2
    <3> QED BY <1>2, <3>2, <3>3
  <2> QED BY <1>3, <2>2, <2>3
<1>5. ASSUME NEW i \in 1..Len(t), Unmarked(t, i)
      PROVE  /\ r.kind # "reconnect"
             /\ i = Len(s) + 1 \/ (i \in 1..Len(s) /\ Unmarked(s, i) /\ s[i] = t[i])
  <2>1. Len(s) + 1 \in i..Len(t)
    BY SMTT(30), <1>2
  <2>2. r.kind # "reconnect"
    BY <1>2, <1>5, <2>1 DEF Unmarked
  <2>3. CASE i \in 1..Len(s)
    <3>1. \A k \in i..Len(s) : k \in i..Len(t) /\ k \in 1..Len(s)
      BY SMTT(30), <1>2, <2>3
    <3> QED BY <3>1, <2>2, <2>3, <1>2, <1>5 DEF Unmarked
  <2> QED BY <1>3, <2>2, <2>3
<1>6. Marked(t)
  BY <1>4 DEF Marked
<1> QED BY <1>1, <1>5, <1>6

\* What ScrollbackHonest says of the rows shown and the rows received.
Honest(s, received) ==
  Marked(s) /\ EndOf(s, received) /\ (s # received => Len(s) >= maxItems)

LEMMA HonestPush ==
  ASSUME NEW s \in Seq(Row), NEW received \in Seq(Row), NEW r \in Row, Honest(s, received),
         Len(s) < maxItems + MaxPending,
         r.kind = "log" => \A i \in 1..Len(s) : Unmarked(s, i) => s[i].conn = r.conn
  PROVE  Honest(Append(s, r), Newest(maxItems + MaxPending, Append(received, r)))
<1>1. PICK n : n = maxItems + MaxPending
  OBVIOUS
<1>2. n \in Nat /\ maxItems \in Nat
  BY SMTT(30), <1>1, LogTailAssumption
<1>3. PICK a, b : a = Append(s, r) /\ b = Append(received, r)
  OBVIOUS
<1>4. /\ a \in Seq(Row) /\ b \in Seq(Row) /\ Len(s) \in Nat
      /\ Len(a) = Len(s) + 1 /\ Len(b) = Len(received) + 1
  BY SMTT(30), <1>3
<1>5. Marked(a)
  BY <1>3, AppendMarked DEF Honest
<1>6. EndOf(a, Newest(n, b))
  <2>1. EndOf(a, b)
    BY <1>3, EndAppend DEF Honest
  <2>2. Len(a) <= n
    BY SMTT(30), <1>1, <1>2, <1>4
  <2> QED BY <1>2, <1>4, <2>1, <2>2, NewestKeeps
<1>7. ASSUME a # Newest(n, b) PROVE Len(a) >= maxItems
  <2>1. CASE s = received
    <3>1. a = b /\ Len(b) <= n
      BY SMTT(30), <1>1, <1>2, <1>3, <1>4, <2>1
    <3> QED BY <1>2, <1>4, <1>7, <3>1, NewestKeeps
  <2>2. CASE s # received
    <3>1. Len(s) >= maxItems
      BY <2>2 DEF Honest
    <3> QED BY SMTT(30), <1>2, <1>4, <3>1
  <2> QED BY <2>1, <2>2
<1> QED BY <1>1, <1>3, <1>5, <1>6, <1>7 DEF Honest

LEMMA HonestFlush ==
  ASSUME NEW s \in Seq(Row), NEW received \in Seq(Row), Honest(s, received)
  PROVE  Honest(Newest(maxItems, s), received)
<1>1. maxItems \in Nat /\ Len(s) \in Nat
  BY LogTailAssumption, SeqIs
<1>2. PICK t : t = Newest(maxItems, s)
  OBVIOUS
<1>3. /\ t \in Seq(Row) /\ Len(t) = (IF Len(s) > maxItems THEN maxItems ELSE Len(s))
      /\ EndOf(t, s) /\ (Len(s) <= maxItems => t = s)
  BY <1>1, <1>2, NewestIs, NewestKeeps
<1>4. Marked(t)
  BY <1>3, EndMarked DEF Honest
<1>5. EndOf(t, received)
  BY <1>3, EndOfEnd DEF Honest
<1>6. ASSUME t # received PROVE Len(t) >= maxItems
  <2>1. CASE Len(s) <= maxItems
    BY <1>3, <1>6, <2>1 DEF Honest
  <2>2. CASE Len(s) > maxItems
    BY SMTT(30), <1>1, <1>3, <2>2
  <2>3. Len(s) <= maxItems \/ Len(s) > maxItems
    BY SMTT(30), <1>1
  <2> QED BY <2>1, <2>2, <2>3
<1> QED BY <1>2, <1>4, <1>5, <1>6 DEF Honest

LEMMA HonestIs ==
  ASSUME items \in Seq(Row), pending \in Seq(Row), rows \in Seq(Row)
  PROVE  Scroll \in Seq(Row) /\ (ScrollbackHonest <=> Honest(Scroll, rows))
<1>1. Scroll \in Seq(Row)
  BY ConcatIs DEF Scroll
<1>2. Scroll = Newest(Len(Scroll), rows) <=> EndOf(Scroll, rows)
  BY <1>1, EndIsNewest
<1> QED BY <1>1, <1>2 DEF Scroll, ScrollbackHonest, Honest, Marked

-----------------------------------------------------------------------------
(* The inductive invariant of the tail *)

\* What may still be added after a log line that no marker follows: lines of
\* its own connection, unless the next connection to open adds a marker first.
NextIsMarked ==
  \A i \in 1..Len(Scroll) : Unmarked(Scroll, i) =>
    /\ sawOpen
    /\ wantGap \/ paused \/ ~mounted \/ (es \in opened /\ Scroll[i].conn = es)

TailInv ==
  /\ LogTailTypeOK /\ NothingLeaks /\ ScrollbackHonest
  /\ opened # {} => ~wantGap /\ sawOpen
  /\ Len(rows) <= maxItems + MaxPending
  /\ NextIsMarked

LEMMA RowFields ==
  /\ \A c \in 1..MaxConns : LogRow(c) \in Row /\ LogRow(c).kind = "log" /\ LogRow(c).conn = c
  /\ \A w \in {"dropped", "reconnect"} : GapRow(w) \in Row /\ GapRow(w).kind = w
BY DEF Row, LogRow, GapRow

LEMMA HonestAfter ==
  ASSUME items' \in Seq(Row), pending' \in Seq(Row), rows' \in Seq(Row), Honest(Scroll', rows')
  PROVE  ScrollbackHonest'
<1>1. Scroll' \in Seq(Row)
  BY ConcatIs DEF Scroll
<1>2. Scroll' = Newest(Len(Scroll'), rows')
  BY <1>1, EndIsNewest DEF Honest
<1> QED BY <1>2 DEF Scroll, ScrollbackHonest, Honest, Marked

\* pushItem adds its row to the scrollback and to the rows received.
LEMMA Pushed ==
  ASSUME TailInv, NEW r \in Row, pushItem(r),
         r.kind = "log" => \A i \in 1..Len(Scroll) : Unmarked(Scroll, i) => Scroll[i].conn = r.conn
  PROVE  /\ items' \in Seq(Row) /\ Len(items') <= maxItems
         /\ pending' \in Seq(Row) /\ Len(pending') <= MaxPending
         /\ rows' \in Seq(Row) /\ Len(rows') <= maxItems + MaxPending
         /\ ScrollbackHonest'
         /\ \A i \in 1..Len(Scroll') : Unmarked(Scroll', i) =>
              /\ r.kind # "reconnect"
              /\ Scroll'[i] = r \/ \E j \in 1..Len(Scroll) : Unmarked(Scroll, j) /\ Scroll[j] = Scroll'[i]
<1>1. /\ items \in Seq(Row) /\ Len(items) <= maxItems /\ pending \in Seq(Row) /\ rows \in Seq(Row)
      /\ Len(pending) < MaxPending /\ pending' = Append(pending, r) /\ items' = items
      /\ rows' = Newest(maxItems + MaxPending, Append(rows, r)) /\ ScrollbackHonest
  BY DEF TailInv, LogTailTypeOK, pushItem
<1>2. MaxPending \in Nat /\ maxItems \in Nat /\ maxItems + MaxPending \in Nat
  BY SMTT(30), LogTailAssumption
<1>3. pending' \in Seq(Row) /\ Len(pending') <= MaxPending /\ Append(rows, r) \in Seq(Row)
  BY SMTT(30), <1>1, <1>2
<1>4. rows' \in Seq(Row) /\ Len(rows') <= maxItems + MaxPending
  <2>1. rows' \in Seq(Row) /\ Len(Append(rows, r)) \in Nat
        /\ Len(rows') = IF Len(Append(rows, r)) > maxItems + MaxPending
                        THEN maxItems + MaxPending ELSE Len(Append(rows, r))
    BY <1>1, <1>2, <1>3, NewestIs, SeqIs
  <2> QED BY SMTT(30), <1>2, <2>1
<1>5. Scroll \in Seq(Row) /\ Honest(Scroll, rows)
  BY <1>1, HonestIs
<1>6. Scroll' = Append(Scroll, r) /\ Len(Scroll) < maxItems + MaxPending
  <2>1. Len(Scroll) = Len(items) + Len(pending) /\ Len(items) \in Nat /\ Len(pending) \in Nat
    BY <1>1, ConcatIs, SeqIs DEF Scroll
  <2>2. items \o Append(pending, r) = Append(items \o pending, r)
    BY SMTT(30), <1>1
  <2>3. Len(Scroll) < maxItems + MaxPending
    BY SMTT(30), <1>1, <1>2, <2>1
  <2> QED BY <1>1, <2>2, <2>3 DEF Scroll
<1>7. Honest(Scroll', rows')
  BY <1>1, <1>5, <1>6, HonestPush
<1>8. ScrollbackHonest'
  BY <1>1, <1>3, <1>4, <1>7, HonestAfter
<1>9. ASSUME NEW i \in 1..Len(Scroll'), Unmarked(Scroll', i)
      PROVE  /\ r.kind # "reconnect"
             /\ Scroll'[i] = r \/ \E j \in 1..Len(Scroll) : Unmarked(Scroll, j) /\ Scroll[j] = Scroll'[i]
  <2>1. /\ r.kind # "reconnect"
        /\ \/ i = Len(Scroll) + 1
           \/ i \in 1..Len(Scroll) /\ Unmarked(Scroll, i) /\ Scroll[i] = Scroll'[i]
    BY <1>5, <1>6, <1>9, AppendMarked DEF Honest
  <2>2. Scroll'[Len(Scroll) + 1] = r
    BY <1>5, <1>6, AppendIs
  <2> QED BY <2>1, <2>2
<1> QED BY <1>1, <1>3, <1>4, <1>8, <1>9

\* flush trims the scrollback to the ring's size.
LEMMA Flushed ==
  ASSUME TailInv, flush
  PROVE  /\ items' \in Seq(Row) /\ Len(items') <= maxItems
         /\ pending' \in Seq(Row) /\ Len(pending') <= MaxPending
         /\ rows' \in Seq(Row) /\ Len(rows') <= maxItems + MaxPending
         /\ ScrollbackHonest'
         /\ \A i \in 1..Len(Scroll') : Unmarked(Scroll', i) =>
              \E j \in 1..Len(Scroll) : Unmarked(Scroll, j) /\ Scroll[j] = Scroll'[i]
<1>1. /\ items \in Seq(Row) /\ pending \in Seq(Row) /\ rows \in Seq(Row) /\ ScrollbackHonest
      /\ items' = Newest(maxItems, Scroll) /\ pending' = <<>> /\ rows' = rows
      /\ Len(rows) <= maxItems + MaxPending
  BY DEF TailInv, LogTailTypeOK, flush, Scroll
<1>2. MaxPending \in Nat /\ maxItems \in Nat
  BY LogTailAssumption
<1>3. Scroll \in Seq(Row) /\ Honest(Scroll, rows) /\ Len(Scroll) \in Nat
  BY <1>1, HonestIs, SeqIs
<1>4. /\ items' \in Seq(Row)
      /\ Len(items') = (IF Len(Scroll) > maxItems THEN maxItems ELSE Len(Scroll))
      /\ EndOf(items', Scroll)
  BY <1>1, <1>2, <1>3, NewestIs, NewestKeeps
<1>5. Len(items') <= maxItems
  BY SMTT(30), <1>2, <1>3, <1>4
<1>6. pending' \in Seq(Row) /\ Len(pending') <= MaxPending
  BY SMTT(30), <1>1, <1>2
<1>7. Scroll' = items'
  <2>1. items' \o <<>> = items'
    BY <1>4, ConcatIs
  <2> QED BY <1>1, <2>1 DEF Scroll
<1>8. Honest(Scroll', rows')
  BY <1>1, <1>3, <1>7, HonestFlush
<1>9. ScrollbackHonest'
  BY <1>1, <1>4, <1>6, <1>8, HonestAfter
<1>10. \A i \in 1..Len(Scroll') : Unmarked(Scroll', i) =>
         \E j \in 1..Len(Scroll) : Unmarked(Scroll, j) /\ Scroll[j] = Scroll'[i]
  BY <1>3, <1>4, <1>7, EndMarked
<1> QED BY <1>1, <1>4, <1>5, <1>6, <1>9, <1>10

-----------------------------------------------------------------------------
(* Sources and timers *)

OneAtMost == (sources = {} /\ timers <= 1) \/ (sources = {es} /\ timers = 0)

\* TailInv without the rows, and with OneAtMost for the first lines of NothingLeaks.
CoreInv ==
  /\ status \in {"connecting", "streaming", "reconnecting", "paused", "offline"}
  /\ paused \in BOOLEAN /\ mounted \in BOOLEAN /\ stopped \in BOOLEAN
  /\ sawOpen \in BOOLEAN /\ wantGap \in BOOLEAN /\ flushing \in BOOLEAN
  /\ attempt \in 0..maxReconnectAttempts
  /\ es \in 0..MaxConns /\ sources \subseteq 1..MaxConns /\ opened \subseteq sources
  /\ timers \in Nat /\ conns \in 1..MaxConns
  /\ OneAtMost
  /\ (stopped \/ status = "offline") => timers = 0 /\ sources = {}
  /\ stopped <=> (paused \/ ~mounted)
  /\ opened # {} => ~wantGap /\ sawOpen

\* The rest of TailInv but for NextIsMarked.
RowInv ==
  /\ items \in Seq(Row) /\ Len(items) <= maxItems
  /\ pending \in Seq(Row) /\ Len(pending) <= MaxPending
  /\ rows \in Seq(Row) /\ Len(rows) <= maxItems + MaxPending
  /\ ScrollbackHonest

LEMMA TailInvParts == TailInv <=> CoreInv /\ RowInv /\ NextIsMarked
<1>1. 0 <= 1
  BY SMTT(30)
<1>2. (sources \subseteq {es} /\ timers <= 1 /\ (sources = {} \/ timers = 0)) <=> OneAtMost
  BY <1>1 DEF OneAtMost
<1> QED BY <1>2 DEF TailInv, CoreInv, RowInv, LogTailTypeOK, NothingLeaks

\* connect numbers its connection within the bound.
LEMMA NextConn ==
  ASSUME conns \in 1..MaxConns
  PROVE  (conns % MaxConns) + 1 \in 1..MaxConns
BY SMTT(30), LogTailAssumption

LEMMA CoreStep ==
  ASSUME CoreInv, TailNext
  PROVE  CoreInv'
<1> USE DEF CoreInv, OneAtMost, refVars, rowVars, sourceVars
<1>r. 0 \in 0..maxReconnectAttempts /\ 0 \in 0..MaxConns /\ 0 \in Nat /\ 1..MaxConns \subseteq 0..MaxConns
  BY SMTT(30), LogTailAssumption
<1>t. /\ timers > 0 => timers - 1 \in Nat /\ timers - 1 = 0 /\ sources = {} /\ timers = 1
      /\ 0 <= 1
      /\ timers = 0 => timers + 1 = 1 /\ timers + 1 \in Nat /\ ~(timers > 0)
      /\ (~(timers > 0)) => timers = 0
  BY SMTT(30)
<1>a. ~(attempt >= maxReconnectAttempts) => attempt + 1 \in 0..maxReconnectAttempts
  BY SMTT(30), LogTailAssumption
<1>c. (conns % MaxConns) + 1 \in 1..MaxConns
  BY NextConn
<1>1. ASSUME NEW c \in sources, OnOpen(c) PROVE CoreInv'
  BY <1>1, <1>r DEF OnOpen
<1>2. ASSUME NEW c \in sources, OnMessage(c) PROVE CoreInv'
  BY <1>2 DEF OnMessage
<1>3. ASSUME NEW c \in sources, OnError(c) PROVE CoreInv'
  <2>1. sources = {es} /\ timers = 0
    BY <1>3
  <2>2. sources' = {} /\ opened' = {} /\ es' = 0
    BY <1>3, <2>1 DEF OnError, Closed
  <2>3. 1 <= 1
    BY SMTT(30)
  <2>4. CASE attempt >= maxReconnectAttempts
    BY <1>3, <1>r, <1>t, <2>1, <2>2, <2>4 DEF OnError
  <2>5. CASE ~(attempt >= maxReconnectAttempts)
    <3>1. status' = "reconnecting" /\ attempt' \in 0..maxReconnectAttempts /\ timers' = 1 /\ timers' \in Nat
      BY <1>3, <1>a, <1>t, <2>1, <2>5 DEF OnError
    <3> QED BY <1>3, <1>r, <2>2, <2>3, <3>1 DEF OnError
  <2> QED BY <2>4, <2>5
<1>4. CASE TimerFires
  <2>1. timers > 0 /\ timers' = 0 /\ sources = {} /\ opened = {} /\ timers # 0
    BY <1>4, <1>t DEF TimerFires
  <2>2. ~stopped
    BY <2>1
  <2>3. es' = conns' /\ conns' \in 1..MaxConns /\ sources' = {es'}
    BY <1>4, <1>c, <2>1, <2>2 DEF TimerFires, connect
  <2> QED BY <1>4, <1>r, <2>1, <2>2, <2>3 DEF TimerFires
<1>5. CASE FlushTick
  BY <1>5 DEF FlushTick
<1>s. ASSUME stop PROVE sources' = {} /\ opened' = {} /\ timers' = 0 /\ es' = 0
  <2>1. sources' = {} /\ opened' = {} /\ es' = 0
    BY <1>s DEF stop, Closed
  <2>2. timers' = 0
    BY <1>s, <1>t DEF stop
  <2> QED BY <2>1, <2>2
<1>6. CASE Pause
  BY <1>6, <1>s, <1>r, <1>t DEF Pause, stop
<1>7. CASE Resume
  <2>1. stopped /\ sources = {} /\ timers = 0 /\ opened = {}
    BY <1>7 DEF Resume
  <2>2. es' = conns' /\ conns' \in 1..MaxConns /\ sources' = {es'}
    BY <1>7, <1>c, <2>1 DEF Resume, connect
  <2> QED BY <1>7, <1>r, <2>1, <2>2 DEF Resume
<1>8. CASE Reconnect
  <2>1. sources = {} /\ timers = 0 /\ opened = {}
    BY <1>8 DEF Reconnect
  <2>2. es' = conns' /\ conns' \in 1..MaxConns /\ sources' = {es'}
    BY <1>8, <1>c, <2>1 DEF Reconnect, connect
  <2>3. timers' = 0
    BY <1>8, <1>t, <2>1 DEF Reconnect
  <2> QED BY <1>8, <1>r, <2>1, <2>2, <2>3 DEF Reconnect
<1>9. CASE Clear
  BY <1>9 DEF Clear
<1>10. CASE Unmount
  <2>1. CASE paused
    BY <1>10, <2>1 DEF Unmount
  <2>2. CASE ~paused
    BY <1>10, <1>s, <1>r, <1>t, <2>2 DEF Unmount, stop
  <2> QED BY <2>1, <2>2
<1> QED BY <1>1, <1>2, <1>3, <1>4, <1>5, <1>6, <1>7, <1>8, <1>9, <1>10 DEF TailNext

-----------------------------------------------------------------------------
(* The rows *)

\* A step that leaves the rows alone.
LEMMA RowsAlone ==
  ASSUME TailInv, UNCHANGED rowVars
  PROVE  RowInv' /\ Scroll' = Scroll
<1>1. items' = items /\ pending' = pending /\ rows' = rows
  BY DEF rowVars
<1>2. ScrollbackHonest /\ RowInv
  BY DEF TailInv, LogTailTypeOK, RowInv
<1>3. ScrollbackHonest'
  <2>1. Honest(Scroll, rows)
    BY <1>2, HonestIs DEF RowInv
  <2>2. Honest(Scroll', rows')
    BY <1>1, <2>1 DEF Scroll
  <2> QED BY <1>1, <1>2, <2>2, HonestAfter DEF RowInv
<1> QED BY <1>1, <1>2, <1>3 DEF RowInv, Scroll

LEMMA RowStep ==
  ASSUME TailInv, TailNext
  PROVE  RowInv' /\ NextIsMarked'
<1>i. CoreInv /\ RowInv /\ NextIsMarked
  BY TailInvParts
<1>u. ASSUME NEW c \in sources
      PROVE  c = es /\ c \in 1..MaxConns /\ ~stopped /\ ~paused /\ mounted
  <2>1. sources = {es} /\ ~stopped
    BY <1>i DEF CoreInv, OneAtMost
  <2>2. ~(paused \/ ~mounted)
    BY <1>i, <2>1 DEF CoreInv
  <2> QED BY <1>i, <2>1, <2>2 DEF CoreInv
<1>1. ASSUME NEW c \in sources, OnOpen(c) PROVE RowInv' /\ NextIsMarked'
  <2>1. sawOpen' /\ opened' = {es} /\ es' = es /\ es \notin opened /\ c = es
    BY <1>1, <1>u, <1>i DEF OnOpen, CoreInv, OneAtMost
  <2>2. CASE wantGap
    <3>1. pushItem(GapRow("reconnect")) /\ GapRow("reconnect") \in Row /\ GapRow("reconnect").kind = "reconnect"
      BY <1>1, <2>2, RowFields DEF OnOpen
    <3>2. RowInv' /\ \A i \in 1..Len(Scroll') : ~Unmarked(Scroll', i)
      BY <3>1, Pushed DEF RowInv
    <3> QED BY <3>2 DEF NextIsMarked
  <2>3. CASE ~wantGap
    <3>1. RowInv' /\ Scroll' = Scroll
      BY <1>1, <2>3, RowsAlone DEF OnOpen
    <3>2. \A i \in 1..Len(Scroll) : ~Unmarked(Scroll, i)
      BY <1>i, <1>u, <2>1, <2>3 DEF NextIsMarked
    <3> QED BY <3>1, <3>2 DEF NextIsMarked
  <2> QED BY <2>2, <2>3
<1>2. ASSUME NEW c \in sources, OnMessage(c) PROVE RowInv' /\ NextIsMarked'
  <2>1. /\ c = es /\ es \in opened /\ sawOpen /\ ~wantGap /\ c \in 1..MaxConns
        /\ sawOpen' = sawOpen /\ es' = es /\ opened' = opened
    BY <1>2, <1>u, <1>i DEF OnMessage, CoreInv, refVars, sourceVars
  <2>2. PICK r \in {LogRow(c), GapRow("dropped")} : pushItem(r)
    BY <1>2 DEF OnMessage
  <2>3. r \in Row /\ (r.kind = "log" => r.conn = es)
    BY <2>1, <2>2, RowFields
  <2>4. \A i \in 1..Len(Scroll) : Unmarked(Scroll, i) => Scroll[i].conn = es
    BY <1>i, <1>u, <2>1 DEF NextIsMarked
  <2>5. /\ RowInv'
        /\ \A i \in 1..Len(Scroll') : Unmarked(Scroll', i) =>
             Scroll'[i] = r \/ \E j \in 1..Len(Scroll) : Unmarked(Scroll, j) /\ Scroll[j] = Scroll'[i]
    BY <2>2, <2>3, <2>4, Pushed DEF RowInv
  <2>6. \A i \in 1..Len(Scroll') : Unmarked(Scroll', i) => Scroll'[i].conn = es
    BY <2>3, <2>4, <2>5 DEF Unmarked
  <2> QED BY <2>1, <2>5, <2>6 DEF NextIsMarked
<1>3. ASSUME NEW c \in sources, OnError(c) PROVE RowInv' /\ NextIsMarked'
  <2>1. RowInv' /\ Scroll' = Scroll /\ wantGap' /\ sawOpen' = sawOpen
    BY <1>3, RowsAlone DEF OnError
  <2> QED BY <1>i, <2>1 DEF NextIsMarked
<1>4. CASE TimerFires
  <2>1. /\ RowInv' /\ Scroll' = Scroll /\ wantGap' = wantGap /\ sawOpen' = sawOpen
        /\ paused' = paused /\ mounted' = mounted
    BY <1>4, RowsAlone DEF TimerFires, refVars
  <2>2. timers # 0
    BY SMTT(30), <1>4 DEF TimerFires
  <2>3. opened = {}
    BY <1>i, <2>2 DEF CoreInv, OneAtMost
  <2> QED BY <1>i, <2>1, <2>3 DEF NextIsMarked
<1>f. ASSUME flush, sawOpen' = sawOpen, \/ paused' \/ ~mounted'
                                        \/ UNCHANGED <<wantGap, paused, mounted, es, opened>>
      PROVE  RowInv' /\ NextIsMarked'
  <2>1. /\ RowInv'
        /\ \A i \in 1..Len(Scroll') : Unmarked(Scroll', i) =>
             \E j \in 1..Len(Scroll) : Unmarked(Scroll, j) /\ Scroll[j] = Scroll'[i]
    BY <1>f, Flushed DEF RowInv
  <2>2. ASSUME NEW i \in 1..Len(Scroll'), Unmarked(Scroll', i)
        PROVE  sawOpen' /\ (wantGap' \/ paused' \/ ~mounted' \/ (es' \in opened' /\ Scroll'[i].conn = es'))
    <3>1. PICK j \in 1..Len(Scroll) : Unmarked(Scroll, j) /\ Scroll[j] = Scroll'[i]
      BY <2>1, <2>2
    <3>2. sawOpen /\ (wantGap \/ paused \/ ~mounted \/ (es \in opened /\ Scroll'[i].conn = es))
      BY <1>i, <3>1 DEF NextIsMarked
    <3>3. CASE UNCHANGED <<wantGap, paused, mounted, es, opened>>
      BY <1>f, <3>2, <3>3
    <3> QED BY <1>f, <3>2, <3>3
  <2> QED BY <2>1, <2>2 DEF NextIsMarked
<1>5. CASE FlushTick
  BY <1>5, <1>f DEF FlushTick, refVars, sourceVars
<1>6. CASE Pause
  BY <1>6, <1>f DEF Pause, stop
<1>7. CASE Resume
  <2>1. RowInv' /\ Scroll' = Scroll /\ sawOpen' = sawOpen /\ wantGap' = (wantGap \/ sawOpen)
    BY <1>7, RowsAlone DEF Resume
  <2> QED BY <1>i, <2>1 DEF NextIsMarked
<1>8. CASE Reconnect
  <2>1. RowInv' /\ Scroll' = Scroll /\ sawOpen' = sawOpen /\ wantGap'
    BY <1>8, RowsAlone DEF Reconnect
  <2> QED BY <1>i, <2>1 DEF NextIsMarked
<1>9. CASE Clear
  <2>1. items' = <<>> /\ pending' = <<>> /\ rows' = <<>>
    BY <1>9 DEF Clear
  <2>2. <<>> \in Seq(Row) /\ Len(<<>>) = 0 /\ <<>> \o <<>> = <<>>
        /\ 0 <= maxItems /\ 0 <= MaxPending /\ 0 <= maxItems + MaxPending /\ 1..0 = {}
    BY SMTT(30), LogTailAssumption
  <2>3. EndOf(<<>>, <<>>)
    BY SMTT(30) DEF EndOf
  <2>4. <<>> = Newest(Len(<<>>), <<>>)
    BY <2>2, <2>3, EndIsNewest
  <2>5. Scroll' = <<>>
    BY <2>1, <2>2 DEF Scroll
  <2>6. ScrollbackHonest'
    BY <2>1, <2>2, <2>4, <2>5 DEF ScrollbackHonest, Scroll
  <2> QED BY <2>1, <2>2, <2>5, <2>6 DEF RowInv, NextIsMarked
<1>10. CASE Unmount
  <2>1. CASE paused
    <3>1. RowInv' /\ Scroll' = Scroll /\ sawOpen' = sawOpen /\ ~mounted'
      BY <1>10, <2>1, RowsAlone DEF Unmount, refVars
    <3> QED BY <1>i, <3>1 DEF NextIsMarked
  <2>2. CASE ~paused
    BY <1>10, <1>f, <2>2 DEF Unmount, stop
  <2> QED BY <2>1, <2>2
<1> QED BY <1>1, <1>2, <1>3, <1>4, <1>5, <1>6, <1>7, <1>8, <1>9, <1>10 DEF TailNext

-----------------------------------------------------------------------------
LEMMA TailStarts == ASSUME NEW open \in BOOLEAN, TailFrom(open) PROVE TailInv
<1>1. items = <<>> /\ pending = <<>> /\ rows = <<>>
  BY DEF TailFrom
<1>2. <<>> \in Seq(Row) /\ Len(<<>>) = 0 /\ <<>> \o <<>> = <<>>
      /\ 0 <= maxItems /\ 0 <= MaxPending /\ 0 <= maxItems + MaxPending /\ 1..0 = {}
  BY SMTT(30), LogTailAssumption
<1>3. EndOf(<<>>, <<>>)
  BY SMTT(30) DEF EndOf
<1>4. <<>> = Newest(Len(<<>>), <<>>)
  BY <1>2, <1>3, EndIsNewest
<1>5. RowInv /\ NextIsMarked
  BY <1>1, <1>2, <1>4 DEF RowInv, NextIsMarked, ScrollbackHonest, Scroll
<1>6. /\ 0 \in 0..maxReconnectAttempts /\ 0 \in 0..MaxConns /\ 0 \in Nat
      /\ 1 \in 1..MaxConns /\ 1 \in 0..MaxConns /\ 0 <= 1 /\ 0 # 1
  BY SMTT(30), LogTailAssumption
<1>7. CoreInv
  BY <1>6 DEF TailFrom, CoreInv, OneAtMost
<1> QED BY <1>5, <1>7, TailInvParts

LEMMA TailStep == TailInv /\ [TailNext]_tailVars => TailInv'
<1>1. ASSUME TailInv, TailNext PROVE TailInv'
  <2>1. CoreInv'
    BY <1>1, TailInvParts, CoreStep
  <2>2. RowInv' /\ NextIsMarked'
    BY <1>1, RowStep
  <2>0. 0 <= 1
    BY SMTT(30)
  <2>3. (sources' \subseteq {es'} /\ timers' <= 1 /\ (sources' = {} \/ timers' = 0)) <=> OneAtMost'
    BY <2>0 DEF OneAtMost
  <2> QED BY <2>1, <2>2, <2>3 DEF TailInv, CoreInv, RowInv, LogTailTypeOK, NothingLeaks
<1>2. ASSUME TailInv, UNCHANGED tailVars PROVE TailInv'
  <2>1. RowInv' /\ Scroll' = Scroll
    BY <1>2, RowsAlone DEF tailVars
  <2>2. NextIsMarked'
    BY <1>2, <2>1 DEF TailInv, NextIsMarked, tailVars, refVars, sourceVars
  <2>3. NothingLeaks'
    BY <1>2 DEF TailInv, NothingLeaks, tailVars, refVars, sourceVars
  <2>4. (opened # {} => ~wantGap /\ sawOpen)'
    BY <1>2 DEF TailInv, tailVars, refVars, sourceVars
  <2>5. LogTailTypeOK'
    BY <1>2, <2>1 DEF TailInv, RowInv, LogTailTypeOK, tailVars, refVars, sourceVars
  <2> QED BY <2>1, <2>2, <2>3, <2>4, <2>5 DEF TailInv, RowInv
<1> QED BY <1>1, <1>2

-----------------------------------------------------------------------------
(* The inductive invariant of the search *)

\* The parameters of the search that is shown, and what it has to show.
Asked == buildSearchParams(refs.lastFilters, None)
Due == {e \in atFirst : parseSearchQueryOK(Asked) /\ Matches(Asked, e)}

\* What list leaves out of S is older than all it shows.
TopOf(list, S) == \A e \in S \ Range(list) : \A i \in 1..Len(list) : e < list[i]

\* The list is a list of answers to Asked, continued by the cursor.
ListInv ==
  LET list == shown.events
  IN  /\ NewestFirst(list) /\ Len(list) <= MAX_SEARCH_RESULTS
      /\ \A e \in Range(list) : parseSearchQueryOK(Asked) /\ e \in Selected(Asked)
      /\ shown.nextCursor = refs.cursor
      /\ shown.nextCursor # None => list # <<>> /\ shown.nextCursor = list[Len(list)]
      /\ shown.status \in {"success", "loadingMore"} => TopOf(list, Due)
      /\ shown.status \notin {"success", "loadingMore"} => list = <<>>
      /\ shown.status = "success" /\ shown.nextCursor = None /\ ~shown.capped => Due \subseteq Range(list)
      /\ shown.status = "loadingMore" => shown.nextCursor # None

\* A page that was read for the call under way continues the list.
PageInv(page) ==
  page.ok =>
    LET due == {e \in Due : refs.cursor # None => e < refs.cursor}
    IN  /\ NewestFirst(page.events)
        /\ \A e \in Range(page.events) :
             /\ parseSearchQueryOK(Asked) /\ e \in Selected(Asked)
             /\ refs.cursor # None => e < refs.cursor
        /\ TopOf(page.events, due)
        /\ page.nextCursor = None => due \subseteq Range(page.events)
        /\ page.nextCursor # None =>
             page.events # <<>> /\ page.nextCursor = page.events[Len(page.events)]

CallsInv ==
  /\ \A c, d \in requests : c.id = d.id => c = d
  /\ \A c \in requests :
       /\ c.id <= refs.reqId
       /\ c.id = refs.reqId =>
            /\ shown.status \in {"loading", "loadingMore"}
            /\ c.params = buildSearchParams(refs.lastFilters, refs.cursor)
            /\ \A page \in c.page : PageInv(page)

SearchInv ==
  /\ SearchTypeOK /\ ListInv /\ CallsInv
  /\ ~searching => shown = INITIAL /\ refs = FreshRefs /\ requests = {}

-----------------------------------------------------------------------------
(* Lists *)

LEMMA LogsAreNumbers == Logs \subseteq Nat /\ None \notin Logs
BY SearchAssumption DEF Logs

\* A list cut at a ceiling.
LEMMA CutIs ==
  ASSUME NEW list \in Seq(Logs), NewestFirst(list), NEW S \in SUBSET Nat, TopOf(list, S),
         NEW n \in Nat, n <= Len(list)
  PROVE  LET cut == SubSeq(list, 1, n)
         IN  /\ cut \in Seq(Logs) /\ Len(cut) = n /\ (\A i \in 1..n : cut[i] = list[i])
             /\ NewestFirst(cut) /\ Range(cut) \subseteq Range(list) /\ TopOf(cut, S)
<1>1. PICK cut : cut = SubSeq(list, 1, n)
  OBVIOUS
<1>2. Len(list) \in Nat /\ \A i \in 1..Len(list) : list[i] \in Logs /\ list[i] \in Nat
  BY SeqIs, LogsAreNumbers
<1>3. cut \in Seq(Logs) /\ Len(cut) = n /\ \A i \in 1..n : cut[i] = list[i]
  BY SMTT(30), <1>1, <1>2
<1>4. \A i \in 1..n : i \in 1..Len(list)
  BY SMTT(30), <1>2
<1>5. NewestFirst(cut)
  BY <1>3, <1>4 DEF NewestFirst
<1>6. Range(cut) \subseteq Range(list)
  <2> SUFFICES ASSUME NEW e \in Range(cut) PROVE e \in Range(list)
    OBVIOUS
  <2>1. cut \in Seq(Logs) /\ Len(cut) = n
    BY <1>3
  <2>2. PICK i \in 1..n : e = cut[i]
    BY <2>1, RangeIs
  <2> QED BY <1>3, <1>4, <2>2, RangeIs
<1>7. TopOf(cut, S)
  <2> SUFFICES ASSUME NEW e \in S \ Range(cut), NEW i \in 1..n PROVE e < list[i]
    BY <1>3 DEF TopOf
  <2>1. CASE e \in Range(list)
    <3>1. PICK j \in 1..Len(list) : e = list[j]
      BY <2>1, RangeIs
    <3>2. j \notin 1..n
      BY <1>3, <3>1, RangeIs
    <3>3. i < j
      BY SMTT(30), <1>2, <3>2
    <3>4. list[i] > list[j]
      BY <1>4, <3>3 DEF NewestFirst
    <3>5. list[i] \in Nat /\ list[j] \in Nat
      BY <1>2, <1>4
    <3> QED BY SMTT(30), <3>1, <3>4, <3>5
  <2>2. CASE e \notin Range(list)
    BY <1>4, <2>2 DEF TopOf
  <2> QED BY <2>1, <2>2
<1> QED BY <1>1, <1>3, <1>5, <1>6, <1>7

\* Two lists, the second older than the first.
LEMMA JoinIs ==
  ASSUME NEW list \in Seq(Logs), NewestFirst(list), NEW more \in Seq(Logs), NewestFirst(more),
         \A i \in 1..Len(list) : \A j \in 1..Len(more) : more[j] < list[i],
         NEW S \in SUBSET Nat, TopOf(list, S), NEW T, S \ Range(list) \subseteq T, TopOf(more, T)
  PROVE  LET all == list \o more
         IN  /\ all \in Seq(Logs) /\ Len(all) = Len(list) + Len(more)
             /\ NewestFirst(all) /\ Range(all) = Range(list) \cup Range(more) /\ TopOf(all, S)
             /\ more # <<>> => all # <<>> /\ all[Len(all)] = more[Len(more)]
<1>1. PICK all : all = list \o more
  OBVIOUS
<1>2. /\ Len(list) \in Nat /\ \A i \in 1..Len(list) : list[i] \in Logs /\ list[i] \in Nat
      /\ Len(more) \in Nat /\ \A i \in 1..Len(more) : more[i] \in Logs /\ more[i] \in Nat
  BY SeqIs, LogsAreNumbers
<1>3. /\ all \in Seq(Logs) /\ Len(all) = Len(list) + Len(more)
      /\ \A i \in 1..Len(list) : all[i] = list[i]
      /\ \A i \in 1..Len(more) : all[Len(list) + i] = more[i]
  BY SMTT(30), <1>1, <1>2
<1>4. /\ \A i \in 1..Len(list) : i \in 1..Len(all)
      /\ \A i \in 1..Len(more) : Len(list) + i \in 1..Len(all)
  BY SMTT(30), <1>2, <1>3
<1>5. ASSUME NEW i \in 1..Len(all), i \notin 1..Len(list)
      PROVE  \E j \in 1..Len(more) : i = Len(list) + j
  <2>1. i - Len(list) \in 1..Len(more) /\ i = Len(list) + (i - Len(list))
    BY SMTT(30), <1>2, <1>3, <1>5
  <2> QED BY <2>1
<1>6. NewestFirst(all)
  <2> SUFFICES ASSUME NEW i \in 1..Len(all), NEW j \in 1..Len(all), i < j PROVE all[i] > all[j]
    BY DEF NewestFirst
  <2>1. CASE j \in 1..Len(list)
    <3>1. i \in 1..Len(list)
      BY SMTT(30), <1>2, <1>3, <2>1
    <3> QED BY <1>3, <2>1, <3>1 DEF NewestFirst
  <2>2. CASE i \in 1..Len(list) /\ j \notin 1..Len(list)
    <3>1. PICK b \in 1..Len(more) : j = Len(list) + b
      BY <1>5, <2>2
    <3>2. all[i] = list[i] /\ all[j] = more[b] /\ more[b] < list[i] /\ more[b] \in Nat /\ list[i] \in Nat
      BY <1>2, <1>3, <2>2, <3>1
    <3> QED BY SMTT(30), <3>2
  <2>3. CASE i \notin 1..Len(list) /\ j \notin 1..Len(list)
    <3>1. PICK a \in 1..Len(more) : i = Len(list) + a
      BY <1>5, <2>3
    <3>2. PICK b \in 1..Len(more) : j = Len(list) + b
      BY <1>5, <2>3
    <3>3. a < b
      BY SMTT(30), <1>2, <3>1, <3>2
    <3> QED BY <1>3, <3>1, <3>2, <3>3 DEF NewestFirst
  <2> QED BY <2>1, <2>2, <2>3
<1>7. Range(all) = Range(list) \cup Range(more)
  <2>1. ASSUME NEW e PROVE e \in Range(all) <=> (e \in Range(list) \/ e \in Range(more))
    <3>0. all \in Seq(Logs)
      BY <1>3
    <3>1. e \in Range(all) <=> \E i \in 1..Len(all) : e = all[i]
      BY <3>0, RangeIs
    <3>2. e \in Range(list) <=> \E i \in 1..Len(list) : e = list[i]
      BY RangeIs
    <3>3. e \in Range(more) <=> \E i \in 1..Len(more) : e = more[i]
      BY RangeIs
    <3>4. ASSUME NEW i \in 1..Len(all), e = all[i] PROVE e \in Range(list) \/ e \in Range(more)
      <4>1. CASE i \in 1..Len(list)
        BY <1>3, <3>2, <3>4, <4>1
      <4>2. CASE i \notin 1..Len(list)
        BY <1>3, <1>5, <3>3, <3>4, <4>2
      <4> QED BY <4>1, <4>2
    <3> QED BY <1>3, <1>4, <3>1, <3>2, <3>3, <3>4
  <2> QED BY <2>1
<1>8. TopOf(all, S)
  <2> SUFFICES ASSUME NEW e \in S \ Range(all), NEW i \in 1..Len(all) PROVE e < all[i]
    BY DEF TopOf
  <2>1. e \notin Range(list) /\ e \notin Range(more) /\ e \in T
    BY <1>7
  <2>2. CASE i \in 1..Len(list)
    BY <1>3, <2>1, <2>2 DEF TopOf
  <2>3. CASE i \notin 1..Len(list)
    BY <1>3, <1>5, <2>1, <2>3 DEF TopOf
  <2> QED BY <2>2, <2>3
<1>9. ASSUME more # <<>> PROVE all # <<>> /\ all[Len(all)] = more[Len(more)]
  <2>1. Len(more) \in 1..Len(more) /\ Len(all) # 0 /\ Len(<<>>) = 0
    BY SMTT(30), <1>2, <1>3, <1>9
  <2> QED BY <1>3, <2>1
<1> QED BY <1>1, <1>3, <1>6, <1>7, <1>8, <1>9

-----------------------------------------------------------------------------
(* Steps *)

LEMMA SameQuestion ==
  ASSUME refs'.lastFilters = refs.lastFilters, atFirst' = atFirst
  PROVE  Asked' = Asked /\ Due' = Due
BY DEF Asked, Due

LEMMA MoreSelected ==
  ASSUME NEW p, stored \subseteq stored'
  PROVE  Selected(p) \subseteq Selected(p)'
BY DEF Selected

\* Steps that leave the hook alone: its calls may end, events may be stored.
LEMMA HookAlone ==
  ASSUME SearchInv, shown' = shown, refs' = refs, atFirst' = atFirst,
         stored \subseteq stored', requests' \subseteq requests
  PROVE  ListInv' /\ CallsInv'
<1>1. Asked' = Asked /\ Due' = Due
  BY SameQuestion
<1>2. Selected(Asked) \subseteq Selected(Asked)'
  BY <1>1, MoreSelected
<1>3. ListInv'
  BY <1>1, <1>2 DEF SearchInv, ListInv
<1>4. ASSUME NEW page, PageInv(page) PROVE PageInv(page)'
  BY <1>1, <1>2, <1>4 DEF PageInv
<1>5. CallsInv'
  BY <1>4 DEF SearchInv, CallsInv
<1> QED BY <1>3, <1>5

LEMMA HookFields ==
  /\ INITIAL.status = "idle" /\ INITIAL.events = <<>> /\ INITIAL.nextCursor = None /\ INITIAL.capped = FALSE
  /\ FreshRefs.reqId = 0 /\ FreshRefs.lastFilters = EMPTY_SEARCH_FILTERS
  /\ FreshRefs.cursor = None /\ FreshRefs.inFlight = FALSE
BY DEF INITIAL, FreshRefs

\* What may be set without touching the list.
LEMMA StatusSet ==
  ASSUME NEW s \in State, NEW w \in {"idle", "loading", "success", "loadingMore", "error"},
         NEW t, t = [s EXCEPT !.status = w]
  PROVE  t \in State /\ t.status = w /\ t.events = s.events /\ t.nextCursor = s.nextCursor /\ t.capped = s.capped
BY SMTT(30) DEF State

LEMMA ErrorSet ==
  ASSUME NEW s \in State, NEW b \in BOOLEAN, NEW t, t = [s EXCEPT !.error = b]
  PROVE  t \in State /\ t.status = s.status /\ t.events = s.events /\ t.nextCursor = s.nextCursor /\ t.capped = s.capped
BY SMTT(30) DEF State

LEMMA SearchedSet ==
  ASSUME NEW s \in State, NEW b \in BOOLEAN, NEW t, t = [s EXCEPT !.hasSearched = b]
  PROVE  t \in State /\ t.status = s.status /\ t.events = s.events /\ t.nextCursor = s.nextCursor /\ t.capped = s.capped
BY SMTT(30) DEF State

\* A list of nothing.
LEMMA Nothing ==
  Len(<<>>) = 0 /\ <<>> \in Seq(Logs) /\ NewestFirst(<<>>) /\ Range(<<>>) = {} /\ \A S : TopOf(<<>>, S)
<1>1. Len(<<>>) = 0 /\ <<>> \in Seq(Logs) /\ 1..0 = {} /\ DOMAIN <<>> = {}
  BY SMTT(30)
<1> QED BY <1>1 DEF NewestFirst, Range, TopOf

LEMMA INITIALIs == INITIAL \in State
BY Nothing DEF INITIAL, State

LEMMA FreshRefsAre == FreshRefs \in Refs
<1>1. 0 \in 0..MaxSearches
  BY SMTT(30), SearchAssumption
<1> QED BY <1>1 DEF FreshRefs, Refs, Filters, EMPTY_SEARCH_FILTERS

\* A search that starts, with the refs r as they were.
LEMMA SearchStarts ==
  ASSUME NEW f \in Filters, NEW r, r.reqId \in 0..MaxSearches, Searching(f, r),
         requests \subseteq Call,
         \A c, d \in requests : c.id = d.id => c = d,
         \A c \in requests : c.id <= r.reqId
  PROVE  /\ ListInv' /\ CallsInv'
         /\ shown' \in State /\ refs' \in Refs /\ requests' \subseteq Call
<1>1. /\ refs'.reqId = r.reqId + 1 /\ refs'.lastFilters = f /\ refs'.cursor = None
      /\ refs' = [reqId |-> r.reqId + 1, lastFilters |-> f, cursor |-> None, inFlight |-> TRUE]
      /\ shown' = [INITIAL EXCEPT !.status = "loading"] /\ r.reqId < MaxSearches
  BY DEF Searching
<1>2. r.reqId + 1 \in 1..MaxSearches /\ r.reqId + 1 \in 0..MaxSearches /\ r.reqId \in Nat
  BY SMTT(30), <1>1, SearchAssumption
<1>3. shown' \in State /\ shown'.status = "loading" /\ shown'.events = <<>> /\ shown'.nextCursor = None
  <2>1. shown' \in State /\ shown'.status = "loading" /\ shown'.events = INITIAL.events
        /\ shown'.nextCursor = INITIAL.nextCursor
    BY SMTT(30), <1>1, INITIALIs, StatusSet
  <2> QED BY <2>1, HookFields
<1>4. PICK new : new = [id |-> r.reqId + 1, params |-> buildSearchParams(f, None), page |-> {}]
  OBVIOUS
<1>5. requests' = requests \cup {new}
  BY <1>4 DEF Searching, Send
<1>6. new.id = r.reqId + 1 /\ new.params = buildSearchParams(f, None) /\ new.page = {}
  BY <1>4
<1>7. new \in Call
  <2>1. buildSearchParams(f, None) \in Params
    BY DEF Params, buildSearchParams, Filters
  <2> QED BY <1>2, <1>4, <2>1 DEF Call
<1>8. \A c \in requests : c.id # r.reqId + 1 /\ c.id <= r.reqId + 1
  <2> TAKE c \in requests
  <2>1. c.id \in 1..MaxSearches /\ c.id <= r.reqId
    BY DEF Call
  <2> QED BY SMTT(30), <2>1, <1>2
<1>9. CallsInv'
  <2>1. r.reqId + 1 <= r.reqId + 1
    BY SMTT(30), <1>2
  <2>2. \A c, d \in requests' : c.id = d.id => c = d
    BY <1>5, <1>6, <1>8
  <2>3. ASSUME NEW c \in requests', c.id = refs'.reqId PROVE c = new
    BY <1>1, <1>5, <1>8, <2>3
  <2>4. \A c \in requests' : c.id <= refs'.reqId
    BY <1>1, <1>5, <1>6, <1>8, <2>1
  <2> QED BY <1>1, <1>3, <1>6, <2>2, <2>3, <2>4 DEF CallsInv
<1>10. ListInv'
  <2>1. 0 <= MAX_SEARCH_RESULTS
    BY SMTT(30), SearchAssumption
  <2> QED BY <1>1, <1>3, <2>1, Nothing DEF ListInv
<1>11. refs' \in Refs
  BY SMTT(30), <1>1, <1>2 DEF Refs
<1> QED BY <1>5, <1>7, <1>9, <1>3, <1>10, <1>11

\* A page is appended to the list it was asked for.
LEMMA PageCollected ==
  ASSUME SearchInv, shown.status \in {"loading", "loadingMore"},
         NEW page \in Page, page.ok, PageInv(page), NEW new, new = Collected(page)
  PROVE  /\ new \in State /\ new.status = "success"
         /\ NewestFirst(new.events) /\ Len(new.events) <= MAX_SEARCH_RESULTS
         /\ \A e \in Range(new.events) : parseSearchQueryOK(Asked) /\ e \in Selected(Asked)
         /\ new.nextCursor # None => new.events # <<>> /\ new.nextCursor = new.events[Len(new.events)]
         /\ TopOf(new.events, Due)
         /\ new.nextCursor = None /\ ~new.capped => Due \subseteq Range(new.events)
<1>1. PICK list, more, all : list = shown.events /\ more = page.events /\ all = list \o more
  OBVIOUS
<1> DEFINE capped == Len(all) >= MAX_SEARCH_RESULTS
<1>3. PICK n : n = IF capped THEN MAX_SEARCH_RESULTS ELSE Len(all)
  OBVIOUS
<1>4. /\ new.status = "success" /\ new.events = SubSeq(all, 1, n)
      /\ new.nextCursor = (IF capped THEN None ELSE page.nextCursor) /\ new.capped = capped
      /\ new = [status |-> "success", events |-> SubSeq(all, 1, n),
                nextCursor |-> IF capped THEN None ELSE page.nextCursor,
                error |-> FALSE, hasSearched |-> TRUE, capped |-> capped]
  BY <1>1, <1>3 DEF Collected
<1>5. /\ list \in Seq(Logs) /\ more \in Seq(Logs) /\ page.nextCursor \in Logs \cup {None}
      /\ stored \subseteq Logs /\ atFirst \subseteq stored
  BY <1>1 DEF SearchInv, SearchTypeOK, State, Page
<1>6. /\ NewestFirst(list) /\ refs.cursor = shown.nextCursor
      /\ \A e \in Range(list) : parseSearchQueryOK(Asked) /\ e \in Selected(Asked)
      /\ refs.cursor # None => list # <<>> /\ refs.cursor = list[Len(list)]
      /\ shown.status = "loading" => list = <<>>
      /\ shown.status = "loadingMore" => TopOf(list, Due) /\ refs.cursor # None
  BY <1>1 DEF SearchInv, ListInv
<1>7. PICK due : due = {e \in Due : refs.cursor # None => e < refs.cursor}
  OBVIOUS
<1>8. /\ NewestFirst(more)
      /\ \A e \in Range(more) :
           /\ parseSearchQueryOK(Asked) /\ e \in Selected(Asked)
           /\ refs.cursor # None => e < refs.cursor
      /\ TopOf(more, due)
      /\ page.nextCursor = None => due \subseteq Range(more)
      /\ page.nextCursor # None => more # <<>> /\ page.nextCursor = more[Len(more)]
  BY <1>1, <1>7 DEF PageInv
<1>9. Due \subseteq Nat
  BY <1>5, LogsAreNumbers DEF Due
<1>10. TopOf(list, Due)
  BY <1>6, Nothing
<1>11. /\ Len(list) \in Nat /\ \A i \in 1..Len(list) : list[i] \in Logs /\ list[i] \in Nat
       /\ Len(more) \in Nat /\ \A i \in 1..Len(more) : more[i] \in Logs /\ more[i] \in Nat
  BY <1>5, SeqIs, LogsAreNumbers
<1>12. list # <<>> => Len(list) \in 1..Len(list) /\ refs.cursor # None
  <2>1. list # <<>> => Len(list) \in 1..Len(list)
    BY SMTT(30), <1>5
  <2> QED BY <1>6, <2>1
<1>13. Due \ Range(list) \subseteq due
  <2> SUFFICES ASSUME NEW e \in Due, e \notin Range(list), refs.cursor # None PROVE e < refs.cursor
    BY <1>7
  <2> QED BY <1>6, <1>10, <1>12 DEF TopOf
<1>14. \A i \in 1..Len(list) : \A j \in 1..Len(more) : more[j] < list[i]
  <2> TAKE i \in 1..Len(list)
  <2> TAKE j \in 1..Len(more)
  <2>1. list # <<>>
    BY SMTT(30), <1>11
  <2>2. more[j] < refs.cursor
    <3>1. more[j] \in Range(more)
      BY <1>5, RangeIs
    <3> QED BY <1>8, <1>12, <2>1, <3>1
  <2>3. i = Len(list) \/ i < Len(list)
    BY SMTT(30), <1>11
  <2>4. list[i] = refs.cursor \/ list[i] > refs.cursor
    BY <1>6, <1>12, <2>1, <2>3 DEF NewestFirst
  <2>5. refs.cursor \in Nat /\ list[i] \in Nat /\ more[j] \in Nat
    BY <1>6, <1>11, <1>12, <2>1
  <2> QED BY SMTT(30), <2>2, <2>4, <2>5
<1>15. /\ all \in Seq(Logs) /\ Len(all) = Len(list) + Len(more)
       /\ NewestFirst(all) /\ Range(all) = Range(list) \cup Range(more) /\ TopOf(all, Due)
       /\ more # <<>> => all # <<>> /\ all[Len(all)] = more[Len(more)]
  BY <1>1, <1>5, <1>6, <1>8, <1>9, <1>10, <1>13, <1>14, JoinIs
<1>16. /\ n \in Nat /\ n <= Len(all) /\ n <= MAX_SEARCH_RESULTS
       /\ ~capped => n = Len(all)
  <2>1. MAX_SEARCH_RESULTS \in Nat /\ Len(all) \in Nat
    BY <1>15, SeqIs, SearchAssumption
  <2> QED BY SMTT(30), <1>3, <2>1
<1>17. PICK cut : cut = SubSeq(all, 1, n)
  OBVIOUS
<1>18. /\ cut \in Seq(Logs) /\ Len(cut) = n /\ (\A i \in 1..n : cut[i] = all[i])
       /\ NewestFirst(cut) /\ Range(cut) \subseteq Range(all) /\ TopOf(cut, Due)
  BY <1>9, <1>15, <1>16, <1>17, CutIs
<1>19. ~capped => cut = all
  BY SMTT(30), <1>15, <1>16, <1>18
<1>20. new \in State
  BY SMTT(30), <1>4, <1>5, <1>16, <1>17, <1>18 DEF State
<1>21. \A e \in Range(cut) : parseSearchQueryOK(Asked) /\ e \in Selected(Asked)
  BY <1>6, <1>8, <1>15, <1>18
<1>22. new.nextCursor # None => cut # <<>> /\ new.nextCursor = cut[Len(cut)]
  <2> SUFFICES ASSUME new.nextCursor # None PROVE cut # <<>> /\ new.nextCursor = cut[Len(cut)]
    OBVIOUS
  <2>1. ~capped /\ new.nextCursor = page.nextCursor
    BY <1>4
  <2> QED BY <1>8, <1>15, <1>19, <2>1
<1>23. new.nextCursor = None /\ ~new.capped => Due \subseteq Range(cut)
  <2> SUFFICES ASSUME new.nextCursor = None, ~new.capped PROVE Due \subseteq Range(cut)
    OBVIOUS
  <2>1. page.nextCursor = None /\ cut = all
    BY <1>4, <1>19
  <2> QED BY <1>8, <1>13, <1>15, <2>1
<1> QED BY <1>4, <1>16, <1>17, <1>18, <1>20, <1>21, <1>22, <1>23

\* A page that the store reads for the parameters p.
LEMMA PageRead ==
  ASSUME NEW p \in Params, stored \subseteq Logs, NEW read \in buildSearch(p),
         NEW page, page = paginate(read, p.limit),
         NEW found, found = {e \in Selected(p) : AfterCursor(p, e)}
  PROVE  /\ page \in Page /\ NewestFirst(page.events) /\ Range(page.events) \subseteq found
         /\ TopOf(page.events, found)
         /\ page.nextCursor = None => found \subseteq Range(page.events)
         /\ page.nextCursor # None => page.events # <<>> /\ page.nextCursor = page.events[Len(page.events)]
<1>1. p.limit = SEARCH_PAGE_LIMIT /\ p.limit \in Nat /\ p.limit # 0
  BY SearchAssumption DEF Params
<1>2. found \subseteq Logs /\ found \subseteq Nat
  BY LogsAreNumbers DEF Selected
<1>3. PICK n \in 0..(p.limit + 1) : read \in [1..n -> found]
  BY DEF buildSearch
<1>4. /\ NewestFirst(read)
      /\ \A e \in found \ Range(read) : Len(read) = p.limit + 1 /\ \A i \in 1..Len(read) : e < read[i]
  BY DEF buildSearch
<1>5. read \in Seq(Logs) /\ read \in Seq(found) /\ Len(read) = n /\ n \in Nat /\ n <= p.limit + 1
  BY SMTT(30), <1>1, <1>2, <1>3
<1>6. Range(read) \subseteq found
  BY <1>3 DEF Range
<1>7. TopOf(read, found)
  BY <1>4 DEF TopOf
<1>8. CASE Len(read) <= p.limit
  <2>1. page = [ok |-> TRUE, events |-> read, nextCursor |-> None]
    BY <1>8 DEF paginate
  <2>2. Len(read) # p.limit + 1
    BY SMTT(30), <1>1, <1>5, <1>8
  <2>3. found \subseteq Range(read)
    BY <1>4, <2>2
  <2>4. page.events = read /\ page.nextCursor = None
    BY SMTT(30), <2>1
  <2>5. page \in Page
    BY SMTT(30), <1>5, <2>1 DEF Page
  <2> QED BY <1>4, <1>6, <1>7, <2>3, <2>4, <2>5
<1>9. CASE ~(Len(read) <= p.limit)
  <2>1. PICK cut : cut = SubSeq(read, 1, p.limit)
    OBVIOUS
  <2>2. page = [ok |-> TRUE, events |-> cut, nextCursor |-> read[p.limit]]
    BY <1>9, <2>1 DEF paginate
  <2>3. p.limit <= Len(read) /\ p.limit \in 1..p.limit /\ p.limit \in 1..Len(read)
    BY SMTT(30), <1>1, <1>5, <1>9
  <2>4. /\ cut \in Seq(Logs) /\ Len(cut) = p.limit /\ (\A i \in 1..p.limit : cut[i] = read[i])
        /\ NewestFirst(cut) /\ Range(cut) \subseteq Range(read) /\ TopOf(cut, found)
    BY <1>1, <1>2, <1>4, <1>5, <1>7, <2>1, <2>3, CutIs
  <2>5. read[p.limit] \in Logs /\ read[p.limit] # None /\ read[p.limit] = cut[Len(cut)]
    BY <1>5, <2>3, <2>4, SeqIs, LogsAreNumbers
  <2>6. cut # <<>>
    BY <1>1, <2>4, Nothing
  <2>7. page.events = cut /\ page.nextCursor = read[p.limit]
    BY SMTT(30), <2>2
  <2>8. page \in Page
    BY SMTT(30), <2>2, <2>4, <2>5 DEF Page
  <2> QED BY <1>6, <2>4, <2>5, <2>6, <2>7, <2>8
<1> QED BY <1>8, <1>9

\* The call under way is for what is shown, after its cursor.
LEMMA CallAsks ==
  ASSUME NEW cursor, NEW p, p = buildSearchParams(refs.lastFilters, cursor)
  PROVE  /\ parseSearchQueryOK(p) <=> parseSearchQueryOK(Asked)
         /\ Selected(p) = Selected(Asked)
         /\ p.cursor = cursor
<1>1. p.from = Asked.from /\ p.to = Asked.to /\ p.level = Asked.level /\ p.cursor = cursor
  BY DEF Asked, buildSearchParams
<1> QED BY <1>1 DEF parseSearchQueryOK, Selected, Matches

LEMMA UpstreamStep ==
  ASSUME SearchInv, NEW c \in requests, searchUpstream(c)
  PROVE  SearchInv'
<1>1. /\ filters' = filters /\ stored' = stored /\ shown' = shown /\ refs' = refs
      /\ searching' = searching /\ stranded' = stranded
  BY DEF searchUpstream
<1>2. PICK page : /\ page \in {Failure} \cup (IF parseSearchQueryOK(c.params)
                       THEN {paginate(read, c.params.limit) : read \in buildSearch(c.params)} ELSE {})
                  /\ requests' = (requests \ {c}) \cup {[c EXCEPT !.page = {page}]}
  BY DEF searchUpstream
<1>3. c \in Call /\ stored \subseteq Logs /\ atFirst \subseteq stored
  BY DEF SearchInv, SearchTypeOK
<1>4. c.params \in Params
  BY <1>3 DEF Call
<1>5. PICK found : found = {e \in Selected(c.params) : AfterCursor(c.params, e)}
  OBVIOUS
<1>6. /\ page \in Page
      /\ page.ok =>
           /\ parseSearchQueryOK(c.params)
           /\ NewestFirst(page.events) /\ Range(page.events) \subseteq found /\ TopOf(page.events, found)
           /\ page.nextCursor = None => found \subseteq Range(page.events)
           /\ page.nextCursor # None => page.events # <<>> /\ page.nextCursor = page.events[Len(page.events)]
  <2>1. CASE page = Failure
    <3>1. page \in Page /\ page.ok = FALSE
      BY SMTT(30), <2>1, Nothing DEF Failure, Page
    <3> QED BY <3>1
  <2>2. CASE page # Failure
    <3>1. parseSearchQueryOK(c.params) /\ \E read \in buildSearch(c.params) : page = paginate(read, c.params.limit)
      BY <1>2, <2>2
    <3>2. PICK read \in buildSearch(c.params) : page = paginate(read, c.params.limit)
      BY <3>1
    <3>3. /\ page \in Page /\ NewestFirst(page.events) /\ Range(page.events) \subseteq found
          /\ TopOf(page.events, found)
          /\ page.nextCursor = None => found \subseteq Range(page.events)
          /\ page.nextCursor # None => page.events # <<>> /\ page.nextCursor = page.events[Len(page.events)]
      BY SMTT(30), <1>3, <1>4, <1>5, <3>2, PageRead
    <3> QED BY <3>1, <3>3
  <2> QED BY <2>1, <2>2
<1>7. PICK d : d = [c EXCEPT !.page = {page}]
  OBVIOUS
<1>8. d \in Call /\ d.id = c.id /\ d.params = c.params /\ d.page = {page}
  BY SMTT(30), <1>3, <1>6, <1>7 DEF Call
<1>9. requests' = (requests \ {c}) \cup {d}
  BY <1>2, <1>7
<1>10. atFirst' = (IF c.params.cursor # None \/ c.id # refs.reqId THEN atFirst ELSE stored)
  BY DEF searchUpstream
<1>11. atFirst' \subseteq stored
  BY <1>3, <1>10
<1>12. SearchTypeOK'
  BY <1>1, <1>8, <1>9, <1>11 DEF SearchInv, SearchTypeOK
<1>13. ASSUME c.id = refs.reqId
       PROVE  /\ shown.status \in {"loading", "loadingMore"} /\ c.params.cursor = refs.cursor
              /\ c.params = buildSearchParams(refs.lastFilters, refs.cursor)
              /\ (parseSearchQueryOK(c.params) <=> parseSearchQueryOK(Asked))
              /\ Selected(c.params) = Selected(Asked)
  <2>1. /\ shown.status \in {"loading", "loadingMore"}
        /\ c.params = buildSearchParams(refs.lastFilters, refs.cursor)
    BY <1>13 DEF SearchInv, CallsInv
  <2> QED BY <2>1, CallAsks
<1>14. Asked' = Asked /\ Selected(Asked)' = Selected(Asked)
  BY <1>1 DEF Asked, Selected
<1>15. ListInv'
  <2>1. CASE atFirst' = atFirst
    <3>1. Due' = Due
      BY <1>14, <2>1 DEF Due
    <3> QED BY <1>1, <1>14, <3>1 DEF SearchInv, ListInv
  <2>2. CASE atFirst' # atFirst
    <3>1. c.id = refs.reqId /\ refs.cursor = None
      BY <1>10, <1>13, <2>2
    <3>2. shown.status = "loading"
      BY <1>13, <3>1 DEF SearchInv, ListInv
    <3> QED BY <1>1, <1>14, <3>2 DEF SearchInv, ListInv
  <2> QED BY <2>1, <2>2
<1>16. ASSUME c.id = refs.reqId PROVE PageInv(page)'
  <2> SUFFICES ASSUME page.ok PROVE PageInv(page)'
    BY DEF PageInv
  <2>1. PICK due : due = {e \in Due' : refs.cursor # None => e < refs.cursor}
    OBVIOUS
  <2>2. found = {e \in Selected(Asked) : refs.cursor # None => e < refs.cursor}
    BY <1>5, <1>13, <1>16 DEF AfterCursor
  <2>3. parseSearchQueryOK(Asked)
    BY <1>6, <1>13, <1>16
  <2>4. due \subseteq found
    BY <1>11, <1>14, <2>1, <2>2 DEF Due, Selected
  <2>5. TopOf(page.events, due)
    BY <1>6, <2>4 DEF TopOf
  <2>6. \A e \in Range(page.events) : e \in Selected(Asked) /\ (refs.cursor # None => e < refs.cursor)
    BY <1>6, <2>2
  <2>7. page.nextCursor = None => due \subseteq Range(page.events)
    BY <1>6, <2>4
  <2> QED BY <1>1, <1>6, <1>14, <2>1, <2>3, <2>5, <2>6, <2>7 DEF PageInv
<1>17. CallsInv'
  <2>1. \A a, b \in requests : a.id = b.id => a = b
    BY DEF SearchInv, CallsInv
  <2>2. \A a, b \in requests' : a.id = b.id => a = b
    BY <1>8, <1>9, <2>1
  <2>3. \A a \in requests' : a.id <= refs.reqId
    BY <1>8, <1>9 DEF SearchInv, CallsInv
  <2>4. ASSUME NEW a \in requests', a.id = refs.reqId
        PROVE  /\ shown.status \in {"loading", "loadingMore"}
               /\ a.params = buildSearchParams(refs.lastFilters, refs.cursor)
               /\ \A q \in a.page : PageInv(q)'
    <3>1. CASE a = d
      <4>1. c.id = refs.reqId
        BY <1>8, <2>4, <3>1
      <4> QED BY <1>8, <1>13, <1>16, <3>1, <4>1
    <3>2. CASE a # d
      <4>1. a \in requests /\ a # c
        BY <1>9, <3>2
      <4>2. c.id # refs.reqId
        BY <2>1, <2>4, <4>1
      <4>3. atFirst' = atFirst
        BY <1>10, <4>2
      <4>4. Due' = Due
        BY <1>14, <4>3 DEF Due
      <4>5. ASSUME NEW q, PageInv(q) PROVE PageInv(q)'
        BY <1>1, <1>14, <4>4, <4>5 DEF PageInv
      <4> QED BY <2>4, <4>1, <4>5 DEF SearchInv, CallsInv
    <3> QED BY <3>1, <3>2
  <2> QED BY <1>1, <2>2, <2>3, <2>4 DEF CallsInv
<1>18. (~searching => shown = INITIAL /\ refs = FreshRefs /\ requests = {})'
  BY <1>1 DEF SearchInv
<1> QED BY <1>12, <1>15, <1>17, <1>18 DEF SearchInv

LEMMA CursorSet ==
  ASSUME NEW r \in Refs, NEW k \in Logs \cup {None}, NEW t, t = [r EXCEPT !.cursor = k]
  PROVE  t \in Refs /\ t.reqId = r.reqId /\ t.lastFilters = r.lastFilters /\ t.cursor = k
BY SMTT(30) DEF Refs

LEMMA InFlightSet ==
  ASSUME NEW r \in Refs, NEW b \in BOOLEAN, NEW t, t = [r EXCEPT !.inFlight = b]
  PROVE  t \in Refs /\ t.reqId = r.reqId /\ t.lastFilters = r.lastFilters /\ t.cursor = r.cursor
BY SMTT(30) DEF Refs

LEMMA NextCall ==
  ASSUME NEW r \in Refs, r.reqId < MaxSearches,
         NEW t, t = [r EXCEPT !.reqId = @ + 1, !.inFlight = TRUE]
  PROVE  t \in Refs /\ t.reqId = r.reqId + 1 /\ t.lastFilters = r.lastFilters /\ t.cursor = r.cursor
<1>0. PICK yes \in BOOLEAN : yes = TRUE
  OBVIOUS
<1>1. PICK a : a = [r EXCEPT !.reqId = r.reqId + 1]
  OBVIOUS
<1>2. r.reqId + 1 \in 0..MaxSearches
  BY SMTT(30), SearchAssumption DEF Refs
<1>3. a \in Refs /\ a.reqId = r.reqId + 1 /\ a.lastFilters = r.lastFilters /\ a.cursor = r.cursor
  BY SMTT(30), <1>1, <1>2 DEF Refs
<1>4. t = [a EXCEPT !.inFlight = yes]
  BY <1>0, <1>1
<1>5. t \in Refs /\ t.reqId = a.reqId /\ t.lastFilters = a.lastFilters /\ t.cursor = a.cursor
  BY SMTT(30), <1>3, <1>4 DEF Refs
<1> QED BY <1>3, <1>5

LEMMA FailedIs ==
  ASSUME shown \in State, NEW t, t = Failed
  PROVE  /\ t \in State
         /\ shown.status = "loading" => t.status = "error" /\ t.events = <<>> /\ t.nextCursor = None
         /\ shown.status # "loading" =>
              /\ t.status = "success" /\ t.events = shown.events /\ t.nextCursor = shown.nextCursor
              /\ t.capped = shown.capped
<1>0. PICK yes \in BOOLEAN : yes = TRUE
  OBVIOUS
<1>1. CASE shown.status = "loading"
  <2>1. PICK a : a = [INITIAL EXCEPT !.status = "error"]
    OBVIOUS
  <2>2. PICK b : b = [a EXCEPT !.error = yes]
    OBVIOUS
  <2>3. t = [b EXCEPT !.hasSearched = yes]
    BY <1>0, <1>1, <2>1, <2>2 DEF Failed
  <2>4. a \in State /\ a.status = "error" /\ a.events = INITIAL.events /\ a.nextCursor = INITIAL.nextCursor
    BY SMTT(30), <2>1, INITIALIs, StatusSet
  <2>5. b \in State /\ b.status = a.status /\ b.events = a.events /\ b.nextCursor = a.nextCursor
    BY SMTT(30), <2>2, <2>4, ErrorSet
  <2>6. t \in State /\ t.status = b.status /\ t.events = b.events /\ t.nextCursor = b.nextCursor
    BY SMTT(30), <2>3, <2>5, SearchedSet
  <2> QED BY <1>1, <2>4, <2>5, <2>6, HookFields
<1>2. CASE shown.status # "loading"
  <2>1. PICK a : a = [shown EXCEPT !.status = "success"]
    OBVIOUS
  <2>2. t = [a EXCEPT !.error = yes]
    BY <1>0, <1>2, <2>1 DEF Failed
  <2>3. /\ a \in State /\ a.status = "success" /\ a.events = shown.events
        /\ a.nextCursor = shown.nextCursor /\ a.capped = shown.capped
    BY SMTT(30), <2>1, StatusSet
  <2>4. /\ t \in State /\ t.status = a.status /\ t.events = a.events
        /\ t.nextCursor = a.nextCursor /\ t.capped = a.capped
    BY SMTT(30), <2>2, <2>3, ErrorSet
  <2> QED BY <1>2, <2>3, <2>4
<1> QED BY <1>1, <1>2

LEMMA LoadMoreStep ==
  ASSUME SearchInv, loadMore
  PROVE  SearchInv'
<1>1. /\ filters' = filters /\ stored' = stored /\ searching' = searching
      /\ stranded' = stranded /\ atFirst' = atFirst /\ searching
      /\ shown.events # <<>> /\ shown.nextCursor # None /\ shown.status # "loadingMore"
      /\ refs.reqId < MaxSearches /\ shown \in State /\ refs \in Refs /\ requests \subseteq Call
  BY DEF loadMore, SearchInv, SearchTypeOK
<1>2. /\ shown' \in State /\ shown'.status = "loadingMore" /\ shown'.events = shown.events
      /\ shown'.nextCursor = shown.nextCursor /\ shown'.capped = shown.capped
  <2>1. PICK no \in BOOLEAN : no = FALSE
    OBVIOUS
  <2>2. PICK a : a = [shown EXCEPT !.status = "loadingMore"]
    OBVIOUS
  <2>3. shown' = [a EXCEPT !.error = no]
    BY <2>1, <2>2 DEF loadMore
  <2>4. /\ a \in State /\ a.status = "loadingMore" /\ a.events = shown.events
        /\ a.nextCursor = shown.nextCursor /\ a.capped = shown.capped
    BY SMTT(30), <1>1, <2>2, StatusSet
  <2>5. /\ shown' \in State /\ shown'.status = a.status /\ shown'.events = a.events
        /\ shown'.nextCursor = a.nextCursor /\ shown'.capped = a.capped
    BY SMTT(30), <2>3, <2>4, ErrorSet
  <2> QED BY <2>4, <2>5
<1>3. refs' \in Refs /\ refs'.reqId = refs.reqId + 1 /\ refs'.lastFilters = refs.lastFilters /\ refs'.cursor = refs.cursor
  <2>1. refs' = [refs EXCEPT !.reqId = @ + 1, !.inFlight = TRUE]
    BY DEF loadMore
  <2> QED BY <1>1, <2>1, NextCall
<1>4. refs.reqId + 1 \in 1..MaxSearches /\ refs.reqId \in Nat /\ refs.reqId + 1 <= refs.reqId + 1
  BY SMTT(30), <1>1, SearchAssumption DEF Refs
<1>5. PICK new : new = [id |-> refs.reqId + 1, params |-> buildSearchParams(refs.lastFilters, refs.cursor), page |-> {}]
  OBVIOUS
<1>6. requests' = requests \cup {new}
  BY <1>5 DEF loadMore, Send
<1>7. /\ new.id = refs.reqId + 1 /\ new.page = {}
      /\ new.params = buildSearchParams(refs.lastFilters, refs.cursor)
  BY <1>5
<1>8. new \in Call
  <2>1. refs.lastFilters \in Filters /\ refs.cursor \in Logs \cup {None}
    BY <1>1 DEF Refs
  <2>2. buildSearchParams(refs.lastFilters, refs.cursor) \in Params
    BY <2>1 DEF Params, buildSearchParams, Filters
  <2> QED BY <1>4, <1>5, <2>2 DEF Call
<1>9. Asked' = Asked /\ Due' = Due /\ Selected(Asked)' = Selected(Asked)
  BY <1>1, <1>3, SameQuestion DEF Selected
<1>10. ListInv'
  <2>1. shown.status = "success"
    BY <1>1 DEF SearchInv, ListInv
  <2> QED BY <1>1, <1>2, <1>3, <1>9, <2>1 DEF SearchInv, ListInv
<1>11. \A c \in requests : c.id # refs.reqId + 1 /\ c.id <= refs.reqId + 1
  <2> TAKE c \in requests
  <2>1. c.id \in 1..MaxSearches /\ c.id <= refs.reqId
    BY <1>1 DEF Call, SearchInv, CallsInv
  <2> QED BY SMTT(30), <2>1, <1>4
<1>12. CallsInv'
  <2>1. \A c, d \in requests : c.id = d.id => c = d
    BY DEF SearchInv, CallsInv
  <2>2. \A c, d \in requests' : c.id = d.id => c = d
    BY <1>6, <1>7, <1>11, <2>1
  <2>3. ASSUME NEW c \in requests', c.id = refs'.reqId PROVE c = new
    BY <1>3, <1>6, <1>11, <2>3
  <2>4. \A c \in requests' : c.id <= refs'.reqId
    BY <1>3, <1>4, <1>6, <1>7, <1>11
  <2> QED BY <1>2, <1>3, <1>7, <2>2, <2>3, <2>4 DEF CallsInv
<1>13. SearchTypeOK'
  BY <1>1, <1>2, <1>3, <1>6, <1>8 DEF SearchInv, SearchTypeOK
<1> QED BY <1>1, <1>10, <1>12, <1>13 DEF SearchInv

LEMMA AnsweredStep ==
  ASSUME SearchInv, NEW c \in requests, answered(c)
  PROVE  SearchInv'
<1>1. /\ filters' = filters /\ stored' = stored /\ searching' = searching /\ searching
      /\ stranded' = stranded /\ atFirst' = atFirst /\ requests' = requests \ {c}
      /\ shown \in State /\ refs \in Refs /\ requests \subseteq Call
  BY DEF answered, SearchInv, SearchTypeOK
<1>2. PICK page \in c.page : IF Latest(c.id) THEN settle(page) ELSE UNCHANGED <<shown, refs>>
  BY DEF answered
<1>3. CASE ~Latest(c.id)
  <2>1. shown' = shown /\ refs' = refs
    BY <1>2, <1>3
  <2>2. ListInv' /\ CallsInv'
    BY <1>1, <2>1, HookAlone
  <2>3. SearchTypeOK'
    BY <1>1, <2>1 DEF SearchInv, SearchTypeOK
  <2> QED BY <1>1, <2>2, <2>3 DEF SearchInv
<1>4. CASE Latest(c.id)
  <2>1. /\ shown' = (IF page.ok THEN Collected(page) ELSE Failed)
        /\ refs' = [refs EXCEPT !.inFlight = FALSE, !.cursor = shown'.nextCursor]
    BY <1>2, <1>4 DEF settle
  <2>2. c.id = refs.reqId /\ shown.status \in {"loading", "loadingMore"} /\ PageInv(page) /\ page \in Page
    <3>1. c.id = refs.reqId
      BY <1>4 DEF Latest
    <3>2. page \in Page
      BY <1>1 DEF Call
    <3> QED BY <3>1, <3>2 DEF SearchInv, CallsInv
  <2>3. \A d \in requests' : d.id # refs.reqId
    BY <1>1, <2>2 DEF SearchInv, CallsInv
  <2>4. shown' \in State
    <3>1. CASE page.ok
      <4>1. shown' = Collected(page)
        BY <2>1, <3>1
      <4> QED BY <2>2, <3>1, <4>1, PageCollected
    <3>2. CASE ~page.ok
      <4>1. shown' = Failed
        BY <2>1, <3>2
      <4> QED BY <1>1, <4>1, FailedIs
    <3> QED BY <3>1, <3>2
  <2>5. /\ refs' \in Refs /\ refs'.reqId = refs.reqId /\ refs'.lastFilters = refs.lastFilters
        /\ refs'.cursor = shown'.nextCursor
    <3>1. shown'.nextCursor \in Logs \cup {None}
      BY <2>4 DEF State
    <3>2. PICK k \in Logs \cup {None} : k = shown'.nextCursor
      BY <3>1
    <3>3. PICK no \in BOOLEAN : no = FALSE
      OBVIOUS
    <3>4. PICK a : a = [refs EXCEPT !.inFlight = no]
      OBVIOUS
    <3>5. refs' = [a EXCEPT !.cursor = k]
      BY <2>1, <3>2, <3>3, <3>4
    <3>6. a \in Refs /\ a.reqId = refs.reqId /\ a.lastFilters = refs.lastFilters
      BY <1>1, <3>4, InFlightSet
    <3>7. refs' \in Refs /\ refs'.reqId = a.reqId /\ refs'.lastFilters = a.lastFilters /\ refs'.cursor = k
      BY SMTT(30), <3>5, <3>6, CursorSet
    <3> QED BY <3>2, <3>6, <3>7
  <2>6. Asked' = Asked /\ Due' = Due /\ Selected(Asked)' = Selected(Asked)
    BY <1>1, <2>5, SameQuestion DEF Selected
  <2>7. ASSUME page.ok PROVE ListInv'
    <3>1. shown' = Collected(page)
      BY <2>1, <2>7
    <3>2. /\ shown'.status = "success"
          /\ NewestFirst(shown'.events) /\ Len(shown'.events) <= MAX_SEARCH_RESULTS
          /\ \A e \in Range(shown'.events) : parseSearchQueryOK(Asked) /\ e \in Selected(Asked)
          /\ shown'.nextCursor # None =>
               shown'.events # <<>> /\ shown'.nextCursor = shown'.events[Len(shown'.events)]
          /\ TopOf(shown'.events, Due)
          /\ shown'.nextCursor = None /\ ~shown'.capped => Due \subseteq Range(shown'.events)
      BY <2>2, <2>7, <3>1, PageCollected
    <3> QED BY <2>5, <2>6, <3>2 DEF ListInv
  <2>8. ASSUME ~page.ok PROVE ListInv'
    <3>1. shown' = Failed
      BY <2>1, <2>8
    <3>2. CASE shown.status = "loading"
      <4>1. shown'.status = "error" /\ shown'.events = <<>> /\ shown'.nextCursor = None
        BY <1>1, <3>1, <3>2, FailedIs
      <4>2. 0 <= MAX_SEARCH_RESULTS
        BY SMTT(30), SearchAssumption
      <4> QED BY <2>5, <4>1, <4>2, Nothing DEF ListInv
    <3>3. CASE shown.status = "loadingMore"
      <4>1. /\ shown'.status = "success" /\ shown'.events = shown.events
            /\ shown'.nextCursor = shown.nextCursor /\ shown'.capped = shown.capped
        BY <1>1, <3>1, <3>3, FailedIs
      <4> QED BY <2>5, <2>6, <3>3, <4>1 DEF SearchInv, ListInv
    <3> QED BY <2>2, <3>2, <3>3
  <2>9. ListInv'
    BY <2>7, <2>8
  <2>10. CallsInv'
    BY <1>1, <2>3, <2>5 DEF SearchInv, CallsInv
  <2>11. SearchTypeOK'
    BY <1>1, <2>4, <2>5 DEF SearchInv, SearchTypeOK
  <2> QED BY <1>1, <2>9, <2>10, <2>11 DEF SearchInv
<1> QED BY <1>3, <1>4

LEMMA BarStep ==
  ASSUME filters \in Filters, SearchBar
  PROVE  filters' \in Filters
<1>1. ASSUME NEW l \in Levels \cup {None} PROVE [filters EXCEPT !.level = l] \in Filters
  BY SMTT(30) DEF Filters
<1>2. ASSUME NEW t \in Bounds \cup {None} PROVE [filters EXCEPT !.from = t] \in Filters
  BY SMTT(30) DEF Filters
<1>3. ASSUME NEW t \in Bounds \cup {None} PROVE [filters EXCEPT !.to = t] \in Filters
  BY SMTT(30) DEF Filters
<1>4. EMPTY_SEARCH_FILTERS \in Filters
  BY DEF EMPTY_SEARCH_FILTERS, Filters
<1>5. CASE \E l \in Levels : filters' = [filters EXCEPT !.level = IF @ = l THEN None ELSE l]
  <2>1. PICK l \in Levels : filters' = [filters EXCEPT !.level = IF @ = l THEN None ELSE l]
    BY <1>5
  <2>2. PICK v : v = IF filters.level = l THEN None ELSE l
    OBVIOUS
  <2>3. v \in Levels \cup {None} /\ filters' = [filters EXCEPT !.level = v]
    BY <2>1, <2>2
  <2> QED BY <1>1, <2>3
<1> QED BY <1>2, <1>3, <1>4, <1>5 DEF SearchBar

LEMMA SearchStep == SearchInv /\ [SearchNext]_searchVars => SearchInv'
<1> SUFFICES ASSUME SearchInv, [SearchNext]_searchVars PROVE SearchInv'
  OBVIOUS
<1>0. /\ filters \in Filters /\ refs \in Refs /\ requests \subseteq Call /\ stored \subseteq Logs
      /\ shown \in State /\ atFirst \subseteq stored
      /\ (\A c, d \in requests : c.id = d.id => c = d) /\ (\A c \in requests : c.id <= refs.reqId)
      /\ refs.reqId \in 0..MaxSearches
  BY DEF SearchInv, SearchTypeOK, CallsInv, Refs
<1>1. CASE run
  <2>1. Searching(filters, refs) /\ UNCHANGED <<filters, stored, searching, stranded, atFirst>> /\ searching
    BY <1>1 DEF run
  <2>2. ListInv' /\ CallsInv' /\ shown' \in State /\ refs' \in Refs /\ requests' \subseteq Call
    BY <1>0, <2>1, SearchStarts
  <2> QED BY <2>1, <2>2 DEF SearchInv, SearchTypeOK
<1>2. CASE loadMore
  BY <1>2, LoadMoreStep
<1>3. CASE SearchBar
  <2>1. UNCHANGED <<stored, shown, refs, requests, searching, stranded, atFirst>>
    BY <1>3 DEF SearchBar
  <2>2. ListInv' /\ CallsInv'
    BY <2>1, HookAlone
  <2>3. filters' \in Filters
    BY <1>0, <1>3, BarStep
  <2> QED BY <2>1, <2>2, <2>3 DEF SearchInv, SearchTypeOK
<1>4. CASE ToTail
  <2>1. /\ searching' = FALSE /\ shown' = INITIAL /\ refs' = FreshRefs /\ requests' = {} /\ stranded' = FALSE
        /\ UNCHANGED <<filters, stored, atFirst>>
    BY <1>4 DEF ToTail
  <2>2. 0 <= MAX_SEARCH_RESULTS
    BY SMTT(30), SearchAssumption
  <2>3. ListInv'
    BY <2>1, <2>2, HookFields, Nothing DEF ListInv
  <2>4. CallsInv'
    BY <2>1 DEF CallsInv
  <2>5. SearchTypeOK'
    BY <2>1, INITIALIs, FreshRefsAre DEF SearchInv, SearchTypeOK
  <2> QED BY <2>1, <2>3, <2>4, <2>5 DEF SearchInv
<1>5. CASE ToSearch
  <2>1. ~searching /\ searching' = TRUE /\ UNCHANGED <<filters, stored, stranded, atFirst>>
    BY <1>5 DEF ToSearch
  <2>2. shown = INITIAL /\ refs = FreshRefs /\ requests = {}
    BY <2>1 DEF SearchInv
  <2>3. CASE searchFiltersActive(filters)
    <3>1. Searching(filters, FreshRefs)
      BY <1>5, <2>3 DEF ToSearch
    <3>2. FreshRefs.reqId \in 0..MaxSearches
      BY <1>0, <2>2
    <3>3. ListInv' /\ CallsInv' /\ shown' \in State /\ refs' \in Refs /\ requests' \subseteq Call
      BY <1>0, <2>2, <3>1, <3>2, SearchStarts
    <3> QED BY <2>1, <3>3 DEF SearchInv, SearchTypeOK
  <2>4. CASE ~searchFiltersActive(filters)
    <3>1. shown' = shown /\ refs' = refs /\ requests' = requests
      BY <1>5, <2>4 DEF ToSearch
    <3>2. ListInv' /\ CallsInv'
      BY <2>1, <3>1, HookAlone
    <3> QED BY <2>1, <3>1, <3>2 DEF SearchInv, SearchTypeOK
  <2> QED BY <2>3, <2>4
<1>6. CASE Stored
  <2>1. UNCHANGED <<filters, shown, refs, requests, searching, stranded, atFirst>>
    BY <1>6 DEF Stored
  <2>2. stored \subseteq stored' /\ stored' \subseteq Logs
    BY <1>0, <1>6 DEF Stored
  <2>3. ListInv' /\ CallsInv'
    BY <2>1, <2>2, HookAlone
  <2> QED BY <2>1, <2>2, <2>3 DEF SearchInv, SearchTypeOK
<1>7. ASSUME NEW c \in requests, searchUpstream(c) PROVE SearchInv'
  BY <1>7, UpstreamStep
<1>8. ASSUME NEW c \in requests, answered(c) PROVE SearchInv'
  BY <1>8, AnsweredStep
<1>9. ASSUME NEW c \in requests, rejected(c) PROVE SearchInv'
  <2>1. /\ UNCHANGED <<filters, stored, shown, refs, searching, atFirst>> /\ searching
        /\ requests' = requests \ {c} /\ stranded' = (stranded \/ Latest(c.id))
    BY <1>9 DEF rejected
  <2>2. ListInv' /\ CallsInv'
    BY <2>1, HookAlone
  <2>3. stranded' \in BOOLEAN
    BY <2>1
  <2> QED BY <2>1, <2>2, <2>3 DEF SearchInv, SearchTypeOK
<1>10. CASE UNCHANGED searchVars
  <2>1. UNCHANGED <<filters, stored, shown, refs, requests, searching, stranded, atFirst>>
    BY <1>10 DEF searchVars
  <2>2. ListInv' /\ CallsInv'
    BY <2>1, HookAlone
  <2> QED BY <2>1, <2>2 DEF SearchInv, SearchTypeOK
<1> QED BY <1>1, <1>2, <1>3, <1>4, <1>5, <1>6, <1>7, <1>8, <1>9, <1>10 DEF SearchNext

LEMMA SearchFromStarts == ASSUME NEW f \in Filters, SearchFrom(f) PROVE SearchInv
<1>1. 0 <= MAX_SEARCH_RESULTS
  BY SMTT(30), SearchAssumption
<1>2. ListInv
  BY <1>1, HookFields, Nothing DEF SearchFrom, ListInv
<1>3. SearchTypeOK
  BY INITIALIs, FreshRefsAre DEF SearchFrom, SearchTypeOK
<1> QED BY <1>2, <1>3 DEF SearchFrom, SearchInv, CallsInv

LEMMA SearchInvShows == SearchInv => OneResultSet
<1> SUFFICES ASSUME SearchInv PROVE OneResultSet
  OBVIOUS
<1>1. PICK list, found : list = shown.events /\ found = IF parseSearchQueryOK(Asked) THEN Selected(Asked) ELSE {}
  OBVIOUS
<1>2. NewestFirst(list) /\ Len(list) <= MAX_SEARCH_RESULTS /\ list \in Seq(Logs)
  BY <1>1 DEF SearchInv, ListInv, SearchTypeOK, State
<1>3. Range(list) \subseteq found
  BY <1>1 DEF SearchInv, ListInv
<1>4. atFirst \cap found = Due
  BY <1>1 DEF SearchInv, SearchTypeOK, Due, Selected
<1>5. ASSUME shown.status \in {"success", "loadingMore"}, NEW e \in atFirst \cap found,
             \/ list # <<>> /\ e >= list[Len(list)]
             \/ shown.status = "success" /\ shown.nextCursor = None /\ ~shown.capped
      PROVE  e \in Range(list)
  <2>1. CASE shown.status = "success" /\ shown.nextCursor = None /\ ~shown.capped
    BY <1>1, <1>4, <2>1 DEF SearchInv, ListInv
  <2>2. CASE list # <<>> /\ e >= list[Len(list)]
    <3>1. TopOf(list, Due)
      BY <1>1, <1>5 DEF SearchInv, ListInv
    <3>2. Len(list) \in 1..Len(list)
      BY SMTT(30), <1>2, <2>2
    <3>3. list[Len(list)] \in Nat /\ e \in Nat
      BY <1>2, <3>2, SeqIs, LogsAreNumbers DEF SearchInv, SearchTypeOK
    <3>4. ~(e < list[Len(list)])
      BY SMTT(30), <2>2, <3>3
    <3> QED BY <1>4, <3>1, <3>2, <3>4 DEF TopOf
  <2> QED BY <1>5, <2>1, <2>2
<1> QED BY <1>1, <1>2, <1>3, <1>5 DEF OneResultSet, Asked

-----------------------------------------------------------------------------
(* The connection of the live tail: TailStream *)

Written == [kind : {"data", "gap"}, n : Nat]

\* The order in which events travel: what the pump has taken, what Subscribe
\* offers, what waits in the inbox, what is still to be published.
OrderInv ==
  /\ published \in Nat
  /\ inbox \in Seq(Nat) /\ hand \subseteq Nat /\ taken \subseteq 1..published
  /\ \A e \in hand : e \in 1..published /\ e \notin Undecodable
  /\ \A i \in 1..Len(inbox) : inbox[i] \in 1..published
  /\ \A i, j \in 1..Len(inbox) : i < j => inbox[i] < inbox[j]
  /\ \A e \in taken \cup hand, i \in 1..Len(inbox) : e < inbox[i]
  /\ \A e \in taken, f \in hand : e < f
  /\ taken \subseteq Matching \ Undecodable

\* The order in which the loop writes them.
LineInv ==
  /\ out \in Seq(Written) /\ buf \in Seq(Nat)
  /\ Emitted \cup cur \cup Range(buf) \subseteq taken
  /\ \A i, j \in 1..Len(out) : i < j /\ Data(i) /\ Data(j) => out[i].n < out[j].n
  /\ \A e \in Emitted, f \in cur : e < f
  /\ \A e, f \in cur : e = f
  /\ cur # {} => loop \in {"data", "ended"}
  /\ \A e \in Emitted \cup cur, i \in 1..Len(buf) : e < buf[i]
  /\ \A i, j \in 1..Len(buf) : i < j => buf[i] < buf[j]

\* Where the count of the losses is.  A loss is in the pump's hands, in the
\* counter, in the loop's hand or told; those before an event that has left
\* the pump are at least in the counter, those before an event written when
\* the loop last came round are told or in its hand.
CountInv ==
  /\ dropped \in Nat /\ gap \in Nat /\ told \in Nat
  /\ loop \in {"swap", "select", "data", "beat"} => gap = 0
  /\ Cardinality(Lost) = told + gap + dropped + (IF pump = "drop" THEN 1 ELSE 0)
  /\ \A n \in Emitted \cup cur \cup Range(buf) : Cardinality(LostBefore(n)) <= told + gap + dropped
  /\ loop \in {"gap", "select", "data", "beat"} =>
       \A n \in Emitted : Cardinality(LostBefore(n)) <= told + gap
  /\ \A i, j \in 1..Len(out) : i < j /\ Data(i) /\ Data(j) => Cardinality(LostBefore(out[i].n)) <= told

StreamInv == OrderInv /\ LineInv /\ CountInv

-----------------------------------------------------------------------------
(* Sequences *)

LEMMA TailIs ==
  ASSUME NEW S, NEW s \in Seq(S), s # <<>>
  PROVE  /\ Tail(s) \in Seq(S) /\ Len(Tail(s)) = Len(s) - 1 /\ Head(s) = s[1] /\ 1 \in 1..Len(s)
         /\ \A i \in 1..Len(Tail(s)) : Tail(s)[i] = s[i + 1] /\ i + 1 \in 1..Len(s) /\ 1 < i + 1
BY SMTT(30)

LEMMA RangeAppend ==
  ASSUME NEW s \in Seq(Nat), NEW r \in Nat
  PROVE  Range(Append(s, r)) = Range(s) \cup {r}
<1>1. PICK t, n : t = Append(s, r) /\ n = Len(s) + 1
  OBVIOUS
<1>2. t \in Seq(Nat) /\ Len(t) = n /\ t[n] = r /\ \A i \in 1..Len(s) : t[i] = s[i]
  BY SMTT(30), <1>1
<1>3. (\A i \in 1..Len(t) : i \in 1..Len(s) \/ i = n) /\ n \in 1..Len(t) /\ \A i \in 1..Len(s) : i \in 1..Len(t)
  BY SMTT(30), <1>1, <1>2
<1>4. \A e : e \in Range(s) <=> \E i \in 1..Len(s) : e = s[i]
  BY RangeIs
<1>5. \A e : e \in Range(t) <=> \E i \in 1..Len(t) : e = t[i]
  BY <1>2, RangeIs
<1>6. ASSUME NEW e \in Range(t) PROVE e \in Range(s) \cup {r}
  <2>1. PICK i \in 1..Len(t) : e = t[i]
    BY <1>5, <1>6
  <2>2. CASE i = n
    BY <1>2, <2>1, <2>2
  <2>3. CASE i \in 1..Len(s)
    BY <1>2, <1>4, <2>1, <2>3
  <2> QED BY <1>3, <2>2, <2>3
<1>7. ASSUME NEW e \in Range(s) \cup {r} PROVE e \in Range(t)
  <2>1. CASE e = r
    BY <1>2, <1>3, <1>5, <2>1
  <2>2. CASE e \in Range(s)
    <3>1. PICK i \in 1..Len(s) : e = s[i]
      BY <1>4, <2>2
    <3> QED BY <1>2, <1>3, <1>5, <3>1
  <2> QED BY <1>7, <2>1, <2>2
<1> QED BY <1>1, <1>6, <1>7

LEMMA RangeTail ==
  ASSUME NEW S, NEW s \in Seq(S), s # <<>>
  PROVE  Range(s) = {Head(s)} \cup Range(Tail(s))
<1>1. PICK t : t = Tail(s)
  OBVIOUS
<1>2. /\ t \in Seq(S) /\ Len(t) = Len(s) - 1 /\ Head(s) = s[1] /\ 1 \in 1..Len(s) /\ Len(s) \in Nat
      /\ \A i \in 1..Len(t) : t[i] = s[i + 1] /\ i + 1 \in 1..Len(s)
  BY <1>1, TailIs, SeqIs
<1>3. \A i \in 1..Len(s) : i = 1 \/ (i - 1 \in 1..Len(t) /\ (i - 1) + 1 = i)
  BY SMTT(30), <1>2
<1>4. (\A e : e \in Range(s) <=> \E i \in 1..Len(s) : e = s[i]) /\ (\A e : e \in Range(t) <=> \E i \in 1..Len(t) : e = t[i])
  BY <1>2, RangeIs
<1>5. ASSUME NEW e \in Range(s) PROVE e \in {Head(s)} \cup Range(t)
  <2>1. PICK i \in 1..Len(s) : e = s[i]
    BY <1>4, <1>5
  <2>2. i = 1 \/ e = t[i - 1]
    BY <1>2, <1>3, <2>1
  <2> QED BY <1>2, <1>3, <1>4, <2>1, <2>2
<1>6. ASSUME NEW e \in {Head(s)} \cup Range(t) PROVE e \in Range(s)
  BY <1>2, <1>4, <1>6
<1> QED BY <1>1, <1>5, <1>6

-----------------------------------------------------------------------------
(* The order of the events *)

LEMMA OrderStarts == StreamInit => OrderInv
<1> SUFFICES ASSUME StreamInit PROVE OrderInv
  OBVIOUS
<1>1. published = 0 /\ inbox = <<>> /\ hand = {} /\ taken = {}
  BY DEF StreamInit
<1>2. 0 \in Nat /\ <<>> \in Seq(Nat) /\ \A i \in 1..Len(<<>>) : FALSE
  BY SMTT(30)
<1> QED BY <1>1, <1>2 DEF OrderInv

LEMMA PublishOrder ==
  ASSUME OrderInv, Publish
  PROVE  OrderInv'
<1>1. published' = published + 1 /\ hand' = hand /\ taken' = taken
  BY DEF Publish, pumpVars
<1>2. /\ published \in Nat /\ inbox \in Seq(Nat) /\ hand \subseteq Nat /\ taken \subseteq 1..published
      /\ \A i \in 1..Len(inbox) : inbox[i] \in 1..published
      /\ \A e \in hand : e \in 1..published
  BY DEF OrderInv
<1>3. published' \in Nat /\ \A e \in 1..published : e \in 1..published' /\ e < published'
  BY SMTT(30), <1>1, <1>2
<1>4. CASE inbox' = inbox
  BY <1>1, <1>2, <1>3, <1>4 DEF OrderInv
<1>5. CASE inbox' = Append(inbox, published + 1)
  <2>1. /\ inbox' \in Seq(Nat) /\ Len(inbox') = Len(inbox) + 1 /\ inbox'[Len(inbox) + 1] = published'
        /\ \A i \in 1..Len(inbox) : inbox'[i] = inbox[i]
    <3>1. PICK n \in Nat : n = published + 1
      BY <1>1, <1>3
    <3> QED BY SMTT(30), <1>1, <1>2, <1>5, <3>1
  <2>2. Len(inbox) \in Nat
    BY <1>2, SeqIs
  <2>3. \A i \in 1..Len(inbox') : i \in 1..Len(inbox) \/ i = Len(inbox) + 1
    BY SMTT(30), <2>1, <2>2
  <2>4. \A i, j \in 1..Len(inbox') : i < j => i \in 1..Len(inbox)
    BY SMTT(30), <2>1, <2>2
  <2>5. published' \in 1..published'
    BY SMTT(30), <1>1, <1>2
  <2>6. \A i \in 1..Len(inbox') : inbox'[i] \in 1..published'
    BY <1>2, <1>3, <2>1, <2>3, <2>5
  <2>7. \A i, j \in 1..Len(inbox') : i < j => inbox'[i] < inbox'[j]
    BY <1>2, <1>3, <2>1, <2>3, <2>4 DEF OrderInv
  <2>8. \A e \in taken \cup hand, i \in 1..Len(inbox') : e < inbox'[i]
    BY <1>2, <1>3, <2>1, <2>3 DEF OrderInv
  <2> QED BY <1>1, <1>2, <1>3, <2>1, <2>6, <2>7, <2>8 DEF OrderInv
<1> QED BY <1>4, <1>5 DEF Publish

LEMMA ReceiveOrder ==
  ASSUME OrderInv, BusReceive
  PROVE  OrderInv'
<1>1. inbox # <<>> /\ inbox' = Tail(inbox) /\ published' = published /\ taken' = taken
  BY DEF BusReceive, pumpVars
<1>2. /\ published \in Nat /\ inbox \in Seq(Nat) /\ hand \subseteq Nat /\ taken \subseteq 1..published
      /\ \A i \in 1..Len(inbox) : inbox[i] \in 1..published
      /\ \A i, j \in 1..Len(inbox) : i < j => inbox[i] < inbox[j]
      /\ \A e \in taken \cup hand, i \in 1..Len(inbox) : e < inbox[i]
  BY DEF OrderInv
<1>3. /\ inbox' \in Seq(Nat) /\ Head(inbox) = inbox[1] /\ 1 \in 1..Len(inbox)
      /\ \A i \in 1..Len(inbox') : inbox'[i] = inbox[i + 1] /\ i + 1 \in 1..Len(inbox) /\ 1 < i + 1
  BY <1>1, <1>2, TailIs
<1>4. \A i, j \in 1..Len(inbox') : i < j => i + 1 < j + 1
  BY SMTT(30)
<1>5. \A i, j \in 1..Len(inbox') : i < j => inbox'[i] < inbox'[j]
  BY <1>2, <1>3, <1>4
<1>6. \A i \in 1..Len(inbox') : inbox'[i] \in 1..published /\ Head(inbox) < inbox'[i]
  BY <1>2, <1>3
<1>7. \A e \in taken \cup hand, i \in 1..Len(inbox') : e < inbox'[i]
  BY <1>2, <1>3
<1>8. CASE hand' = hand
  BY <1>1, <1>2, <1>3, <1>5, <1>6, <1>7, <1>8 DEF OrderInv
<1>9. CASE hand' = {Head(inbox)} /\ Head(inbox) \notin Undecodable
  <2>1. Head(inbox) \in 1..published /\ Head(inbox) \in Nat /\ \A e \in taken : e < Head(inbox)
    BY <1>2, <1>3, SeqIs
  <2> QED BY <1>1, <1>2, <1>3, <1>5, <1>6, <1>7, <1>9, <2>1 DEF OrderInv
<1> QED BY <1>8, <1>9 DEF BusReceive

LEMMA PumpOrder ==
  ASSUME OrderInv, PumpReceive
  PROVE  OrderInv'
<1>1. hand' = {} /\ published' = published /\ inbox' = inbox
  BY DEF PumpReceive
<1>2. CASE taken' = taken
  BY <1>1, <1>2 DEF OrderInv
<1>3. CASE \E e \in hand : e \in Matching /\ taken' = taken \cup {e}
  <2>1. PICK e \in hand : e \in Matching /\ taken' = taken \cup {e}
    BY <1>3
  <2> QED BY <1>1, <2>1 DEF OrderInv
<1> QED BY <1>2, <1>3 DEF PumpReceive, pumpVars

LEMMA OrderStep == OrderInv /\ [StreamNext]_streamVars => OrderInv'
<1> SUFFICES ASSUME OrderInv, [StreamNext]_streamVars PROVE OrderInv'
  OBVIOUS
<1>1. CASE BusEnd
  BY <1>1 DEF BusEnd, OrderInv, pumpVars
<1>2. CASE UNCHANGED <<published, inbox, hand, taken>>
  BY <1>2 DEF OrderInv
<1> QED
  BY <1>1, <1>2, PublishOrder, ReceiveOrder, PumpOrder
  DEF StreamNext, Bus, Pump, Sink, SubscriptionDrops, HangUp, Cancel, PumpDrop, PumpEnd, Swap, SinkGap, Take,
      SinkData, Tick, SinkHeartbeat, StreamEventsReturn, streamVars, busVars, pumpVars

-----------------------------------------------------------------------------
(* The frames *)

LEMMA EmittedIs == \A e : e \in Emitted <=> \E i \in 1..Len(out) : Data(i) /\ e = out[i].n
BY DEF Emitted

\* What a frame more changes.
LEMMA FrameAppended ==
  ASSUME out \in Seq(Written), NEW f \in Written, out' = Append(out, f)
  PROVE  /\ out' \in Seq(Written)
         /\ \A i \in 1..Len(out') : Data(i)' =>
              \/ i \in 1..Len(out) /\ Data(i) /\ out'[i] = out[i]
              \/ i = Len(out) + 1 /\ out'[i] = f /\ f.kind = "data"
         /\ \A i, j \in 1..Len(out') : i < j => i \in 1..Len(out) /\ i # Len(out) + 1
         /\ Emitted' = Emitted \cup {x \in {f.n} : f.kind = "data"}
<1>1. PICK n : n = Len(out) + 1
  OBVIOUS
<1>2. out' \in Seq(Written) /\ Len(out') = n /\ out'[n] = f /\ \A i \in 1..Len(out) : out'[i] = out[i]
  BY SMTT(30), <1>1
<1>3. /\ \A i \in 1..Len(out') : i \in 1..Len(out) \/ i = n
      /\ n \in 1..Len(out') /\ \A i \in 1..Len(out) : i \in 1..Len(out')
      /\ \A i, j \in 1..Len(out') : i < j => i \in 1..Len(out) /\ i # n
  BY SMTT(30), <1>1, <1>2
<1>4. \A i \in 1..Len(out') : Data(i)' <=> out'[i].kind = "data"
  BY DEF Data
<1>5. \A i \in 1..Len(out) : Data(i) <=> out[i].kind = "data"
  BY DEF Data
<1>6. \A e : e \in Emitted' <=> \E i \in 1..Len(out') : Data(i)' /\ e = out'[i].n
  BY DEF Emitted
<1>7. ASSUME NEW i \in 1..Len(out'), Data(i)'
      PROVE  \/ i \in 1..Len(out) /\ Data(i) /\ out'[i] = out[i]
             \/ i = n /\ out'[i] = f /\ f.kind = "data"
  <2>1. CASE i \in 1..Len(out)
    BY <1>2, <1>4, <1>5, <1>7, <2>1
  <2>2. CASE i = n
    BY <1>2, <1>4, <1>7, <2>2
  <2> QED BY <1>3, <2>1, <2>2
<1>8. ASSUME NEW e \in Emitted' PROVE e \in Emitted \cup {x \in {f.n} : f.kind = "data"}
  <2>1. PICK i \in 1..Len(out') : Data(i)' /\ e = out'[i].n
    BY <1>6, <1>8
  <2>2. CASE i \in 1..Len(out) /\ Data(i) /\ out'[i] = out[i]
    BY <2>1, <2>2, EmittedIs
  <2>3. CASE i = n /\ out'[i] = f /\ f.kind = "data"
    BY <2>1, <2>3
  <2> QED BY <1>7, <2>1, <2>2, <2>3
<1>9. ASSUME NEW e \in Emitted PROVE e \in Emitted'
  <2>1. PICK i \in 1..Len(out) : Data(i) /\ e = out[i].n
    BY <1>9, EmittedIs
  <2> QED BY <1>2, <1>3, <1>4, <1>5, <1>6, <2>1
<1>10. ASSUME f.kind = "data" PROVE f.n \in Emitted'
  BY <1>2, <1>3, <1>4, <1>6, <1>10
<1> QED BY <1>1, <1>2, <1>3, <1>7, <1>8, <1>9, <1>10

LEMMA LineStarts == StreamInit => LineInv /\ Emitted = {} /\ Range(buf) = {}
<1> SUFFICES ASSUME StreamInit PROVE LineInv /\ Emitted = {} /\ Range(buf) = {}
  OBVIOUS
<1>1. out = <<>> /\ buf = <<>> /\ cur = {} /\ taken = {}
  BY DEF StreamInit
<1>2. out \in Seq(Written) /\ buf \in Seq(Nat) /\ (\A i \in 1..Len(out) : FALSE) /\ (\A i \in 1..Len(buf) : FALSE)
  BY SMTT(30), <1>1
<1>3. Emitted = {}
  BY <1>2, EmittedIs
<1>4. Range(buf) = {}
  BY <1>2, RangeIs
<1> QED BY <1>1, <1>2, <1>3, <1>4 DEF LineInv

\* The pump adds an event that is newer than all it has taken: to the
\* buffer, or, when that is full, to the losses.
LEMMA PumpLine ==
  ASSUME OrderInv, LineInv, NEW e \in hand, taken' = taken \cup {e}, cur' = cur, out' = out, loop' = loop,
         buf' = Append(buf, e) \/ buf' = buf
  PROVE  /\ LineInv' /\ Emitted' = Emitted /\ \A n \in Emitted \cup cur \cup Range(buf) : n < e
         /\ buf' = Append(buf, e) => Lost' = Lost /\ Range(buf') = Range(buf) \cup {e}
         /\ buf' = buf => Lost' = Lost \cup {e} /\ e \notin Lost
<1>1. /\ out \in Seq(Written) /\ buf \in Seq(Nat) /\ Emitted \cup cur \cup Range(buf) \subseteq taken
      /\ \A n \in Emitted \cup cur, i \in 1..Len(buf) : n < buf[i]
      /\ \A i, j \in 1..Len(buf) : i < j => buf[i] < buf[j]
  BY DEF LineInv
<1>2. e \in Nat /\ \A n \in taken : n < e /\ n \in Nat
  <2>1. e \in Nat /\ published \in Nat /\ taken \subseteq 1..published /\ \A n \in taken : n < e
    BY DEF OrderInv
  <2>2. \A n \in 1..published : n \in Nat
    BY SMTT(30), <2>1
  <2> QED BY <2>1, <2>2
<1>3. e \notin taken
  BY SMTT(30), <1>2
<1>4. Emitted' = Emitted /\ \A i : Data(i)' <=> Data(i)
  BY DEF Emitted, Data
<1>5. \A n \in Emitted \cup cur \cup Range(buf) : n < e
  BY <1>1, <1>2
<1>6. CASE buf' = buf
  <2>1. LineInv'
    BY <1>1, <1>4, <1>6 DEF LineInv
  <2>2. Lost' = Lost \cup {e} /\ e \notin Lost
    BY <1>1, <1>3, <1>4, <1>6 DEF Lost
  <2>3. buf' # Append(buf, e)
    <3>1. Len(Append(buf, e)) # Len(buf)
      BY SMTT(30), <1>1, <1>2
    <3> QED BY <1>6, <3>1
  <2> QED BY <1>4, <1>5, <2>1, <2>2, <2>3
<1>7. CASE buf' = Append(buf, e)
  <2>1. PICK m : m = Len(buf) + 1
    OBVIOUS
  <2>2. buf' \in Seq(Nat) /\ Len(buf') = m /\ buf'[m] = e /\ \A i \in 1..Len(buf) : buf'[i] = buf[i]
    BY SMTT(30), <1>1, <1>2, <1>7, <2>1
  <2>3. /\ \A i \in 1..Len(buf') : i \in 1..Len(buf) \/ i = m
        /\ \A i, j \in 1..Len(buf') : i < j => i \in 1..Len(buf)
        /\ Len(buf') # Len(buf)
    BY SMTT(30), <1>1, <2>1, <2>2
  <2>4. Range(buf') = Range(buf) \cup {e}
    <3>1. Range(Append(buf, e)) = Range(buf) \cup {e}
      BY <1>1, <1>2, RangeAppend
    <3> QED BY <1>7, <3>1
  <2>5. \A i \in 1..Len(buf) : buf[i] \in Range(buf)
    BY <1>1, RangeIs
  <2>6. ASSUME NEW i \in 1..Len(buf'), NEW j \in 1..Len(buf'), i < j PROVE buf'[i] < buf'[j]
    <3>1. i \in 1..Len(buf) /\ buf'[i] = buf[i]
      BY <2>2, <2>3, <2>6
    <3>2. CASE j = m
      BY <1>5, <2>2, <2>5, <3>1, <3>2
    <3>3. CASE j \in 1..Len(buf)
      BY <1>1, <2>2, <2>6, <3>1, <3>3
    <3> QED BY <2>3, <3>2, <3>3
  <2>7. ASSUME NEW n \in Emitted \cup cur, NEW i \in 1..Len(buf') PROVE n < buf'[i]
    <3>1. CASE i = m
      BY <1>5, <2>2, <3>1
    <3>2. CASE i \in 1..Len(buf)
      BY <1>1, <2>2, <3>2
    <3> QED BY <2>3, <3>1, <3>2
  <2>8. LineInv'
    BY <1>1, <1>4, <2>2, <2>4, <2>6, <2>7 DEF LineInv
  <2>9. Lost' = Lost
    BY <1>1, <1>3, <1>4, <2>4 DEF Lost
  <2> QED BY <1>4, <1>5, <2>3, <2>4, <2>8, <2>9
<1> QED BY <1>6, <1>7

\* The loop takes the oldest event of the buffer.
LEMMA TakeLine ==
  ASSUME LineInv, Take
  PROVE  /\ LineInv' /\ Emitted' = Emitted /\ Lost' = Lost
         /\ cur' \cup Range(buf') = Range(buf)
<1>1. buf # <<>> /\ cur' = {Head(buf)} /\ buf' = Tail(buf) /\ taken' = taken /\ out' = out /\ loop' = "data"
  BY DEF Take
<1>2. /\ buf \in Seq(Nat) /\ Emitted \cup cur \cup Range(buf) \subseteq taken
      /\ \A n \in Emitted \cup cur, i \in 1..Len(buf) : n < buf[i]
      /\ \A i, j \in 1..Len(buf) : i < j => buf[i] < buf[j]
  BY DEF LineInv
<1>3. /\ buf' \in Seq(Nat) /\ Head(buf) = buf[1] /\ 1 \in 1..Len(buf)
      /\ \A i \in 1..Len(buf') : buf'[i] = buf[i + 1] /\ i + 1 \in 1..Len(buf) /\ 1 < i + 1
  BY <1>1, <1>2, TailIs
<1>4. Emitted' = Emitted /\ \A i : Data(i)' <=> Data(i)
  BY <1>1 DEF Emitted, Data
<1>5. \A i, j \in 1..Len(buf') : i < j => i + 1 < j + 1
  BY SMTT(30)
<1>6. \A i, j \in 1..Len(buf') : i < j => buf'[i] < buf'[j]
  BY <1>2, <1>3, <1>5
<1>7. \A n \in Emitted \cup cur', i \in 1..Len(buf') : n < buf'[i]
  BY <1>1, <1>2, <1>3
<1>8. \A n \in Emitted, c \in cur' : n < c
  BY <1>1, <1>2, <1>3
<1>9. Range(buf) = {Head(buf)} \cup Range(buf')
  BY <1>1, <1>2, RangeTail
<1>10. LineInv'
  BY <1>1, <1>2, <1>3, <1>4, <1>6, <1>7, <1>8, <1>9 DEF LineInv
<1>11. cur = {}
  BY DEF LineInv, Take
<1> QED BY <1>1, <1>4, <1>9, <1>10, <1>11 DEF Lost

\* It writes the event it has taken.
LEMMA SinkDataLine ==
  ASSUME OrderInv, LineInv, SinkData
  PROVE  /\ LineInv' /\ Emitted' = Emitted \cup cur /\ Lost' = Lost /\ cur' = {} /\ Range(buf') = Range(buf)
         /\ \A i, j \in 1..Len(out') : i < j /\ Data(i)' /\ Data(j)' => out'[i].n \in Emitted
<1>1. PICK e \in cur : out' = Append(out, DataFrame(e))
  BY DEF SinkData
<1>2. cur' = {} /\ buf' = buf /\ taken' = taken
  BY DEF SinkData, pumpVars
<1>3. /\ out \in Seq(Written) /\ buf \in Seq(Nat) /\ Emitted \cup cur \cup Range(buf) \subseteq taken
      /\ \A i, j \in 1..Len(out) : i < j /\ Data(i) /\ Data(j) => out[i].n < out[j].n
      /\ \A n \in Emitted : n < e
      /\ \A n \in Emitted \cup cur, i \in 1..Len(buf) : n < buf[i]
      /\ \A i, j \in 1..Len(buf) : i < j => buf[i] < buf[j]
      /\ cur = {e}
  BY DEF LineInv
<1>4. e \in Nat
  <2>1. published \in Nat /\ e \in 1..published
    BY <1>3 DEF OrderInv
  <2> QED BY SMTT(30), <2>1
<1>5. PICK f : f = DataFrame(e)
  OBVIOUS
<1>6. f \in Written /\ f.kind = "data" /\ f.n = e
  BY <1>4, <1>5 DEF Written, DataFrame
<1>7. /\ out' \in Seq(Written)
      /\ \A i \in 1..Len(out') : Data(i)' =>
           \/ i \in 1..Len(out) /\ Data(i) /\ out'[i] = out[i]
           \/ i = Len(out) + 1 /\ out'[i] = f /\ f.kind = "data"
      /\ \A i, j \in 1..Len(out') : i < j => i \in 1..Len(out) /\ i # Len(out) + 1
      /\ Emitted' = Emitted \cup {x \in {f.n} : f.kind = "data"}
  BY <1>1, <1>3, <1>5, <1>6, FrameAppended
<1>8. Emitted' = Emitted \cup cur
  BY <1>3, <1>6, <1>7
<1>9. ASSUME NEW i \in 1..Len(out'), NEW j \in 1..Len(out'), i < j, Data(i)', Data(j)'
      PROVE  out'[i].n \in Emitted /\ out'[i].n < out'[j].n
  <2>1. i \in 1..Len(out) /\ Data(i) /\ out'[i] = out[i]
    BY <1>7, <1>9
  <2>2. out'[i].n \in Emitted
    BY <2>1, EmittedIs
  <2>3. CASE j \in 1..Len(out) /\ Data(j) /\ out'[j] = out[j]
    BY <1>3, <1>9, <2>1, <2>2, <2>3
  <2>4. CASE out'[j] = f
    BY <1>3, <1>6, <2>2, <2>4
  <2> QED BY <1>7, <1>9, <2>2, <2>3, <2>4
<1>10. Lost' = Lost
  BY <1>2, <1>8 DEF Lost
<1>11. LineInv'
  BY <1>2, <1>3, <1>7, <1>8, <1>9 DEF LineInv
<1> QED BY <1>2, <1>8, <1>9, <1>10, <1>11

\* A Gap frame leaves the data frames as they are.
LEMMA SinkGapLine ==
  ASSUME LineInv, SinkGap, gap \in Nat
  PROVE  /\ LineInv' /\ Emitted' = Emitted /\ Lost' = Lost
         /\ \A i, j \in 1..Len(out') : i < j /\ Data(i)' /\ Data(j)' =>
              i \in 1..Len(out) /\ j \in 1..Len(out) /\ Data(i) /\ Data(j) /\ out'[i] = out[i]
<1>1. out' = Append(out, GapFrame(gap)) /\ cur' = cur /\ buf' = buf /\ taken' = taken /\ loop = "gap" /\ loop' = "select"
  BY DEF SinkGap, pumpVars
<1>2. PICK f : f = GapFrame(gap)
  OBVIOUS
<1>3. f \in Written /\ f.kind = "gap"
  BY <1>2 DEF Written, GapFrame
<1>4. f.kind # "data" /\ out \in Seq(Written)
  BY <1>3 DEF LineInv
<1>5. /\ out' \in Seq(Written)
      /\ \A i \in 1..Len(out') : Data(i)' =>
           \/ i \in 1..Len(out) /\ Data(i) /\ out'[i] = out[i]
           \/ i = Len(out) + 1 /\ out'[i] = f /\ f.kind = "data"
      /\ Emitted' = Emitted \cup {x \in {f.n} : f.kind = "data"}
  BY <1>1, <1>2, <1>3, <1>4, FrameAppended
<1>6. Emitted' = Emitted
  BY <1>4, <1>5
<1>7. \A i \in 1..Len(out') : Data(i)' => i \in 1..Len(out) /\ Data(i) /\ out'[i] = out[i]
  BY <1>4, <1>5
<1>8. cur = {}
  BY <1>1 DEF LineInv
<1>9. LineInv'
  BY <1>1, <1>5, <1>6, <1>7, <1>8 DEF LineInv
<1>10. Lost' = Lost
  BY <1>1, <1>6 DEF Lost
<1> QED BY <1>6, <1>7, <1>9, <1>10

-----------------------------------------------------------------------------
(* Counting the losses *)

LEMMA LostFinite ==
  ASSUME OrderInv
  PROVE  /\ IsFiniteSet(Lost) /\ Cardinality(Lost) \in Nat
         /\ \A n : Cardinality(LostBefore(n)) \in Nat /\ Cardinality(LostBefore(n)) <= Cardinality(Lost)
<1>1. IsFiniteSet(1..published)
  <2>1. 1 \in Int /\ published \in Int
    BY SMTT(30) DEF OrderInv
  <2> QED BY <2>1, FS_Interval
<1>2. Lost \in SUBSET (1..published)
  BY DEF OrderInv, Lost
<1>3. IsFiniteSet(Lost)
  BY <1>1, <1>2, FS_Subset
<1>4. ASSUME NEW n PROVE Cardinality(LostBefore(n)) \in Nat /\ Cardinality(LostBefore(n)) <= Cardinality(Lost)
  <2>1. LostBefore(n) \in SUBSET Lost
    BY DEF LostBefore
  <2> QED BY <1>3, <2>1, FS_Subset, FS_CardinalityType
<1> QED BY <1>3, <1>4, FS_CardinalityType

LEMMA LostSame ==
  ASSUME Lost' = Lost, NEW n
  PROVE  LostBefore(n)' = LostBefore(n)
BY DEF LostBefore

LEMMA CountStarts == StreamInit => CountInv
<1> SUFFICES ASSUME StreamInit PROVE CountInv
  OBVIOUS
<1>1. /\ taken = {} /\ dropped = 0 /\ gap = 0 /\ told = 0 /\ cur = {} /\ out = <<>> /\ pump = "receive" /\ loop = "swap"
      /\ Emitted = {} /\ Range(buf) = {}
  BY LineStarts DEF StreamInit
<1>2. Lost = {} /\ Cardinality({}) = 0
  BY <1>1, FS_EmptySet DEF Lost
<1>3. 0 \in Nat /\ 0 = 0 + 0 + 0 + 0 /\ \A i \in 1..Len(<<>>) : FALSE
  BY SMTT(30)
<1>4. (IF pump = "drop" THEN 1 ELSE 0) = 0
  BY <1>1
<1> QED BY <1>1, <1>2, <1>3, <1>4 DEF CountInv

\* Steps that leave what the loop and the pump hold.
LEMMA CountAlone ==
  ASSUME CountInv, Lost' = Lost, Emitted' = Emitted, cur' \cup Range(buf') \subseteq cur \cup Range(buf),
         UNCHANGED <<dropped, gap, told, out>>, pump' = "drop" <=> pump = "drop",
         loop' = loop \/ (loop' \in {"data", "beat"} /\ loop = "select") \/ loop' = "ended"
                      \/ (loop = "beat" /\ loop' = "swap")
  PROVE  CountInv'
<1>1. \A n : LostBefore(n)' = LostBefore(n)
  BY LostSame
<1>2. \A i : Data(i)' <=> Data(i)
  BY DEF Data
<1>3. Cardinality(Lost)' = told + gap + dropped + (IF pump' = "drop" THEN 1 ELSE 0)
  BY DEF CountInv
<1>4. \A n \in Emitted \cup cur' \cup Range(buf') : Cardinality(LostBefore(n)') <= told + gap + dropped
  BY <1>1 DEF CountInv
<1>5. loop' \in {"swap", "select", "data", "beat"} => gap = 0
  BY DEF CountInv
<1>6. loop' \in {"gap", "select", "data", "beat"} => loop \in {"gap", "select", "data", "beat"}
  OBVIOUS
<1>7. loop' \in {"gap", "select", "data", "beat"} => \A n \in Emitted : Cardinality(LostBefore(n)') <= told + gap
  BY <1>1, <1>6 DEF CountInv
<1>8. \A i, j \in 1..Len(out) : i < j /\ Data(i) /\ Data(j) => Cardinality(LostBefore(out[i].n)') <= told
  BY <1>1 DEF CountInv
<1> QED BY <1>1, <1>2, <1>3, <1>4, <1>5, <1>7, <1>8 DEF CountInv

\* The pump takes an event: into the buffer, where every loss so far is in
\* the counter or beyond, or into the losses, where it is newer than all
\* that has left the pump.
LEMMA PumpCount ==
  ASSUME OrderInv, LineInv, CountInv, PumpReceive
  PROVE  LineInv' /\ CountInv'
<1>1. /\ pump = "receive" /\ UNCHANGED <<dropped, gap, told, out, cur, loop>>
      /\ dropped \in Nat /\ gap \in Nat /\ told \in Nat
  BY DEF PumpReceive, loopVars, CountInv
<1>2. \A i : Data(i)' <=> Data(i)
  BY <1>1 DEF Data
<1>3. Emitted' = Emitted
  BY <1>1 DEF Emitted, Data
<1>4. CASE UNCHANGED pumpVars
  <2>1. UNCHANGED <<pump, buf, taken>>
    BY <1>4 DEF pumpVars
  <2>2. Lost' = Lost
    BY <1>1, <1>3, <2>1 DEF Lost
  <2>3. LineInv'
    BY <1>1, <1>2, <1>3, <2>1 DEF LineInv
  <2> QED BY <1>1, <1>3, <2>1, <2>2, <2>3, CountAlone
<1>5. ASSUME NEW e \in hand, taken' = taken \cup {e}, buf' = Append(buf, e), pump' = pump
      PROVE  LineInv' /\ CountInv'
  <2>1. /\ LineInv' /\ \A n \in Emitted \cup cur \cup Range(buf) : n < e
        /\ Lost' = Lost /\ Range(buf') = Range(buf) \cup {e}
    BY <1>1, <1>5, PumpLine
  <2>2. \A n : LostBefore(n)' = LostBefore(n)
    BY <2>1, LostSame
  <2>3. Cardinality(Lost) = told + gap + dropped
    <3>1. (IF pump = "drop" THEN 1 ELSE 0) = 0
      BY <1>1
    <3> QED BY SMTT(30), <1>1, <3>1 DEF CountInv
  <2>4. Cardinality(LostBefore(e)) <= told + gap + dropped
    BY <2>3, LostFinite
  <2>5. \A n \in Emitted \cup cur \cup Range(buf') : Cardinality(LostBefore(n)) <= told + gap + dropped
    BY <2>1, <2>4 DEF CountInv
  <2> QED BY <1>1, <1>2, <1>3, <1>5, <2>1, <2>2, <2>5 DEF CountInv
<1>6. ASSUME NEW e \in hand, taken' = taken \cup {e}, buf' = buf, pump' = "drop"
      PROVE  LineInv' /\ CountInv'
  <2>1. /\ LineInv' /\ \A n \in Emitted \cup cur \cup Range(buf) : n < e
        /\ Lost' = Lost \cup {e} /\ e \notin Lost
    BY <1>1, <1>6, PumpLine
  <2>2. Cardinality(Lost') = Cardinality(Lost) + 1
    BY <2>1, LostFinite, FS_AddElement
  <2>3. Cardinality(Lost') = told + gap + dropped + 1
    <3>1. (IF pump = "drop" THEN 1 ELSE 0) = 0
      BY <1>1
    <3>2. Cardinality(Lost) = told + gap + dropped + 0
      BY <3>1 DEF CountInv
    <3> QED BY SMTT(30), <1>1, <2>2, <3>2
  <2>4. (IF pump' = "drop" THEN 1 ELSE 0) = 1
    BY <1>6
  <2>5. Emitted \cup cur \cup Range(buf) \subseteq Nat /\ e \in Nat
    <3>1. published \in Nat /\ taken \subseteq 1..published /\ e \in Nat
      BY DEF OrderInv
    <3>2. 1..published \subseteq Nat
      BY SMTT(30), <3>1
    <3> QED BY <3>1, <3>2 DEF LineInv
  <2>6. ASSUME NEW n \in Emitted \cup cur \cup Range(buf) PROVE LostBefore(n)' = LostBefore(n)
    <3>1. ~(e < n)
      BY SMTT(30), <2>1, <2>5
    <3> QED BY <2>1, <3>1 DEF LostBefore
  <2>7. \A i \in 1..Len(out) : Data(i) => out[i].n \in Emitted
    BY EmittedIs
  <2>8. \A i, j \in 1..Len(out) : i < j /\ Data(i) /\ Data(j) => Cardinality(LostBefore(out[i].n)') <= told
    <3> SUFFICES ASSUME NEW i \in 1..Len(out), NEW j \in 1..Len(out), i < j, Data(i), Data(j)
                 PROVE  Cardinality(LostBefore(out[i].n)') <= told
      OBVIOUS
    <3>1. PICK n \in Emitted : n = out[i].n
      BY <2>7
    <3>2. LostBefore(n)' = LostBefore(n) /\ out'[i].n = n
      BY <1>1, <2>6, <3>1
    <3>3. LostBefore(out[i].n)' = LostBefore(out[i].n)
      BY <3>1, <3>2 DEF LostBefore
    <3> QED BY <3>3 DEF CountInv
  <2>9. \A n \in Emitted \cup cur \cup Range(buf) : Cardinality(LostBefore(n)') <= told + gap + dropped
    BY <2>6 DEF CountInv
  <2>10. loop \in {"gap", "select", "data", "beat"} => \A n \in Emitted : Cardinality(LostBefore(n)') <= told + gap
    BY <2>6 DEF CountInv
  <2> QED BY <1>1, <1>2, <1>3, <1>6, <2>1, <2>3, <2>4, <2>8, <2>9, <2>10 DEF CountInv
<1> QED BY <1>4, <1>5, <1>6 DEF PumpReceive

\* The drop is counted.
LEMMA DropCount ==
  ASSUME OrderInv, CountInv, PumpDrop
  PROVE  CountInv'
<1>1. /\ pump = "drop" /\ pump' = "receive" /\ dropped' = dropped + 1 /\ UNCHANGED <<gap, told, out, cur, loop, buf, taken>>
      /\ dropped \in Nat /\ gap \in Nat /\ told \in Nat
  BY DEF PumpDrop, loopVars, CountInv
<1>2. (\A i : Data(i)' <=> Data(i)) /\ Emitted' = Emitted
  BY <1>1 DEF Data, Emitted
<1>3. Lost' = Lost
  BY <1>1, <1>2 DEF Lost
<1>4. \A n : LostBefore(n)' = LostBefore(n)
  BY <1>3, LostSame
<1>5. (IF pump = "drop" THEN 1 ELSE 0) = 1 /\ (IF pump' = "drop" THEN 1 ELSE 0) = 0
  BY <1>1
<1>6. Cardinality(Lost) = told + gap + dropped + 1
  BY <1>5 DEF CountInv
<1>7. Cardinality(Lost) = told + gap + dropped' + 0 /\ dropped' \in Nat
  BY SMTT(30), <1>1, <1>6
<1>8. \A n \in Emitted \cup cur \cup Range(buf) : Cardinality(LostBefore(n)) <= told + gap + dropped'
  <2> TAKE n \in Emitted \cup cur \cup Range(buf)
  <2>1. Cardinality(LostBefore(n)) \in Nat /\ Cardinality(LostBefore(n)) <= told + gap + dropped
    BY LostFinite DEF CountInv
  <2> QED BY SMTT(30), <1>1, <2>1
<1> QED BY <1>1, <1>2, <1>3, <1>4, <1>5, <1>7, <1>8 DEF CountInv

\* The loop takes over the counter: what was in it is in its hand.
LEMMA SwapCount ==
  ASSUME OrderInv, CountInv, Swap
  PROVE  CountInv'
<1>1. /\ loop = "swap" /\ gap' = dropped /\ dropped' = 0 /\ UNCHANGED <<told, out, cur, buf, taken, pump>>
      /\ loop' = IF dropped > 0 THEN "gap" ELSE "select"
      /\ dropped \in Nat /\ gap \in Nat /\ told \in Nat /\ gap = 0
  BY DEF Swap, pumpVars, CountInv
<1>2. (\A i : Data(i)' <=> Data(i)) /\ Emitted' = Emitted
  BY <1>1 DEF Data, Emitted
<1>3. Lost' = Lost
  BY <1>1, <1>2 DEF Lost
<1>4. \A n : LostBefore(n)' = LostBefore(n)
  BY <1>3, LostSame
<1>5. dropped' \in Nat /\ told + gap + dropped = told + gap' + dropped' /\ told + gap + dropped = told + gap'
  BY SMTT(30), <1>1
<1>6. loop' \in {"swap", "select", "data", "beat"} => gap' = 0
  <2>1. dropped > 0 \/ dropped = 0
    BY SMTT(30), <1>1
  <2> QED BY <1>1, <2>1
<1> QED BY <1>1, <1>2, <1>3, <1>4, <1>5, <1>6 DEF CountInv

\* The Gap frame tells what was in the loop's hand.
LEMMA GapCount ==
  ASSUME OrderInv, LineInv, CountInv, SinkGap
  PROVE  LineInv' /\ CountInv'
<1>1. /\ loop = "gap" /\ loop' = "select" /\ gap' = 0 /\ told' = told + gap /\ UNCHANGED <<dropped, cur, buf, taken, pump>>
      /\ dropped \in Nat /\ gap \in Nat /\ told \in Nat
  BY DEF SinkGap, pumpVars, CountInv
<1>2. /\ LineInv' /\ Emitted' = Emitted /\ Lost' = Lost
      /\ \A i, j \in 1..Len(out') : i < j /\ Data(i)' /\ Data(j)' =>
           i \in 1..Len(out) /\ j \in 1..Len(out) /\ Data(i) /\ Data(j) /\ out'[i] = out[i]
  BY <1>1, SinkGapLine
<1>3. \A n : LostBefore(n)' = LostBefore(n)
  BY <1>2, LostSame
<1>4. /\ gap' \in Nat /\ told' \in Nat /\ told + gap = told' + gap' /\ told + gap + dropped = told' + gap' + dropped
      /\ told <= told'
  BY SMTT(30), <1>1
<1>5. ASSUME NEW i \in 1..Len(out'), NEW j \in 1..Len(out'), i < j, Data(i)', Data(j)'
      PROVE  Cardinality(LostBefore(out'[i].n)) <= told'
  <2>1. PICK k : k = Cardinality(LostBefore(out[i].n))
    OBVIOUS
  <2>2. k \in Nat /\ k <= told
    BY <1>2, <1>5, <2>1, LostFinite DEF CountInv
  <2>3. k <= told'
    BY SMTT(30), <1>1, <2>2
  <2> QED BY <1>2, <1>5, <2>1, <2>3
<1> QED BY <1>1, <1>2, <1>3, <1>4, <1>5 DEF CountInv

\* An event is written: the losses before those written earlier are told.
LEMMA DataCount ==
  ASSUME OrderInv, LineInv, CountInv, SinkData
  PROVE  LineInv' /\ CountInv'
<1>1. /\ loop = "data" /\ loop' = "swap" /\ UNCHANGED <<gap, told, dropped, pump>>
      /\ dropped \in Nat /\ gap \in Nat /\ told \in Nat /\ gap = 0
  BY DEF SinkData, pumpVars, CountInv
<1>2. /\ LineInv' /\ Emitted' = Emitted \cup cur /\ Lost' = Lost /\ cur' = {} /\ Range(buf') = Range(buf)
      /\ \A i, j \in 1..Len(out') : i < j /\ Data(i)' /\ Data(j)' => out'[i].n \in Emitted
  BY SinkDataLine
<1>3. \A n : LostBefore(n)' = LostBefore(n)
  BY <1>2, LostSame
<1>4. told + gap = told
  BY SMTT(30), <1>1
<1>5. \A n \in Emitted : Cardinality(LostBefore(n)) <= told
  BY <1>1, <1>4 DEF CountInv
<1> QED BY <1>1, <1>2, <1>3, <1>5 DEF CountInv

LEMMA StreamStep == StreamInv /\ [StreamNext]_streamVars => StreamInv'
<1> SUFFICES ASSUME OrderInv, LineInv, CountInv, [StreamNext]_streamVars PROVE LineInv' /\ CountInv'
  BY OrderStep DEF StreamInv
<1>1. CASE PumpReceive
  BY <1>1, PumpCount
<1>2. CASE SinkGap
  BY <1>2, GapCount
<1>3. CASE SinkData
  BY <1>3, DataCount
<1>4. CASE Take
  <2>1. UNCHANGED <<dropped, gap, told, out, pump>> /\ loop = "select" /\ loop' = "data"
    BY <1>4 DEF Take
  <2>2. LineInv' /\ Emitted' = Emitted /\ Lost' = Lost /\ cur' \cup Range(buf') \subseteq cur \cup Range(buf)
    BY <1>4, TakeLine
  <2> QED BY <2>1, <2>2, CountAlone
<1>5. ASSUME UNCHANGED <<buf, taken, cur, out>> PROVE Emitted' = Emitted /\ Lost' = Lost /\ \A i : Data(i)' <=> Data(i)
  <2>1. Emitted' = Emitted /\ \A i : Data(i)' <=> Data(i)
    BY <1>5 DEF Emitted, Data
  <2> QED BY <1>5, <2>1 DEF Lost
<1>6. ASSUME UNCHANGED <<buf, taken, cur, out>>, loop' = loop \/ loop' = "ended" \/ loop \in {"swap", "select", "beat"}
      PROVE  LineInv'
  <2>1. cur # {} => loop' \in {"data", "ended"}
    BY <1>6 DEF LineInv
  <2> QED BY <1>5, <1>6, <2>1 DEF LineInv
<1>7. CASE PumpDrop
  <2>1. UNCHANGED <<buf, taken, cur, out, loop>>
    BY <1>7 DEF PumpDrop, loopVars
  <2> QED BY <1>6, <1>7, <2>1, DropCount
<1>8. CASE Swap
  <2>1. UNCHANGED <<buf, taken, cur, out>> /\ loop = "swap"
    BY <1>8 DEF Swap, pumpVars
  <2> QED BY <1>6, <1>8, <2>1, SwapCount
<1>9. ASSUME UNCHANGED <<buf, taken, cur, out, dropped, gap, told>>, pump' = "drop" <=> pump = "drop",
             loop' = loop \/ (loop' = "beat" /\ loop = "select") \/ loop' = "ended" \/ (loop = "beat" /\ loop' = "swap")
      PROVE  LineInv' /\ CountInv'
  <2>1. LineInv'
    BY <1>6, <1>9
  <2>2. Emitted' = Emitted /\ Lost' = Lost /\ cur' \cup Range(buf') \subseteq cur \cup Range(buf)
    BY <1>5, <1>9
  <2> QED BY <1>9, <2>1, <2>2, CountAlone
<1>10. CASE Publish \/ SubscriptionDrops \/ HangUp \/ Cancel \/ BusReceive \/ BusEnd \/ UNCHANGED streamVars
  <2>1. UNCHANGED <<buf, taken, cur, out, dropped, gap, told, pump, loop>>
    BY <1>10 DEF Publish, SubscriptionDrops, HangUp, Cancel, BusReceive, BusEnd, streamVars, pumpVars, loopVars
  <2> QED BY <1>9, <2>1
<1>11. CASE PumpEnd
  <2>1. UNCHANGED <<buf, taken, cur, out, dropped, gap, told, loop>> /\ pump = "receive" /\ pump' = "ended"
    BY <1>11 DEF PumpEnd, loopVars
  <2> QED BY <1>9, <2>1
<1>12. CASE Tick
  <2>1. UNCHANGED <<buf, taken, cur, out, dropped, gap, told, pump>> /\ loop = "select" /\ loop' = "beat"
    BY <1>12 DEF Tick, pumpVars
  <2> QED BY <1>9, <2>1
<1>13. CASE SinkHeartbeat
  <2>1. UNCHANGED <<buf, taken, cur, out, dropped, gap, told, pump>> /\ loop = "beat" /\ loop' = "swap"
    BY <1>13 DEF SinkHeartbeat, pumpVars
  <2> QED BY <1>9, <2>1
<1>14. CASE StreamEventsReturn
  <2>1. UNCHANGED <<buf, taken, cur, out, dropped, gap, told, pump>> /\ loop' = "ended"
    BY <1>14 DEF StreamEventsReturn, pumpVars
  <2> QED BY <1>9, <2>1
<1> QED BY <1>1, <1>2, <1>3, <1>4, <1>7, <1>8, <1>10, <1>11, <1>12, <1>13, <1>14 DEF StreamNext, Bus, Pump, Sink

LEMMA StreamStarts == StreamInit => StreamInv
BY OrderStarts, LineStarts, CountStarts DEF StreamInv

LEMMA StreamInvShows == StreamInv => FramesHonest
<1> SUFFICES ASSUME OrderInv, LineInv, CountInv PROVE FramesHonest
  BY DEF StreamInv
<1>1. Emitted \cup cur \cup Range(buf) \subseteq Matching \ Undecodable
  BY DEF OrderInv, LineInv
<1> QED BY <1>1 DEF FramesHonest, LineInv, CountInv

-----------------------------------------------------------------------------
(* The views together *)

ViewsInv == StreamInv /\ TailInv /\ SearchInv

LEMMA ViewsStart == ViewsInit => ViewsInv
<1> SUFFICES ASSUME ViewsInit PROVE ViewsInv
  OBVIOUS
<1>1. StreamInv
  BY StreamStarts DEF ViewsInit
<1>2. TailInv
  <2>1. (view = "tail") \in BOOLEAN
    OBVIOUS
  <2> QED BY <2>1, TailStarts DEF ViewsInit
<1>3. SearchInv
  <2>1. EMPTY_SEARCH_FILTERS \in Filters
    BY DEF EMPTY_SEARCH_FILTERS, Filters
  <2>2. PICK f \in Filters : SearchFrom(f)
    BY <2>1 DEF ViewsInit, SearchInit
  <2> QED BY <2>2, SearchFromStarts
<1> QED BY <1>1, <1>2, <1>3 DEF ViewsInv

\* A step of one view leaves the state of the others.
LEMMA ViewsStep == ViewsInv /\ [ViewsNext]_viewsVars => ViewsInv'
<1> SUFFICES ASSUME ViewsInv, [ViewsNext]_viewsVars PROVE ViewsInv'
  OBVIOUS
<1>1. [StreamNext]_streamVars
  BY DEF ViewsNext, viewsVars, OnStream, OnTail, OnSearch
<1>2. [TailNext]_tailVars
  BY DEF ViewsNext, viewsVars, OnStream, OnTail, OnSearch
<1>3. [SearchNext]_searchVars
  BY DEF ViewsNext, viewsVars, OnStream, OnTail, OnSearch
<1> QED BY <1>1, <1>2, <1>3, StreamStep, TailStep, SearchStep DEF ViewsInv

\* The invariant holds of every reachable state of the explorer's views.
THEOREM ViewsInvariance == ViewsSpec => []ViewsInv
BY ViewsStart, ViewsStep, PTL DEF ViewsSpec

\* FramesHonest, for every buffer size, filter and number of events, and every
\* interleaving of Subscribe, pump and loop: the losses are counted exactly,
\* told before a second newer event is written, and the data frames keep the
\* order of publication (tail.go:148-216).
THEOREM FramesAreHonest == ViewsSpec => []FramesHonest
<1>1. ViewsInv => FramesHonest
  BY StreamInvShows DEF ViewsInv
<1> QED BY <1>1, ViewsInvariance, PTL

\* NothingLeaks, for every number of connections and attempts: the hook never
\* holds two EventSources, or one beside a reconnect timer, and holds neither
\* when it is paused, offline or gone (use-log-tail.ts:127-271).
THEOREM TailLeaksNothing == ViewsSpec => []NothingLeaks
<1>1. ViewsInv => NothingLeaks
  BY DEF ViewsInv, TailInv
<1> QED BY <1>1, ViewsInvariance, PTL

\* ScrollbackHonest, for every ring size and number of connections: lines of
\* two connections are never shown side by side without the marker of the
\* hole between them, and the scrollback is the newest of what was received
\* (use-log-tail.ts:92-190).
THEOREM ScrollbackIsHonest == ViewsSpec => []ScrollbackHonest
<1>1. ViewsInv => ScrollbackHonest
  BY DEF ViewsInv, TailInv
<1> QED BY <1>1, ViewsInvariance, PTL

\* OneResultSet, for every page size, ceiling, set of stored events and
\* filters: the list on screen answers one search, newest first, and has no
\* hole where its pages meet, whatever is stored meanwhile and however late
\* the answers of replaced searches come (use-log-search.ts:60-131,
\* logstore.go:216-293).
THEOREM ShowsOneResultSet == ViewsSpec => []OneResultSet
<1>1. ViewsInv => OneResultSet
  BY SearchInvShows DEF ViewsInv
<1> QED BY <1>1, ViewsInvariance, PTL
=============================================================================
