-------------------------- MODULE HttpServerProofs --------------------------
(***************************************************************************)
(* Proofs about HttpServer, for any buffer, any file, any ranges, any      *)
(* program output and any number of requests.                              *)
(***************************************************************************)
EXTENDS HttpServer, SequenceTheorems, WellFoundedInduction, TLAPS

Token == Nat \X {"head", "body"} \X Int \X Int
Flag == {"CLOSE_IMMEDIATELY", "SEND_AND_CLOSE", "USER_1"}
Conn == [st : {"open", "closed"}, flags : SUBSET Flag, recv : Requests \cup {NoReq}, send : Seq(Token)]
File == [type : {"DATA_FILE"}, req : Nat, cl : Nat, sent : Nat, pos : 0 .. MaxSize]

\* Every variable has its type, and a file's announced length is not exceeded.
Shape ==
    /\ nc \in Conn
    /\ pd \in File \cup {NoData}
    /\ pd # NoData => pd.req \in 1 .. asked.n /\ pd.sent <= pd.cl
    /\ cgi \in [st : {"none", "open", "closed"}, flags : SUBSET {"CLOSE_IMMEDIATELY"}, got : Nat, fwd : Nat]
    /\ proc \in [st : {"none", "runs", "exited"}, wrote : Nat, hdr : Nat \ {0}, bad : BOOLEAN]
    /\ cgi.fwd <= cgi.got /\ cgi.got <= proc.wrote
    /\ out \in Seq(Token)
    /\ asked \in [q : Requests \cup {NoReq}, n : 0 .. MaxReq, size : 0 .. MaxSize]
    /\ size \in 0 .. MaxSize
    /\ gone \in BOOLEAN /\ crashed \in BOOLEAN

-----------------------------------------------------------------------------
(* Sequences of tokens                                                     *)

\* head() makes a token.
LEMMA HeadToken == ASSUME NEW i \in Nat, NEW s \in Nat, NEW n \in Int
                   PROVE  /\ head(i, s, n) \in Token /\ <<head(i, s, n)>> \in Seq(Token)
                          /\ Len(<<head(i, s, n)>>) = 1 /\ <<head(i, s, n)>>[1] = head(i, s, n)
<1>1. head(i, s, n) \in Token BY SMT DEF head, Token
<1>2. QED BY <1>1, SMT

\* body() makes a sequence of as many tokens as the interval has units.
LEMMA BodyTokens ==
    ASSUME NEW i \in Nat, NEW a \in Int, NEW b \in Int, a <= b + 1
    PROVE  /\ body(i, a, b) \in Seq(Token) /\ Len(body(i, a, b)) = b - a + 1
           /\ \A k \in 1 .. b - a + 1 : body(i, a, b)[k] = <<i, "body", a + k - 1, 0>>
<1>1. \A k \in 1 .. b - a + 1 : <<i, "body", a + k - 1, 0>> \in Token BY SMT DEF Token
<1>2. b - a + 1 \in Nat BY SMT
<1>3. QED BY <1>1, <1>2, SMT DEF body

\* The k units from p.
LEMMA BodyRun ==
    ASSUME NEW i \in Nat, NEW p \in Int, NEW k \in Nat
    PROVE  body(i, p, p + k - 1) \in Seq(Token) /\ Len(body(i, p, p + k - 1)) = k
<1>1. PICK b \in Int : b = p + k - 1 BY SMT
<1>2. p <= b + 1 /\ b - p + 1 = k BY <1>1, SMT
<1>3. body(i, p, b) \in Seq(Token) /\ Len(body(i, p, b)) = b - p + 1 BY Zenon, <1>2, BodyTokens
<1>4. QED BY Zenon, <1>1, <1>2, <1>3

\* An empty interval has no tokens.
LEMMA BodyEmpty == ASSUME NEW i \in Nat, NEW a \in Int PROVE body(i, a, a - 1) = <<>>
<1>1. body(i, a, a - 1) \in Seq(Token) /\ Len(body(i, a, a - 1)) = 0
  <2>1. a - 1 \in Int /\ a <= (a - 1) + 1 /\ (a - 1) - a + 1 = 0 BY SMT
  <2>2. QED BY Zenon, <2>1, BodyTokens
<1>2. QED BY <1>1, EmptySeq, SMT

\* Two adjacent pieces of a body make one.
LEMMA BodyJoin ==
    ASSUME NEW i \in Nat, NEW a \in Int, NEW b \in Int, NEW c \in Int, a <= b + 1, b <= c
    PROVE  body(i, a, b) \o body(i, b + 1, c) = body(i, a, c)
<1> DEFINE s == body(i, a, b)  t == body(i, b + 1, c)  u == body(i, a, c)
<1>1. /\ s \in Seq(Token) /\ Len(s) = b - a + 1
      /\ \A k \in 1 .. b - a + 1 : s[k] = <<i, "body", a + k - 1, 0>>
  BY Zenon, BodyTokens
<1>2. /\ t \in Seq(Token) /\ Len(t) = c - b
      /\ \A k \in 1 .. c - b : t[k] = <<i, "body", b + k, 0>>
  <2>1. b + 1 \in Int /\ b + 1 <= c + 1 /\ c - (b + 1) + 1 = c - b /\ \A k \in Int : b + 1 + k - 1 = b + k BY SMT
  <2>2. /\ t \in Seq(Token) /\ Len(t) = c - (b + 1) + 1
        /\ \A k \in 1 .. c - (b + 1) + 1 : t[k] = <<i, "body", (b + 1) + k - 1, 0>>
    BY Zenon, <2>1, BodyTokens
  <2>3. QED BY <2>1, <2>2, SMT
<1>3. /\ u \in Seq(Token) /\ Len(u) = c - a + 1
      /\ \A k \in 1 .. c - a + 1 : u[k] = <<i, "body", a + k - 1, 0>>
  <2>1. a <= c + 1 BY SMT
  <2>2. QED BY Zenon, <2>1, BodyTokens
<1> HIDE DEF s, t, u
<1>4. /\ s \o t \in Seq(Token) /\ Len(s \o t) = Len(s) + Len(t)
      /\ \A k \in 1 .. Len(s) + Len(t) : (s \o t)[k] = IF k <= Len(s) THEN s[k] ELSE t[k - Len(s)]
  BY Zenon, <1>1, <1>2, ConcatProperties
<1>5. ASSUME NEW k \in 1 .. c - a + 1 PROVE (s \o t)[k] = u[k]
  <2>1. CASE k <= b - a + 1
    <3>1. k \in 1 .. b - a + 1 BY <2>1, SMT
    <3>a. k \in 1 .. Len(s) + Len(t) /\ k <= Len(s) BY <2>1, <1>1, <1>2, SMT
    <3>2. (s \o t)[k] = s[k] BY Zenon, <3>a, <1>4
    <3>3. QED BY Zenon, <3>1, <3>2, <1>1, <1>3
  <2>2. CASE ~(k <= b - a + 1)
    <3>1. k - Len(s) \in 1 .. c - b /\ b + (k - Len(s)) = a + k - 1 BY <2>2, <1>1, SMT
    <3>a. k \in 1 .. Len(s) + Len(t) /\ ~(k <= Len(s)) BY <2>2, <1>1, <1>2, SMT
    <3>2. (s \o t)[k] = t[k - Len(s)] BY Zenon, <3>a, <1>4
    <3>3. t[k - Len(s)] = <<i, "body", a + k - 1, 0>> BY Zenon, <3>1, <1>2
    <3>4. QED BY Zenon, <3>2, <3>3, <1>3
  <2>3. QED BY Zenon, <2>1, <2>2
<1>6. Len(s \o t) = Len(u) BY <1>1, <1>2, <1>3, <1>4, SMT
<1>7. s \o t = u BY Zenon, <1>3, <1>4, <1>5, <1>6, SeqEqual
<1>8. QED BY Zenon, <1>7 DEF s, t, u

\* The first k units of a response with head h and a body that starts at a.
Part(h, i, a, k) == <<h>> \o body(i, a, a + k - 1)

\* A part is its head and k units.
LEMMA PartIs ==
    ASSUME NEW h \in Token, NEW i \in Nat, NEW a \in Int, NEW k \in Nat
    PROVE  /\ Part(h, i, a, k) \in Seq(Token) /\ Len(Part(h, i, a, k)) = k + 1
           /\ Part(h, i, a, k)[1] = h
           /\ Tail(Part(h, i, a, k)) = body(i, a, a + k - 1)
<1> DEFINE t == body(i, a, a + k - 1)
<1>1. a + k - 1 \in Int /\ a <= (a + k - 1) + 1 /\ (a + k - 1) - a + 1 = k BY SMT
<1>2. t \in Seq(Token) /\ Len(t) = (a + k - 1) - a + 1 BY Zenon, <1>1, BodyTokens
<1>3. Len(t) = k BY <1>1, <1>2, SMT
<1> HIDE DEF t
<1>4. <<h>> \in Seq(Token) /\ Len(<<h>>) = 1 /\ <<h>>[1] = h BY SMT
<1>5. /\ <<h>> \o t \in Seq(Token) /\ Len(<<h>> \o t) = Len(<<h>>) + Len(t)
      /\ \A j \in 1 .. Len(<<h>>) + Len(t) : (<<h>> \o t)[j] = IF j <= Len(<<h>>) THEN <<h>>[j] ELSE t[j - Len(<<h>>)]
  BY Zenon, <1>2, <1>4, ConcatProperties
<1>6. Len(<<h>> \o t) = k + 1 BY <1>3, <1>4, <1>5, SMT
<1>7. 1 \in 1 .. Len(<<h>>) + Len(t) /\ 1 <= Len(<<h>>) BY <1>3, <1>4, SMT
<1>8. (<<h>> \o t)[1] = h BY Zenon, <1>4, <1>5, <1>7
<1>9. <<h>> \o t # <<>> BY <1>5, <1>6, SMT
<1>10. /\ Tail(<<h>> \o t) \in Seq(Token) /\ Len(Tail(<<h>> \o t)) = Len(<<h>> \o t) - 1
       /\ \A j \in 1 .. Len(Tail(<<h>> \o t)) : Tail(<<h>> \o t)[j] = (<<h>> \o t)[j + 1]
  BY Zenon, <1>5, <1>9, HeadTailProperties
<1>11. Len(Tail(<<h>> \o t)) = Len(t) BY <1>3, <1>6, <1>10, SMT
<1>12. ASSUME NEW j \in 1 .. Len(Tail(<<h>> \o t)) PROVE Tail(<<h>> \o t)[j] = t[j]
  <2>1. j + 1 \in 1 .. Len(<<h>>) + Len(t) /\ ~(j + 1 <= Len(<<h>>)) /\ (j + 1) - Len(<<h>>) = j
    BY <1>3, <1>4, <1>11, SMT
  <2>2. (<<h>> \o t)[j + 1] = t[(j + 1) - Len(<<h>>)] BY Zenon, <2>1, <1>5
  <2>3. QED BY Zenon, <2>1, <2>2, <1>10
<1>13. Tail(<<h>> \o t) = t BY Zenon, <1>2, <1>10, <1>11, <1>12, SeqEqual
<1>14. QED BY Zenon, <1>5, <1>6, <1>8, <1>13 DEF Part, t

Grows(h, i, a, k, j) ==
    Part(h, i, a, k) \o body(i, a + k, (a + k) + j - 1) = Part(h, i, a, k + j)

\* A part grows by the units that come next.
LEMMA PartGrows ==
    ASSUME NEW h \in Token, NEW i \in Nat, NEW a \in Int, NEW k \in Nat, NEW j \in Nat
    PROVE  Grows(h, i, a, k, j)
<1> DEFINE b == a + k - 1  c == (a + k) + j - 1
<1>1. b \in Int /\ c \in Int /\ a <= b + 1 /\ b <= c /\ b + 1 = a + k /\ c = a + (k + j) - 1 BY SMT
<1>2. body(i, a, b) \in Seq(Token) /\ body(i, b + 1, c) \in Seq(Token)
  <2>1. b + 1 \in Int /\ b + 1 <= c + 1 BY <1>1, SMT
  <2>2. QED BY Zenon, <2>1, <1>1, BodyTokens
<1>3. <<h>> \in Seq(Token) BY SMT
<1>4. body(i, a, b) \o body(i, b + 1, c) = body(i, a, c) BY Zenon, <1>1, BodyJoin
<1>5. (<<h>> \o body(i, a, b)) \o body(i, b + 1, c) = <<h>> \o (body(i, a, b) \o body(i, b + 1, c))
  <2> DEFINE s == <<h>>  t == body(i, a, b)  u == body(i, b + 1, c)
  <2>1. s \in Seq(Token) /\ t \in Seq(Token) /\ u \in Seq(Token) BY Zenon, <1>2, <1>3
  <2> HIDE DEF s, t, u
  <2>2. (s \o t) \o u = s \o (t \o u) BY SMTT(30), <2>1
  <2>3. QED BY Zenon, <2>2 DEF s, t, u
<1>6. QED BY Zenon, <1>1, <1>4, <1>5 DEF Grows, Part

\* A part without units is the head.
LEMMA PartNone ==
    ASSUME NEW h \in Token, NEW i \in Nat, NEW a \in Int
    PROVE  Part(h, i, a, 0) = <<h>>
<1>1. a + 0 - 1 = a - 1 BY SMT
<1>2. body(i, a, a + 0 - 1) = <<>> BY Zenon, <1>1, BodyEmpty
<1>3. <<h>> \in Seq(Token) BY SMT
<1>4. QED BY Zenon, <1>2, <1>3, ConcatEmptySeq DEF Part

\* Some first units of those k.
Some(h, i, a, k, s) == \E l \in 0 .. k : s = Part(h, i, a, l)

\* What comes first of a part is a part.
LEMMA PartFirst ==
    ASSUME NEW h \in Token, NEW i \in Nat, NEW a \in Int, NEW k \in Nat,
           NEW s \in Seq(Token), NEW t \in Seq(Token), s \o t = Part(h, i, a, k), s # <<>>
    PROVE  Some(h, i, a, k, s)
<1> DEFINE l == Len(s) - 1
<1>1. /\ Len(s \o t) = Len(s) + Len(t)
      /\ \A j \in 1 .. Len(s) + Len(t) : (s \o t)[j] = IF j <= Len(s) THEN s[j] ELSE t[j - Len(s)]
  BY Zenon, ConcatProperties
<1>2. Len(s) \in Nat \ {0} /\ Len(t) \in Nat BY Zenon, EmptySeq, LenProperties
<1>3. Part(h, i, a, k) \in Seq(Token) /\ Len(Part(h, i, a, k)) = k + 1 BY Zenon, PartIs
<1>4. l \in 0 .. k /\ l \in Nat /\ k - l \in Nat /\ l + (k - l) = k BY <1>1, <1>2, <1>3, SMT
<1> PICK n \in Nat : l + n = k BY Zenon, <1>4
<1> DEFINE p == Part(h, i, a, l)  q == body(i, a + l, (a + l) + n - 1)
<1>5. p \o q = s \o t
  <2>1. Grows(h, i, a, l, n) BY Zenon, <1>4, PartGrows
  <2>2. QED BY Zenon, <2>1 DEF Grows
<1>6. p \in Seq(Token) /\ Len(p) = l + 1 BY <1>4, PartIs
<1>7. q \in Seq(Token)
  <2>1. a + l \in Int /\ (a + l) + n - 1 \in Int /\ a + l <= ((a + l) + n - 1) + 1 BY <1>4, SMT
  <2>2. QED BY Zenon, <2>1, BodyTokens
<1>8. l + 1 = Len(s) BY <1>2, SMT
<1> HIDE DEF p, q, l
<1>9. \A j \in 1 .. Len(p) + Len(q) : (p \o q)[j] = IF j <= Len(p) THEN p[j] ELSE q[j - Len(p)]
  BY Zenon, <1>6, <1>7, ConcatProperties
<1>10. Len(q) \in Nat BY Zenon, <1>7, LenProperties
<1>11. ASSUME NEW j \in 1 .. Len(s) PROVE s[j] = p[j]
  <2>1. j \in 1 .. Len(s) + Len(t) /\ j <= Len(s) BY <1>2, SMT
  <2>2. j \in 1 .. Len(p) + Len(q) /\ j <= Len(p) BY <1>2, <1>6, <1>8, <1>10, SMT
  <2>3. QED BY Zenon, <2>1, <2>2, <1>1, <1>5, <1>9
<1>12. s = p BY Zenon, <1>6, <1>8, <1>11, SeqEqual
<1>13. QED BY Zenon, <1>4, <1>12 DEF p, l, Some

\* A part is a prefix of a longer part.
LEMMA PartPrefix ==
    ASSUME NEW h \in Token, NEW i \in Nat, NEW a \in Int, NEW k \in Nat, NEW j \in Nat, k <= j
    PROVE  Begins(Part(h, i, a, k), Part(h, i, a, j))
<1> DEFINE p == Part(h, i, a, k)
<1>1. j - k \in Nat /\ k + (j - k) = j BY SMT
<1> PICK n \in Nat : k + n = j BY Zenon, <1>1
<1> DEFINE q == body(i, a + k, (a + k) + n - 1)
<1>2. p \o q = Part(h, i, a, j)
  <2>1. Grows(h, i, a, k, n) BY Zenon, PartGrows
  <2>2. QED BY Zenon, <2>1 DEF Grows
<1>3. p \in Seq(Token) /\ Len(p) = k + 1 BY Zenon, PartIs
<1>4. Len(Part(h, i, a, j)) = j + 1 BY Zenon, PartIs
<1>5. q \in Seq(Token)
  <2>1. a + k \in Int /\ (a + k) + n - 1 \in Int /\ a + k <= ((a + k) + n - 1) + 1 BY SMT
  <2>2. QED BY Zenon, <2>1, BodyTokens
<1> HIDE DEF p, q
<1>6. 1 \in 1 .. Len(p) /\ Len(p) \in 1 .. Len(p) BY <1>3, SMT
<1>7. SubSeq(p \o q, 1, Len(p)) = SubSeq(p, 1, Len(p)) BY Zenon, <1>3, <1>5, <1>6, SubSeqOfConcat1
<1>8. Len(p) <= Len(Part(h, i, a, j)) BY <1>3, <1>4, SMT
<1>9. SubSeq(p, 1, Len(p)) = p BY Zenon, <1>3, SubSeqFull
<1>10. QED BY Zenon, <1>2, <1>7, <1>8, <1>9 DEF Begins, p


-----------------------------------------------------------------------------
(* What a file's response is made of: for a range r of a file of n units,  *)
(* the last unit asked for, whether the range is refused, the status, the  *)
(* first unit and the number of units.                                     *)

To(r, n) == IF Len(r) = 2 THEN r[2] ELSE n - 1
Refused(r, n) == r # NoRange /\ (r[1] > To(r, n) \/ To(r, n) >= n)
Status(r, n) == IF Refused(r, n) THEN 416 ELSE IF r = NoRange THEN 200 ELSE 206
Start(r, n) == IF Refused(r, n) \/ r = NoRange THEN 0 ELSE r[1]
Total(r, n) == IF Refused(r, n) THEN 0 ELSE IF r = NoRange THEN n ELSE To(r, n) - r[1] + 1

\* The first k units of the response to request i.
Served(r, n, i, k) == Part(head(i, Status(r, n), Total(r, n)), i, Start(r, n), k)

\* A range names a first unit.
LEMMA RangeTypes ==
    ASSUME NEW r \in Ranges, r # NoRange, NEW n \in 0 .. MaxSize
    PROVE  r[1] \in Nat /\ To(r, n) \in Int
<1>1. r \in Seq(Nat) /\ Len(r) <= 2 BY Zenon, HttpAssumption
<1>2. MaxSize \in Nat BY Zenon, HttpAssumption
<1>3. Len(r) \in Nat \ {0} BY Zenon, <1>1, EmptySeq DEF NoRange
<1>4. 1 \in 1 .. Len(r) /\ (Len(r) = 2 => 2 \in 1 .. Len(r)) BY <1>1, <1>3, SMT
<1>5. r[1] \in Nat /\ (Len(r) = 2 => r[2] \in Nat) BY Zenon, <1>1, <1>4, ElementOfSeq
<1>6. n - 1 \in Int /\ \A k \in Nat : k \in Int BY <1>2, SMT
<1>7. QED BY Zenon, <1>5, <1>6 DEF To

\* A range that is not refused lies in the file.
LEMMA RangeBounds ==
    ASSUME NEW r \in Ranges, NEW n \in 0 .. MaxSize
    PROVE  /\ Status(r, n) \in {200, 206, 416} /\ Total(r, n) \in Nat /\ Start(r, n) \in 0 .. MaxSize
<1>1. r \in Seq(Nat) /\ Len(r) <= 2 BY Zenon, HttpAssumption
<1>2. MaxSize \in Nat BY Zenon, HttpAssumption
<1>3. Status(r, n) \in {200, 206, 416} BY SMT DEF Status
<1>4. CASE r = NoRange
  <2>1. ~Refused(r, n) BY Zenon, <1>4 DEF Refused
  <2>2. Total(r, n) = n /\ Start(r, n) = 0 BY Zenon, <1>4, <2>1 DEF Total, Start
  <2>3. QED BY <1>2, <1>3, <2>2, SMT
<1>5. CASE Refused(r, n)
  <2>1. Total(r, n) = 0 /\ Start(r, n) = 0 BY Zenon, <1>5 DEF Total, Start
  <2>2. QED BY <1>2, <1>3, <2>1, SMT
<1>6. CASE r # NoRange /\ ~Refused(r, n)
  <2>1. Total(r, n) = To(r, n) - r[1] + 1 /\ Start(r, n) = r[1] BY Zenon, <1>6 DEF Total, Start
  <2>2. r[1] \in Nat /\ To(r, n) \in Int BY Zenon, <1>6, RangeTypes
  <2>5. r[1] <= To(r, n) /\ To(r, n) < n
    <3>1. ~(r[1] > To(r, n) \/ To(r, n) >= n) BY Zenon, <1>6 DEF Refused
    <3>2. QED BY <1>2, <2>2, <3>1, SMT
  <2>6. To(r, n) - r[1] + 1 \in Nat /\ r[1] \in 0 .. MaxSize BY <1>2, <2>2, <2>5, SMT
  <2>7. QED BY Zenon, <1>3, <2>1, <2>6
<1>7. QED BY Zenon, <1>4, <1>5, <1>6

\* The whole response is all of its units.
LEMMA FileIs ==
    ASSUME Shape, asked.q.range \in Ranges
    PROVE  FileResponse = Served(asked.q.range, asked.size, asked.n, Total(asked.q.range, asked.size))
<1> PICK r : r = asked.q.range OBVIOUS
<1> PICK n : n = asked.size OBVIOUS
<1> PICK i : i = asked.n OBVIOUS
<1>0. r \in Ranges BY Zenon
<1>1. n \in 0 .. MaxSize /\ i \in Nat /\ MaxSize \in Nat BY HttpAssumption, SMT DEF Shape
<1>2. r \in Seq(Nat) /\ Len(r) <= 2 BY Zenon, HttpAssumption
<1>3. Status(r, n) \in {200, 206, 416} /\ Total(r, n) \in Nat /\ Start(r, n) \in 0 .. MaxSize BY SMT, <1>0, <1>1, RangeBounds
<1>4. CASE r = NoRange
  <2>1. ~Refused(r, n) BY Zenon, <1>4 DEF Refused
  <2>2. Total(r, n) = n /\ Start(r, n) = 0 /\ Status(r, n) = 200 BY Zenon, <1>4, <2>1 DEF Total, Start, Status
  <2>3. 0 + n - 1 = n - 1 BY <1>1, SMT
  <2>4. FileResponse = <<head(i, 200, n)>> \o body(i, 0, n - 1) BY Zenon, <1>4 DEF FileResponse
  <2>5. QED BY Zenon, <2>2, <2>3, <2>4 DEF Served, Part
<1>5. CASE Refused(r, n)
  <2>1. Total(r, n) = 0 /\ Status(r, n) = 416 BY Zenon, <1>5 DEF Total, Status
  <2>2. r # NoRange /\ ~(r[1] <= To(r, n) /\ To(r, n) < n)
    <3>1. r # NoRange /\ (r[1] > To(r, n) \/ To(r, n) >= n) BY Zenon, <1>5 DEF Refused
    <3>2. r[1] \in Nat /\ To(r, n) \in Int BY Zenon, <1>1, <3>1, RangeTypes
    <3>5. ~(r[1] <= To(r, n) /\ To(r, n) < n) BY <1>1, <3>1, <3>2, SMT
    <3>6. QED BY Zenon, <3>1, <3>5
  <2>3. FileResponse = <<head(i, 416, 0)>> BY Zenon, <2>2 DEF FileResponse, To
  <2>4. head(i, 416, 0) \in Token BY <1>1, HeadToken, SMT
  <2>5. Start(r, n) \in Int BY <1>1, <1>3, SMT
  <2>6. Part(head(i, 416, 0), i, Start(r, n), 0) = <<head(i, 416, 0)>> BY SMT, <1>1, <2>4, <2>5, PartNone
  <2>7. QED BY SMT, <2>1, <2>3, <2>6 DEF Served
<1>6. CASE r # NoRange /\ ~Refused(r, n)
  <2>1. /\ Total(r, n) = To(r, n) - r[1] + 1 /\ Start(r, n) = r[1] /\ Status(r, n) = 206
    BY Zenon, <1>6 DEF Total, Start, Status
  <2>2. ~(r[1] > To(r, n) \/ To(r, n) >= n) BY Zenon, <1>6 DEF Refused
  <2>3. r[1] \in Nat /\ To(r, n) \in Int BY Zenon, <1>1, <1>6, RangeTypes
  <2>6. r[1] <= To(r, n) /\ To(r, n) < n BY <1>1, <2>2, <2>3, SMT
  <2>7. FileResponse = <<head(i, 206, To(r, n) - r[1] + 1)>> \o body(i, r[1], To(r, n))
    <3>1. CASE Len(r) = 2
      <4>1. To(r, n) = r[2] BY Zenon, <3>1 DEF To
      <4>2. QED BY SMT, <1>6, <2>6, <3>1, <4>1 DEF FileResponse
    <3>2. CASE Len(r) # 2
      <4>1. To(r, n) = n - 1 BY Zenon, <3>2 DEF To
      <4>2. QED BY SMT, <1>6, <2>6, <3>2, <4>1 DEF FileResponse
    <3>3. QED BY Zenon, <3>1, <3>2
  <2>8. r[1] + (To(r, n) - r[1] + 1) - 1 = To(r, n) BY <2>3, SMT
  <2>9. QED BY Zenon, <2>1, <2>7, <2>8 DEF Served, Part
<1>7. QED BY Zenon, <1>4, <1>5, <1>6

\* ns_send_http_file2() announces that many units and starts there.
LEMMA FileStarts ==
    ASSUME NEW c, NEW i, NEW r \in Ranges, Shape
    PROVE  ns_send_http_file2(c, i, r) =
             transfer_file_data([c EXCEPT !.send = Append(@, head(i, Status(r, size), Total(r, size)))],
                                [type |-> "DATA_FILE", req |-> i, cl |-> Total(r, size), sent |-> 0,
                                 pos |-> Start(r, size)])
<1>1. CASE r = NoRange
  <2>1. ~Refused(r, size) BY Zenon, <1>1 DEF Refused
  <2>2. QED BY Zenon, <1>1, <2>1 DEF ns_send_http_file2, Status, Total, Start
<1>2. CASE r # NoRange
  <2>1. CASE Refused(r, size)
    <3>1. Status(r, size) = 416 /\ Total(r, size) = 0 /\ Start(r, size) = 0
      BY Zenon, <2>1 DEF Status, Total, Start
    <3>2. QED BY Zenon, <1>2, <2>1, <3>1 DEF ns_send_http_file2, Refused, To
  <2>2. CASE ~Refused(r, size)
    <3>1. Status(r, size) = 206 /\ Total(r, size) = To(r, size) - r[1] + 1 /\ Start(r, size) = r[1]
      BY Zenon, <1>2, <2>2 DEF Status, Total, Start
    <3>2. QED BY Zenon, <1>2, <2>2, <3>1 DEF ns_send_http_file2, Refused, To
  <2>3. QED BY Zenon, <2>1, <2>2
<1>3. QED BY Zenon, <1>1, <1>2


-----------------------------------------------------------------------------
(* Sending a file                                                          *)

\* The connection and the data once k more units are in the buffer.
Moved(c, d, k) == [nc |-> [c EXCEPT !.send = @ \o body(d.req, d.pos, d.pos + k - 1)],
                   pd |-> [d EXCEPT !.sent = @ + k, !.pos = @ + k]]

\* What transfer_file_data() may make of connection c and data d: nothing, the
\* end, or a number of units that the announced length, the file and the buffer
\* allow.
Transfers(c, d, t) ==
    \/ t.nc = c /\ t.pd \in {d, NoData}
    \/ \E k \in Nat \ {0} : /\ d.sent + k <= d.cl /\ d.pos + k <= MaxSize /\ Len(c.send) + k <= Buf
                            /\ t = Moved(c, d, k)

\* transfer_file_data() does one of these.
LEMMA TransferEffect ==
    ASSUME Shape, NEW c \in Conn, NEW d \in File
    PROVE  Transfers(c, d, transfer_file_data(c, d))
<1>r. PICK r : r = to_read(c, d) BY Zenon
<1>n. PICK n : n = fread(d, r) BY Zenon
<1>t. PICK t : t = transfer_file_data(c, d) BY Zenon
<1>1. d.sent \in Nat /\ d.cl \in Nat /\ d.pos \in Nat /\ size \in Nat /\ size <= MaxSize /\ Buf \in Nat
      /\ MaxSize \in Nat
  <2>1. MaxSize \in Nat /\ Buf \in Nat /\ size \in 0 .. MaxSize BY Zenon, HttpAssumption DEF Shape
  <2>2. QED BY <2>1, SMT DEF File
<1>2. Len(c.send) \in Nat
  <2>1. c.send \in Seq(Token) BY Zenon DEF Conn
  <2>2. QED BY Zenon, <2>1, LenProperties
<1>3. t = IF r = 0 THEN [nc |-> c, pd |-> d]
          ELSE IF d.sent < d.cl /\ n > 0 THEN Moved(c, d, n) ELSE [nc |-> c, pd |-> NoData]
  BY Zenon, <1>r, <1>n, <1>t DEF transfer_file_data, Moved, free_http_proto_data
<1>4. r \in Nat /\ (d.sent < d.cl /\ r # 0 => d.sent + r <= d.cl /\ Len(c.send) + r <= Buf)
  <2>l. PICK l : l = Len(c.send) BY Zenon
  <2>1. r = LET left == d.cl - d.sent
                room == IF l < Buf THEN Buf - l ELSE 0
            IN  IF left > 0 /\ room > left THEN left ELSE room
    BY Zenon, <1>r, <2>l DEF to_read
  <2>2. l \in Nat BY Zenon, <1>2, <2>l
  <2>3. r \in Nat /\ (d.sent < d.cl /\ r # 0 => d.sent + r <= d.cl /\ l + r <= Buf) BY <1>1, <2>1, <2>2, SMT
  <2>4. QED BY Zenon, <2>l, <2>3
<1>5. n \in Nat /\ n <= r /\ (n > 0 => d.pos + n <= size)
  <2>1. n = IF d.pos + r <= size THEN r ELSE IF d.pos < size THEN size - d.pos ELSE 0
    BY Zenon, <1>n DEF fread
  <2>2. QED BY <1>1, <1>4, <2>1, SMT
<1>6. CASE r = 0
  <2>1. t.nc = c /\ t.pd = d BY SMT, <1>3, <1>6
  <2>2. QED BY Zenon, <1>t, <2>1 DEF Transfers
<1>7. CASE r # 0 /\ ~(d.sent < d.cl /\ n > 0)
  <2>1. t.nc = c /\ t.pd = NoData BY SMT, <1>3, <1>7
  <2>2. QED BY Zenon, <1>t, <2>1 DEF Transfers
<1>8. CASE r # 0 /\ d.sent < d.cl /\ n > 0
  <2>1. t = Moved(c, d, n) BY Zenon, <1>3, <1>8
  <2>2. n \in Nat \ {0} /\ d.sent + n <= d.cl /\ d.pos + n <= MaxSize /\ Len(c.send) + n <= Buf
    <3>l. PICK l : l = Len(c.send) BY Zenon
    <3>1. d.sent + r <= d.cl /\ l + r <= Buf /\ d.pos + n <= size BY Zenon, <3>l, <1>4, <1>5, <1>8
    <3>2. n \in Nat \ {0} /\ d.sent + n <= d.cl /\ d.pos + n <= MaxSize /\ l + n <= Buf
      <4>1. l \in Nat /\ r \in Nat /\ n \in Nat /\ n <= r /\ n > 0 BY Zenon, <3>l, <1>2, <1>4, <1>5, <1>8
      <4>2. QED BY <1>1, <3>1, <4>1, SMT
    <3>3. QED BY Zenon, <3>l, <3>2
  <2>3. QED BY Zenon, <1>t, <2>1, <2>2 DEF Transfers
<1>9. QED BY Zenon, <1>t, <1>6, <1>7, <1>8

-----------------------------------------------------------------------------
(* What a stream s of tokens may be while request a is answered and no     *)
(* program runs for it                                                     *)

Asked == [q : Requests \cup {NoReq}, n : 0 .. MaxReq, size : 0 .. MaxSize]

\* There is nothing left to read.
Idle(d) == d = NoData \/ d.sent = d.cl

\* The stream is the first part of a response.
Told(a, s) ==
    \/ s = <<>>
    \/ s = <<head(a.n, 400, 0)>>
    \/ a.q.kind \in {"put", "last"} /\ s = <<head(a.n, 200, 0)>>
    \/ a.q.kind = "file" /\ \E k \in 0 .. Total(a.q.range, a.size) : s = Served(a.q.range, a.size, a.n, k)

\* The file is at the place where the stream ends.
AtPlace(a, s, d) ==
    /\ a.q.kind = "file" /\ d.req = a.n /\ d.cl = Total(a.q.range, a.size)
    /\ d.pos = Start(a.q.range, a.size) + d.sent
    /\ s = Served(a.q.range, a.size, a.n, d.sent)

Answering(a, s, d) == Told(a, s) /\ (Idle(d) \/ AtPlace(a, s, d))

\* The data of a file is that of a request, and keeps to the announced length.
Sound(a, d) == d \in File \cup {NoData} /\ (d # NoData => d.req \in 1 .. a.n /\ d.sent <= d.cl)

\* The kinds of request there are, and what comes with them.
LEMMA RequestKinds ==
    ASSUME NEW q \in Requests \cup {NoReq}
    PROVE  /\ q.kind \in {"none", "file", "put", "now", "last", "cgi"} /\ (q.kind = "none" <=> q = NoReq)
           /\ q.kind = "file" => q.range \in Ranges
           /\ q.kind = "put" => q.len \in 0 .. MaxSize
<1>1. CASE q = NoReq BY <1>1, Zenon DEF NoReq
<1>2. CASE q \in [kind : {"file"}, range : Ranges] BY <1>2, SMT DEF NoReq
<1>3. CASE q \in [kind : {"put"}, len : 0 .. MaxSize] BY <1>3, SMT DEF NoReq
<1>4. CASE q \in [kind : {"now", "last", "cgi"}] BY <1>4, SMT DEF NoReq
<1>5. QED BY Zenon, <1>1, <1>2, <1>3, <1>4 DEF Requests


\* The data that transfer_file_data() leaves, and the bound of the buffer.
Carries(c, d, t) ==
    /\ t.nc \in Conn /\ t.nc.st = c.st /\ t.nc.flags = c.flags /\ t.nc.recv = c.recv
    /\ t.pd = NoData \/ (t.pd \in File /\ t.pd.req = d.req /\ t.pd.cl = d.cl /\ t.pd.sent <= t.pd.cl)
    /\ Len(c.send) <= Buf => Len(t.nc.send) <= Buf
    /\ Idle(d) => t.nc = c /\ Idle(t.pd)

\* The result has the type of a connection and of its data, nothing is read
\* past the announced length and the buffer does not overflow.
LEMMA TransferTypes ==
    ASSUME NEW c \in Conn, NEW d \in File, d.sent <= d.cl, NEW t, Transfers(c, d, t)
    PROVE  Carries(c, d, t)
<1>1. CASE t.nc = c /\ t.pd \in {d, NoData}
  BY Zenon, <1>1 DEF Carries, Idle
<1>2. ASSUME NEW k \in Nat \ {0}, d.sent + k <= d.cl, d.pos + k <= MaxSize, Len(c.send) + k <= Buf,
             t = Moved(c, d, k)
      PROVE  Carries(c, d, t)
  <2>1. t.nc = [c EXCEPT !.send = @ \o body(d.req, d.pos, d.pos + k - 1)]
        /\ t.pd = [d EXCEPT !.sent = @ + k, !.pos = @ + k]
    BY Zenon, <1>2 DEF Moved
  <2>2. d.req \in Nat /\ d.cl \in Nat /\ d.sent \in Nat /\ d.pos \in Nat /\ MaxSize \in Nat
    BY HttpAssumption, SMT DEF File
  <2>3. /\ body(d.req, d.pos, d.pos + k - 1) \in Seq(Token) /\ Len(body(d.req, d.pos, d.pos + k - 1)) = k
    <3>1. d.pos \in Int /\ k \in Nat BY <2>2, SMT
    <3>2. QED BY Zenon, <2>2, <3>1, BodyRun
  <2>4. c.send \in Seq(Token) /\ Len(c.send) \in Nat
    <3>1. c.send \in Seq(Token) BY Zenon DEF Conn
    <3>2. QED BY Zenon, <3>1, LenProperties
  <2>5. PICK b : b = body(d.req, d.pos, d.pos + k - 1) BY Zenon
  <2>6. c.send \o b \in Seq(Token) /\ Len(c.send \o b) = Len(c.send) + k
    BY Zenon, <2>3, <2>4, <2>5, ConcatProperties
  <2>7. t.nc \in Conn /\ t.nc.st = c.st /\ t.nc.flags = c.flags /\ t.nc.recv = c.recv /\ t.nc.send = c.send \o b
    <3>1. PICK x \in Seq(Token) : x = c.send \o b BY Zenon, <2>6
    <3>2. t.nc = [c EXCEPT !.send = x] BY Zenon, <2>1, <2>5, <3>1
    <3>3. t.nc \in Conn /\ t.nc.st = c.st /\ t.nc.flags = c.flags /\ t.nc.recv = c.recv /\ t.nc.send = x
      BY <3>2, SMT DEF Conn
    <3>4. QED BY Zenon, <3>1, <3>3
  <2>8. Len(t.nc.send) <= Buf BY Zenon, <1>2, <2>6, <2>7
  <2>9. t.pd \in File /\ t.pd.req = d.req /\ t.pd.cl = d.cl /\ t.pd.sent <= t.pd.cl
    <3>1. PICK x \in Nat : x = d.sent + k BY <2>2, SMT
    <3>2. PICK y \in Nat : y = d.pos + k BY <2>2, SMT
    <3>3. x <= d.cl /\ y \in 0 .. MaxSize BY <1>2, <2>2, <3>1, <3>2, SMT
    <3>4. t.pd = [d EXCEPT !.sent = x, !.pos = y] BY Zenon, <2>1, <3>1, <3>2
    <3>5. t.pd \in File /\ t.pd.req = d.req /\ t.pd.cl = d.cl /\ t.pd.sent = x
      <4>1. PICK e : e = [d EXCEPT !.sent = x] BY Zenon
      <4>2. e \in File /\ e.req = d.req /\ e.cl = d.cl /\ e.sent = x BY <4>1, SMT DEF File
      <4>3. t.pd = [e EXCEPT !.pos = y] BY Zenon, <3>4, <4>1
      <4>4. t.pd \in File /\ t.pd.req = e.req /\ t.pd.cl = e.cl /\ t.pd.sent = e.sent
        BY <3>3, <4>2, <4>3, SMT DEF File
      <4>5. QED BY Zenon, <4>2, <4>4
    <3>6. QED BY Zenon, <3>3, <3>5
  <2>10. ~Idle(d)
    <3>1. d # NoData BY SMT DEF File, NoData
    <3>2. d.sent # d.cl BY <1>2, <2>2, SMT
    <3>3. QED BY Zenon, <3>1, <3>2 DEF Idle
  <2>11. QED BY Zenon, <2>7, <2>8, <2>9, <2>10 DEF Carries
<1>3. QED BY Zenon, <1>1, <1>2 DEF Transfers

\* Three sequences of tokens may be grouped in any way.
LEMMA Regrouped ==
    ASSUME NEW x \in Seq(Token), NEW y \in Seq(Token), NEW z \in Seq(Token)
    PROVE  x \o (y \o z) = (x \o y) \o z
BY SMTT(30)

\* The head of a file's response is a token.
LEMMA ServedHead ==
    ASSUME NEW a \in Asked, a.q.kind = "file"
    PROVE  /\ a.q.range \in Ranges /\ a.n \in Nat /\ a.size \in 0 .. MaxSize
           /\ Status(a.q.range, a.size) \in {200, 206, 416} /\ Total(a.q.range, a.size) \in Nat
           /\ Start(a.q.range, a.size) \in 0 .. MaxSize /\ Start(a.q.range, a.size) \in Int
           /\ head(a.n, Status(a.q.range, a.size), Total(a.q.range, a.size)) \in Token
<1>1. a.q \in Requests \cup {NoReq} /\ a.n \in 0 .. MaxReq /\ a.size \in 0 .. MaxSize BY SMT DEF Asked
<1>2. a.q.range \in Ranges BY Zenon, <1>1, RequestKinds
<1>3. a.n \in Nat /\ MaxSize \in Nat BY <1>1, HttpAssumption, SMT
<1> PICK r : r = a.q.range BY Zenon
<1> PICK n : n = a.size BY Zenon
<1>4. Status(r, n) \in {200, 206, 416} /\ Total(r, n) \in Nat /\ Start(r, n) \in 0 .. MaxSize
  BY SMT, <1>1, <1>2, RangeBounds
<1>5. Start(r, n) \in Int /\ Status(r, n) \in Nat /\ Total(r, n) \in Int BY <1>3, <1>4, SMT
<1>6. head(a.n, Status(r, n), Total(r, n)) \in Token BY SMT, <1>3, <1>5, HeadToken
<1>7. QED BY Zenon, <1>1, <1>2, <1>3, <1>4, <1>5, <1>6

\* transfer_file_data() continues the response where it stopped.
LEMMA TransferKeeps ==
    ASSUME NEW a \in Asked, NEW c \in Conn, NEW d \in File, d.sent <= d.cl, NEW t, Transfers(c, d, t),
           NEW o \in Seq(Token), Answering(a, o \o c.send, d)
    PROVE  Answering(a, o \o t.nc.send, t.pd)
<1>1. CASE t.nc = c /\ t.pd \in {d, NoData}
  BY Zenon, <1>1 DEF Answering, Idle
<1>2. ASSUME NEW k \in Nat \ {0}, d.sent + k <= d.cl, t = Moved(c, d, k)
      PROVE  Answering(a, o \o t.nc.send, t.pd)
  <2>1. d.sent \in Nat /\ d.cl \in Nat /\ d.pos \in Nat /\ MaxSize \in Nat BY HttpAssumption, SMT DEF File
  <2>2. AtPlace(a, o \o c.send, d)
    <3>1. d # NoData BY SMT DEF File, NoData
    <3>2. d.sent # d.cl BY <1>2, <2>1, SMT
    <3>3. QED BY Zenon, <3>1, <3>2 DEF Answering, Idle
  <2>3. PICK r : r = a.q.range BY Zenon
  <2>4. PICK n : n = a.size BY Zenon
  <2>5. PICK i : i = a.n BY Zenon
  <2>6. PICK p : p = Start(r, n) BY Zenon
  <2>7. PICK h : h = head(i, Status(r, n), Total(r, n)) BY Zenon
  <2>8. h \in Token /\ i \in Nat /\ p \in Int /\ Total(r, n) \in Nat
    <3>1. a.q.kind = "file" BY Zenon, <2>2 DEF AtPlace
    <3>2. /\ a.n \in Nat /\ Total(a.q.range, a.size) \in Nat /\ Start(a.q.range, a.size) \in Int
          /\ head(a.n, Status(a.q.range, a.size), Total(a.q.range, a.size)) \in Token
      BY SMT, <3>1, ServedHead
    <3>3. QED BY Zenon, <3>2, <2>3, <2>4, <2>5, <2>6, <2>7
  <2>9. /\ a.q.kind = "file" /\ d.req = i /\ d.cl = Total(r, n) /\ d.pos = p + d.sent
        /\ o \o c.send = Part(h, i, p, d.sent)
    BY Zenon, <2>2, <2>3, <2>4, <2>5, <2>6, <2>7 DEF AtPlace, Served
  <2>10. PICK m \in Nat : m = d.sent + k BY <2>1, SMT
  <2>11. PICK b : b = body(i, p + d.sent, (p + d.sent) + k - 1) BY Zenon
  <2>12. t.nc.send = c.send \o b /\ t.pd = [d EXCEPT !.sent = m, !.pos = @ + k]
    <3>1. t.nc = [c EXCEPT !.send = @ \o body(d.req, d.pos, d.pos + k - 1)]
          /\ t.pd = [d EXCEPT !.sent = @ + k, !.pos = @ + k]
      BY Zenon, <1>2 DEF Moved
    <3>2. t.nc = [c EXCEPT !.send = @ \o b] BY Zenon, <3>1, <2>9, <2>11
    <3>3. t.nc.send = c.send \o b BY <3>2, SMT DEF Conn
    <3>4. QED BY Zenon, <3>1, <3>3, <2>10
  <2>13. k \in Nat /\ p + d.sent \in Int BY <2>1, <2>8, SMT
  <2>14. b \in Seq(Token) BY Zenon, <2>8, <2>11, <2>13, BodyRun
  <2>15. o \o t.nc.send = Part(h, i, p, m)
    <3>1. c.send \in Seq(Token) BY Zenon DEF Conn
    <3>2. o \o (c.send \o b) = (o \o c.send) \o b BY Zenon, <2>14, <3>1, Regrouped
    <3>3. Grows(h, i, p, d.sent, k) BY Zenon, <2>1, <2>8, <2>13, PartGrows
    <3>4. Part(h, i, p, d.sent) \o b = Part(h, i, p, d.sent + k) BY Zenon, <3>3, <2>11 DEF Grows
    <3>5. QED BY Zenon, <2>9, <2>10, <2>12, <3>2, <3>4
  <2>16. t.pd.req = d.req /\ t.pd.cl = d.cl /\ t.pd.sent = m /\ t.pd.pos = d.pos + k
    <3>1. PICK y : y = d.pos + k BY Zenon
    <3>2. PICK e : e = [d EXCEPT !.sent = m] BY Zenon
    <3>3. e \in File /\ e.req = d.req /\ e.cl = d.cl /\ e.sent = m /\ e.pos = d.pos BY <3>2, SMT DEF File
    <3>4. t.pd = [e EXCEPT !.pos = y] BY Zenon, <2>12, <3>1, <3>2, <3>3
    <3>5. t.pd.req = e.req /\ t.pd.cl = e.cl /\ t.pd.sent = e.sent /\ t.pd.pos = y BY <3>3, <3>4, SMT DEF File
    <3>6. QED BY Zenon, <3>1, <3>3, <3>5
  <2>17. t.pd.pos = p + t.pd.sent /\ m \in 0 .. Total(r, n)
    <3>1. PICK y \in Nat : y = d.pos BY Zenon, <2>1
    <3>2. PICK x \in Nat : x = d.sent BY Zenon, <2>1
    <3>3. y = p + x /\ m = x + k /\ x + k <= Total(r, n) BY Zenon, <1>2, <2>9, <2>10, <3>1, <3>2
    <3>4. y + k = p + m /\ m \in 0 .. Total(r, n) BY <2>8, <3>3, SMT
    <3>5. QED BY Zenon, <2>16, <3>1, <3>4
  <2>18. o \o t.nc.send = Served(r, n, i, m) BY Zenon, <2>6, <2>7, <2>15 DEF Served
  <2>19. Told(a, o \o t.nc.send) BY Zenon, <2>3, <2>4, <2>5, <2>9, <2>17, <2>18 DEF Told
  <2>20. AtPlace(a, o \o t.nc.send, t.pd)
    BY Zenon, <2>3, <2>4, <2>5, <2>6, <2>9, <2>16, <2>17, <2>18 DEF AtPlace
  <2>21. QED BY Zenon, <2>19, <2>20 DEF Answering
<1>3. QED BY Zenon, <1>1, <1>2 DEF Transfers

\* What the part of http_handler() that every event goes through may do to
\* connection c.
Handled(c, t) ==
    /\ t.nc \in Conn /\ t.nc.st = c.st /\ t.nc.flags = c.flags /\ t.nc.recv = c.recv
    /\ Sound(asked, t.pd)
    /\ Len(c.send) <= Buf => Len(t.nc.send) <= Buf
    /\ Idle(pd) => t.nc = c /\ Idle(t.pd)
    /\ pd = NoData => t.nc = c /\ t.pd = NoData

\* It keeps the types, and does nothing without a file to send.
LEMMA HandlerTypes ==
    ASSUME Shape, NEW c \in Conn
    PROVE  Handled(c, http_handler_data(c))
<1>1. PICK t : t = http_handler_data(c) BY Zenon
<1>2. pd \in File \cup {NoData} /\ (pd # NoData => pd.req \in 1 .. asked.n /\ pd.sent <= pd.cl) BY Zenon DEF Shape
<1>3. CASE pd = NoData
  <2>1. t = [nc |-> c, pd |-> pd] BY Zenon, <1>1, <1>3 DEF http_handler_data
  <2>2. t.nc = c /\ t.pd = NoData BY SMT, <2>1, <1>3
  <2>3. Sound(asked, t.pd) BY Zenon, <2>2 DEF Sound
  <2>4. QED BY Zenon, <1>1, <2>2, <2>3 DEF Handled, Idle
<1>4. CASE pd # NoData
  <2>1. pd \in File /\ pd.sent <= pd.cl /\ pd.req \in 1 .. asked.n BY Zenon, <1>2, <1>4
  <2>2. t = transfer_file_data(c, pd) BY Zenon, <1>1, <1>4 DEF http_handler_data
  <2>3. Transfers(c, pd, t) BY Zenon, <2>1, <2>2, TransferEffect
  <2>4. Carries(c, pd, t) BY Zenon, <2>1, <2>3, TransferTypes
  <2>5. Sound(asked, t.pd) BY Zenon, <2>1, <2>4 DEF Carries, Sound
  <2>6. QED BY Zenon, <1>1, <1>4, <2>4, <2>5 DEF Carries, Handled
<1>5. QED BY Zenon, <1>3, <1>4

\* And it continues the response where it stopped.
LEMMA HandlerKeeps ==
    ASSUME Shape, NEW c \in Conn, NEW a \in Asked, NEW o \in Seq(Token), Answering(a, o \o c.send, pd)
    PROVE  Answering(a, o \o http_handler_data(c).nc.send, http_handler_data(c).pd)
<1>1. PICK t : t = http_handler_data(c) BY Zenon
<1>2. pd \in File \cup {NoData} /\ (pd # NoData => pd.sent <= pd.cl) BY Zenon DEF Shape
<1>3. CASE pd = NoData
  <2>1. t = [nc |-> c, pd |-> pd] BY Zenon, <1>1, <1>3 DEF http_handler_data
  <2>2. t.nc = c /\ t.pd = pd BY SMT, <2>1
  <2>3. QED BY Zenon, <1>1, <2>2
<1>4. CASE pd # NoData
  <2>1. pd \in File /\ pd.sent <= pd.cl BY Zenon, <1>2, <1>4
  <2>2. t = transfer_file_data(c, pd) BY Zenon, <1>1, <1>4 DEF http_handler_data
  <2>3. Transfers(c, pd, t) BY Zenon, <2>1, <2>2, TransferEffect
  <2>4. Answering(a, o \o t.nc.send, t.pd) BY Zenon, <2>1, <2>3, TransferKeeps
  <2>5. QED BY Zenon, <1>1, <2>4
<1>5. QED BY Zenon, <1>3, <1>4

-----------------------------------------------------------------------------
(* The inductive invariant                                                 *)

\* What has been said so far is the first part of a response to the request
\* asked last, and the file is at the place where that part ends; a request
\* that is not yet served finds the connection silent and no file to send.
Answer ==
    /\ asked.n = 0 <=> asked.q = NoReq
    /\ asked.n = 0 => Stream = <<>> /\ pd = NoData
    /\ nc.recv # NoReq => nc.st = "open" /\ nc.recv = asked.q /\ Stream = <<>> /\ Idle(pd)
    /\ cgi.st = "none" =>
         /\ Told(asked, Stream) /\ Len(nc.send) <= Buf
         /\ nc.st = "open" => Answering(asked, Stream, pd)
         /\ "SEND_AND_CLOSE" \in nc.flags => asked.q.kind = "last"

\* The stream is a status line and the first k units of the output of the
\* program that was started for request i.
Lines(i) == {head(i, 500, 0), head(i, 200, -1)}
Relays(i, s, k) == \E h \in Lines(i) : s = Part(h, i, 1, k)

\* While the client's connection is open: before the status line nothing was
\* passed on, and the headers have not been seen; after it, all that was read.
Passing ==
    /\ "SEND_AND_CLOSE" \in nc.flags => cgi.st = "closed"
    /\ "USER_1" \in nc.flags => /\ Stream = <<>> /\ cgi.fwd = 0
                                /\ cgi.got = 0 \/ get_request_len(cgi.got) = 0
    /\ "USER_1" \notin nc.flags => /\ Relays(asked.n, Stream, cgi.fwd) /\ cgi.fwd = cgi.got
                                   /\ get_request_len(cgi.got) # 0

\* Once it is closed: what had left by then, which is all of the output unless
\* the client went away first.
Passed ==
    /\ nc.send = <<>>
    /\ out # <<>> => (\E k \in Nat : Relays(asked.n, out, k)) /\ get_request_len(cgi.got) # 0
    /\ ~gone => cgi.st = "closed"
    /\ ~gone /\ get_request_len(proc.wrote) > 0 => Len(out) = proc.wrote + 1

\* A program runs for the last request, and the connection to it is closed only
\* when its output has been read or is broken.
Relay ==
    cgi.st # "none" =>
        /\ asked.q.kind = "cgi" /\ nc.recv = NoReq /\ pd = NoData
        /\ "CLOSE_IMMEDIATELY" \in cgi.flags \/ cgi.st = "closed" =>
              proc.bad \/ (proc.st = "exited" /\ cgi.got = proc.wrote)
        /\ nc.st = "open" => Passing
        /\ nc.st = "closed" => Passed

\* A peer that is not admitted is told nothing and starts nothing, and only it
\* or one that has gone is cut off.
Cut ==
    /\ ~admit.granted => Stream = <<>> /\ pd = NoData /\ cgi.st = "none"
    /\ "CLOSE_IMMEDIATELY" \in nc.flags => gone \/ ~admit.granted

Inv == Shape /\ Answer /\ Relay /\ Cut /\ admit \in Verdicts


-----------------------------------------------------------------------------
(* The steps                                                               *)

\* What a step does not touch does not change.
LEMMA StillPassing ==
    ASSUME Passing, cgi' = cgi, proc' = proc, asked' = asked, nc'.flags = nc.flags, Stream' = Stream
    PROVE  Passing'
<1>1. get_request_len(cgi.got)' = get_request_len(cgi.got) BY Zenon DEF get_request_len
<1>2. QED BY Zenon, <1>1 DEF Passing

Others == <<cgi, proc, asked, gone, size, admit, crashed>>

\* Nothing is lost of what http_handler() does to a connection c that differs
\* from nc in how much of the stream has left: ns_write_to_socket(), NS_POLL.
LEMMA Resumes ==
    ASSUME Inv, NEW c \in Conn, c.st = nc.st, c.flags = nc.flags, c.recv = nc.recv,
           Len(nc.send) <= Buf => Len(c.send) <= Buf,
           out' \in Seq(Token), out' \o c.send = Stream, nc.st = "open",
           nc' = http_handler_data(c).nc, pd' = http_handler_data(c).pd, UNCHANGED Others
    PROVE  Inv'
<1>1. /\ cgi' = cgi /\ proc' = proc /\ asked' = asked /\ gone' = gone /\ size' = size /\ admit' = admit
      /\ crashed' = crashed
  BY Zenon DEF Others
<1>2. Shape /\ Answer /\ Relay /\ Cut /\ admit \in Verdicts BY Zenon DEF Inv
<1>3. Handled(c, http_handler_data(c)) BY Zenon, <1>2, HandlerTypes
<1>4. /\ nc' \in Conn /\ nc'.st = nc.st /\ nc'.flags = nc.flags /\ nc'.recv = nc.recv /\ Sound(asked, pd')
      /\ Len(nc.send) <= Buf => Len(nc'.send) <= Buf
      /\ Idle(pd) => nc' = c /\ Idle(pd')
      /\ pd = NoData => nc' = c /\ pd' = NoData
  BY Zenon, <1>3 DEF Handled
<1>5. nc' = c => Stream' = Stream BY Zenon DEF Stream
<1>6. Shape' BY Zenon, <1>1, <1>2, <1>4 DEF Shape, Sound
<1>7. cgi.st = "none" => Answering(asked, Stream', pd')
  <2>1. SUFFICES ASSUME cgi.st = "none" PROVE Answering(asked, Stream', pd') BY Zenon
  <2>2. Answering(asked, out' \o c.send, pd) BY Zenon, <1>2, <2>1 DEF Answer
  <2>3. asked \in Asked BY Zenon, <1>2 DEF Shape, Asked
  <2>4. Answering(asked, out' \o nc'.send, pd') BY Zenon, <1>2, <2>2, <2>3, HandlerKeeps
  <2>5. QED BY Zenon, <2>4 DEF Stream
<1>8. Answer'
  <2>1. (asked.n = 0 <=> asked.q = NoReq) /\ (asked.n = 0 => Stream = <<>> /\ pd = NoData) BY Zenon, <1>2 DEF Answer
  <2>2. asked.n = 0 => Stream' = <<>> /\ pd' = NoData BY Zenon, <2>1, <1>4, <1>5
  <2>3. nc.recv # NoReq => nc.recv = asked.q /\ Stream' = <<>> /\ Idle(pd') BY Zenon, <1>2, <1>4, <1>5 DEF Answer
  <2>4. cgi.st = "none" => /\ Told(asked, Stream') /\ Len(nc'.send) <= Buf
                           /\ "SEND_AND_CLOSE" \in nc.flags => asked.q.kind = "last"
    BY Zenon, <1>2, <1>4, <1>7 DEF Answer, Answering
  <2>5. QED BY Zenon, <1>1, <1>4, <1>7, <2>1, <2>2, <2>3, <2>4 DEF Answer
<1>9. Relay'
  <2>1. SUFFICES ASSUME cgi.st # "none" PROVE Relay' BY Zenon, <1>1 DEF Relay
  <2>2. pd = NoData /\ Passing BY Zenon, <1>2, <2>1 DEF Relay
  <2>3. Stream' = Stream /\ pd' = NoData BY Zenon, <1>4, <1>5, <2>2
  <2>4. Passing' BY Zenon, <1>1, <1>4, <2>2, <2>3, StillPassing
  <2>5. QED BY Zenon, <1>1, <1>2, <1>4, <2>1, <2>3, <2>4 DEF Relay
<1>10. Cut'
  BY Zenon, <1>1, <1>2, <1>4, <1>5 DEF Cut
<1>11. QED BY Zenon, <1>1, <1>2, <1>6, <1>8, <1>9, <1>10 DEF Inv


\* e is connection c with another buffer; with another request; with other flags.
Send(c, s, e) == e \in Conn /\ e.st = c.st /\ e.flags = c.flags /\ e.recv = c.recv /\ e.send = s
Recv(c, r, e) == e \in Conn /\ e.st = c.st /\ e.flags = c.flags /\ e.recv = r /\ e.send = c.send
Mark(c, f, e) == e \in Conn /\ e.st = c.st /\ e.flags = f /\ e.recv = c.recv /\ e.send = c.send

\* Assigning a field leaves the others alone.
LEMMA SendSet == ASSUME NEW c \in Conn, NEW s \in Seq(Token) PROVE Send(c, s, [c EXCEPT !.send = s])
BY SMT DEF Conn, Send

\* The same for the request.
LEMMA RecvSet == ASSUME NEW c \in Conn, NEW r \in Requests \cup {NoReq} PROVE Recv(c, r, [c EXCEPT !.recv = r])
BY SMT DEF Conn, Recv

\* The same for the flags.
LEMMA MarkSet == ASSUME NEW c \in Conn, NEW f \in SUBSET Flag PROVE Mark(c, f, [c EXCEPT !.flags = f])
BY SMT DEF Conn, Mark

\* What is written to the socket leaves the buffer in order.
LEMMA InvWrite == ASSUME Inv, NEW k, write(k) PROVE Inv'
<1>1. Shape BY Zenon DEF Inv
<1>2. nc \in Conn /\ nc.send \in Seq(Token) /\ out \in Seq(Token)
  <2>1. nc \in Conn /\ out \in Seq(Token) BY Zenon, <1>1 DEF Shape
  <2>2. QED BY Zenon, <2>1 DEF Conn
<1>3. /\ nc.st = "open" /\ k \in 1 .. Len(nc.send) /\ out' = out \o SubSeq(nc.send, 1, k)
      /\ nc' = http_handler_data([nc EXCEPT !.send = SubSeq(@, k + 1, Len(@))]).nc
      /\ pd' = http_handler_data([nc EXCEPT !.send = SubSeq(@, k + 1, Len(@))]).pd
      /\ UNCHANGED Others
  BY Zenon DEF write, Others, Open
<1>4. PICK s : s = nc.send BY Zenon
<1>5. PICK x : x = SubSeq(s, 1, k) BY Zenon
<1>6. PICK y : y = SubSeq(s, k + 1, Len(s)) BY Zenon
<1>7. Len(s) \in Nat /\ k \in 1 .. Len(s) /\ s \in Seq(Token) BY Zenon, <1>2, <1>3, <1>4, LenProperties
<1>8. 1 \in 1 .. Len(s) + 1 /\ k \in 1 - 1 .. Len(s) /\ Len(s) \in k .. Len(s) BY <1>7, SMT
<1>9. x \o y = s
  <2>1. SubSeq(s, 1, k) \o SubSeq(s, k + 1, Len(s)) = SubSeq(s, 1, Len(s)) BY SMT, <1>7, <1>8, ConcatAdjacentSubSeq
  <2>2. QED BY Zenon, <1>5, <1>6, <1>7, <2>1, SubSeqFull
<1>10. x \in Seq(Token) /\ y \in Seq(Token) /\ Len(y) <= Len(s)
  <2>1. \A i \in 1 .. k : s[i] \in Token BY <1>7, SMT
  <2>2. \A i \in k + 1 .. Len(s) : s[i] \in Token
    <3>1. \A i \in k + 1 .. Len(s) : i \in 1 .. Len(s) BY <1>7, SMT
    <3>2. QED BY Zenon, <1>7, <3>1, ElementOfSeq
  <2>3. 1 \in Int /\ k \in Int /\ k + 1 \in Int /\ Len(s) \in Int BY <1>7, SMT
  <2>4. x \in Seq(Token) BY Zenon, <1>5, <2>1, <2>3, SubSeqProperties
  <2>5. y \in Seq(Token) /\ Len(y) = IF k + 1 <= Len(s) THEN Len(s) - (k + 1) + 1 ELSE 0
    <3>1. PICK j \in Int : j = k + 1 BY <2>3, Zenon
    <3>2. PICK l \in Int : l = Len(s) BY <2>3, Zenon
    <3>3. \A i \in j .. l : s[i] \in Token BY Zenon, <2>2, <3>1, <3>2
    <3>4. /\ SubSeq(s, j, l) \in Seq(Token)
          /\ Len(SubSeq(s, j, l)) = IF j <= l THEN l - j + 1 ELSE 0
      BY Zenon, <3>3, SubSeqProperties
    <3>5. QED BY Zenon, <1>6, <3>1, <3>2, <3>4
  <2>6. QED BY <1>7, <2>4, <2>5, SMT
<1>11. PICK c : c = [nc EXCEPT !.send = y] BY Zenon
<1>12. c \in Conn /\ c.st = nc.st /\ c.flags = nc.flags /\ c.recv = nc.recv /\ c.send = y
  BY Zenon, <1>2, <1>10, <1>11, SendSet DEF Send
<1>13. [nc EXCEPT !.send = SubSeq(@, k + 1, Len(@))] = c BY Zenon, <1>4, <1>6, <1>11
<1>14. out' \o c.send = Stream
  <2>1. out \o (x \o y) = (out \o x) \o y BY Zenon, <1>2, <1>10, Regrouped
  <2>2. out' = out \o x BY Zenon, <1>3, <1>4, <1>5
  <2>3. Stream = out \o (x \o y) BY Zenon, <1>4, <1>9 DEF Stream
  <2>4. QED BY Zenon, <1>12, <2>1, <2>2, <2>3
<1>15. out' \in Seq(Token)
  <2>1. out \o x \in Seq(Token) BY Zenon, <1>2, <1>10, ConcatProperties
  <2>2. QED BY Zenon, <1>3, <1>4, <1>5, <2>1
<1>16. Len(nc.send) <= Buf => Len(c.send) <= Buf
  <2>1. Len(y) \in Nat BY Zenon, <1>10, LenProperties
  <2>2. Buf \in Nat BY Zenon, HttpAssumption
  <2>3. Len(s) <= Buf => Len(y) <= Buf BY <1>7, <1>10, <2>1, <2>2, SMT
  <2>4. QED BY Zenon, <1>4, <1>12, <2>3
<1>17. nc' = http_handler_data(c).nc /\ pd' = http_handler_data(c).pd BY Zenon, <1>3, <1>13
<1>18. QED BY Zenon, <1>3, <1>12, <1>14, <1>15, <1>16, <1>17, Resumes

\* NS_POLL resumes the file.
LEMMA InvPoll == ASSUME Inv, poll PROVE Inv'
<1>1. Shape BY Zenon DEF Inv
<1>2. nc \in Conn /\ out \in Seq(Token) BY Zenon, <1>1 DEF Shape
<1>3. /\ nc.st = "open" /\ out' = out /\ nc' = http_handler_data(nc).nc /\ pd' = http_handler_data(nc).pd
      /\ UNCHANGED Others
  BY Zenon DEF poll, Others, Open
<1>4. out' \o nc.send = Stream BY Zenon, <1>3 DEF Stream
<1>5. out' \in Seq(Token) BY Zenon, <1>2, <1>3
<1>6. QED BY Zenon, <1>2, <1>3, <1>4, <1>5, Resumes

\* The end of the client's stream only sets a flag.
LEMMA InvReadEof == ASSUME Inv, read_eof PROVE Inv'
<1>1. Shape /\ Answer /\ Relay /\ Cut /\ admit \in Verdicts BY Zenon DEF Inv
<1>2. /\ nc.st = "open" /\ gone /\ nc' = [nc EXCEPT !.flags = @ \cup {"CLOSE_IMMEDIATELY"}]
      /\ pd' = pd /\ cgi' = cgi /\ proc' = proc /\ out' = out /\ asked' = asked /\ gone' = gone /\ size' = size
      /\ admit' = admit /\ crashed' = crashed
  BY Zenon DEF read_eof, Open
<1>3. /\ nc' \in Conn /\ nc'.st = nc.st /\ nc'.recv = nc.recv /\ nc'.send = nc.send
      /\ nc'.flags = nc.flags \cup {"CLOSE_IMMEDIATELY"}
  <2>1. nc \in Conn BY Zenon, <1>1 DEF Shape
  <2>2. QED BY <1>2, <2>1, SMT DEF Conn, Flag
<1>4. /\ "SEND_AND_CLOSE" \in nc'.flags <=> "SEND_AND_CLOSE" \in nc.flags
      /\ "USER_1" \in nc'.flags <=> "USER_1" \in nc.flags
  BY Zenon, <1>3
<1>5. Stream' = Stream BY Zenon, <1>2, <1>3 DEF Stream
<1>6. Shape' BY Zenon, <1>1, <1>2, <1>3 DEF Shape
<1>7. Answer' BY Zenon, <1>1, <1>2, <1>3, <1>4, <1>5 DEF Answer
<1>8. Relay'
  <2>1. get_request_len(cgi.got)' = get_request_len(cgi.got) BY Zenon, <1>2 DEF get_request_len
  <2>2. Passing => Passing' BY Zenon, <1>2, <1>4, <1>5, <2>1 DEF Passing
  <2>3. QED BY Zenon, <1>1, <1>2, <1>3, <2>2 DEF Relay
<1>9. Cut' BY Zenon, <1>1, <1>2, <1>3, <1>5 DEF Cut
<1>10. QED BY Zenon, <1>1, <1>2, <1>6, <1>7, <1>8, <1>9 DEF Inv


\* What comes first of the first part of a response is one too.
LEMMA ToldFirst ==
    ASSUME NEW a \in Asked, NEW x \in Seq(Token), NEW y \in Seq(Token), Told(a, x \o y)
    PROVE  Told(a, x)
<1>1. CASE x = <<>> BY Zenon, <1>1 DEF Told
<1>2. CASE x # <<>>
  <2>1. a.n \in Nat
    <3>1. a.n \in 0 .. MaxReq BY SMT DEF Asked
    <3>2. QED BY <3>1, HttpAssumption, SMT
  <2>2. ASSUME NEW h \in Token, x \o y = <<h>> PROVE x = <<h>>
    <3>1. Part(h, a.n, 0, 0) = <<h>> BY <2>1, PartNone, SMT
    <3>2. 0 \in Nat /\ 0 \in Int BY SMT
    <3>3. x \o y = Part(h, a.n, 0, 0) BY Zenon, <2>2, <3>1
    <3>i. PICK i \in Nat : i = a.n BY Zenon, <2>1
    <3>4. Some(h, i, 0, 0, x)
      <4>1. x \o y = Part(h, i, 0, 0) BY Zenon, <3>3, <3>i
      <4>2. QED BY SMT, <1>2, <3>2, <4>1, PartFirst
    <3>5. PICK l \in 0 .. 0 : x = Part(h, a.n, 0, l) BY Zenon, <3>4, <3>i DEF Some
    <3>6. l = 0 BY SMT
    <3>7. QED BY Zenon, <3>1, <3>5, <3>6
  <2>3. x \o y # <<>> BY SMT, <1>2, ConcatEqualIffEmpty
  <2>4. CASE x \o y = <<head(a.n, 400, 0)>>
    <3>1. head(a.n, 400, 0) \in Token BY SMT, <2>1, HeadToken
    <3>2. x = <<head(a.n, 400, 0)>> BY Zenon, <2>2, <2>4, <3>1
    <3>3. QED BY Zenon, <3>2 DEF Told
  <2>5. CASE a.q.kind \in {"put", "last"} /\ x \o y = <<head(a.n, 200, 0)>>
    <3>1. head(a.n, 200, 0) \in Token BY SMT, <2>1, HeadToken
    <3>2. x = <<head(a.n, 200, 0)>> BY Zenon, <2>2, <2>5, <3>1
    <3>3. QED BY Zenon, <3>2, <2>5 DEF Told
  <2>6. ASSUME a.q.kind = "file", NEW k \in 0 .. Total(a.q.range, a.size),
               x \o y = Served(a.q.range, a.size, a.n, k)
        PROVE  Told(a, x)
    <3>1. /\ Total(a.q.range, a.size) \in Nat /\ Start(a.q.range, a.size) \in Int
          /\ head(a.n, Status(a.q.range, a.size), Total(a.q.range, a.size)) \in Token
      BY SMT, <2>6, ServedHead
    <3>2. PICK h : h = head(a.n, Status(a.q.range, a.size), Total(a.q.range, a.size)) BY Zenon
    <3>3. PICK p : p = Start(a.q.range, a.size) BY Zenon
    <3>4. PICK m : m = Total(a.q.range, a.size) BY Zenon
    <3>5. h \in Token /\ p \in Int /\ m \in Nat /\ k \in 0 .. m BY Zenon, <3>1, <3>2, <3>3, <3>4
    <3>6. k \in Nat BY <3>5, SMT
    <3>7. x \o y = Part(h, a.n, p, k) BY Zenon, <2>6, <3>2, <3>3 DEF Served
    <3>i. PICK i \in Nat : i = a.n BY Zenon, <2>1
    <3>8. Some(h, i, p, k, x)
      <4>1. x \o y = Part(h, i, p, k) BY Zenon, <3>7, <3>i
      <4>2. QED BY SMT, <1>2, <3>5, <3>6, <4>1, PartFirst
    <3>9. PICK l \in 0 .. k : x = Part(h, a.n, p, l) BY Zenon, <3>8, <3>i DEF Some
    <3>11. l \in 0 .. m BY <3>5, <3>6, SMT
    <3>12. x = Served(a.q.range, a.size, a.n, l) BY Zenon, <3>2, <3>3, <3>9 DEF Served
    <3>13. QED BY Zenon, <2>6, <3>4, <3>11, <3>12 DEF Told
  <2>7. QED BY Zenon, <2>3, <2>4, <2>5, <2>6 DEF Told
<1>3. QED BY Zenon, <1>1, <1>2

\* The status lines of a program's answer are tokens.
LEMMA LineToken ==
    ASSUME NEW i \in Nat, NEW h \in Lines(i) PROVE h \in Token
<1>1. head(i, 500, 0) \in Token BY SMT, HeadToken
<1>2. head(i, 200, -1) \in Token BY SMT, HeadToken
<1>3. QED BY SMT, <1>1, <1>2 DEF Lines

\* The same for what is relayed.
LEMMA RelaysFirst ==
    ASSUME NEW i \in Nat, NEW k \in Nat, NEW x \in Seq(Token), NEW y \in Seq(Token), Relays(i, x \o y, k), x # <<>>
    PROVE  \E l \in Nat : Relays(i, x, l)
<1>1. PICK h \in Lines(i) : x \o y = Part(h, i, 1, k) BY Zenon DEF Relays
<1>2. h \in Token BY Zenon, LineToken
<1>3. 1 \in Int BY SMT
<1>4. Some(h, i, 1, k, x) BY SMT, <1>1, <1>2, <1>3, PartFirst
<1>5. PICK l \in 0 .. k : x = Part(h, i, 1, l) BY Zenon, <1>4 DEF Some
<1>6. l \in Nat BY SMT
<1>7. Relays(i, x, l) BY Zenon, <1>5 DEF Relays
<1>8. QED BY Zenon, <1>6, <1>7

\* How long it is.
LEMMA RelaysLength ==
    ASSUME NEW i \in Nat, NEW k \in Nat, NEW x, Relays(i, x, k)
    PROVE  Len(x) = k + 1
<1>1. PICK h \in Lines(i) : x = Part(h, i, 1, k) BY Zenon DEF Relays
<1>2. h \in Token BY Zenon, LineToken
<1>3. 1 \in Int BY SMT
<1>4. QED BY SMT, <1>1, <1>2, <1>3, PartIs


\* The numbers of a state.
LEMMA Numbers ==
    ASSUME Shape
    PROVE  /\ asked.n \in Nat /\ cgi.fwd \in Nat /\ cgi.got \in Nat /\ proc.wrote \in Nat /\ proc.hdr \in Nat \ {0}
           /\ proc.bad \in BOOLEAN
<1>1. asked \in [q : Requests \cup {NoReq}, n : 0 .. MaxReq, size : 0 .. MaxSize] BY Zenon DEF Shape
<1>2. cgi \in [st : {"none", "open", "closed"}, flags : SUBSET {"CLOSE_IMMEDIATELY"}, got : Nat, fwd : Nat]
  BY Zenon DEF Shape
<1>3. proc \in [st : {"none", "runs", "exited"}, wrote : Nat, hdr : Nat \ {0}, bad : BOOLEAN] BY Zenon DEF Shape
<1>4. asked.n \in 0 .. MaxReq BY SMT, <1>1
<1>5. asked.n \in Nat BY SMT, <1>4, HttpAssumption
<1>6. cgi.got \in Nat /\ cgi.fwd \in Nat BY SMT, <1>2
<1>7. proc.wrote \in Nat /\ proc.hdr \in Nat \ {0} /\ proc.bad \in BOOLEAN BY SMT, <1>3
<1>8. QED BY Zenon, <1>5, <1>6, <1>7

\* The connection is closed: what is left in the buffer is lost, which is
\* nothing unless the client has gone or is not admitted.
LEMMA InvClose == ASSUME Inv, close PROVE Inv'
<1>1. Shape /\ Answer /\ Relay /\ Cut /\ admit \in Verdicts BY Zenon DEF Inv
<1>2. /\ nc.st = "open" /\ pd' = http_handler_data(nc).pd
      /\ nc' = [nc EXCEPT !.st = "closed", !.send = <<>>, !.flags = {}, !.recv = NoReq]
      /\ "CLOSE_IMMEDIATELY" \in nc.flags \/ ("SEND_AND_CLOSE" \in nc.flags /\ nc.send = <<>>)
      /\ cgi' = cgi /\ proc' = proc /\ out' = out /\ asked' = asked /\ gone' = gone /\ size' = size
      /\ admit' = admit /\ crashed' = crashed
  BY Zenon DEF close
<1>3. nc \in Conn /\ out \in Seq(Token) /\ nc.send \in Seq(Token)
  <2>1. nc \in Conn /\ out \in Seq(Token) BY Zenon, <1>1 DEF Shape
  <2>2. QED BY Zenon, <2>1 DEF Conn
<1>4. nc' \in Conn /\ nc'.st = "closed" /\ nc'.send = <<>> /\ nc'.flags = {} /\ nc'.recv = NoReq
  <2>1. PICK c : c = [nc EXCEPT !.st = "closed"] BY Zenon
  <2>2. c \in Conn /\ c.st = "closed" BY <1>3, <2>1, SMT DEF Conn
  <2>3. PICK d : d = [c EXCEPT !.send = <<>>] BY Zenon
  <2>4. Send(c, <<>>, d)
    <3>1. <<>> \in Seq(Token) BY SMT
    <3>2. QED BY Zenon, <2>2, <2>3, <3>1, SendSet
  <2>5. PICK e : e = [d EXCEPT !.flags = {}] BY Zenon
  <2>6. Mark(d, {}, e)
    <3>1. {} \in SUBSET Flag /\ d \in Conn BY Zenon, <2>4 DEF Send
    <3>2. QED BY Zenon, <2>5, <3>1, MarkSet
  <2>7. nc' = [e EXCEPT !.recv = NoReq] BY Zenon, <1>2, <2>1, <2>3, <2>5
  <2>8. e \in Conn /\ e.st = "closed" /\ e.send = <<>> /\ e.flags = {} BY Zenon, <2>2, <2>4, <2>6 DEF Send, Mark
  <2>9. nc' \in Conn /\ nc'.st = e.st /\ nc'.send = e.send /\ nc'.flags = e.flags /\ nc'.recv = NoReq
    BY <2>7, <2>8, SMT DEF Conn
  <2>10. QED BY Zenon, <2>8, <2>9
<1>5. Stream' = out
  <2>1. Stream' = out \o <<>> BY Zenon, <1>2, <1>4 DEF Stream
  <2>2. QED BY Zenon, <1>3, <2>1, ConcatEmptySeq
<1>6. Handled(nc, http_handler_data(nc)) BY Zenon, <1>1, <1>3, HandlerTypes
<1>7. Sound(asked, pd') /\ (pd = NoData => pd' = NoData) BY Zenon, <1>2, <1>6 DEF Handled
<1>8. Shape' BY Zenon, <1>1, <1>2, <1>4, <1>7 DEF Shape, Sound
<1>9. Stream = <<>> => out = <<>>
  <2>1. Stream = <<>> => out = <<>> /\ nc.send = <<>> BY SMT, <1>3, ConcatEqualIffEmpty DEF Stream
  <2>2. QED BY Zenon, <2>1
<1>10. Answer'
  <2>1. asked \in Asked BY Zenon, <1>1 DEF Shape, Asked
  <2>2. cgi.st = "none" => Told(asked, out)
    <3>1. cgi.st = "none" => Told(asked, out \o nc.send) BY Zenon, <1>1 DEF Answer, Stream
    <3>2. QED BY Zenon, <1>3, <2>1, <3>1, ToldFirst
  <2>3. Len(<<>>) <= Buf BY HttpAssumption, SMT
  <2>4. "SEND_AND_CLOSE" \notin nc'.flags BY Zenon, <1>4
  <2>5. nc'.st # "open" BY Zenon, <1>4
  <2>6. QED BY Zenon, <1>1, <1>2, <1>4, <1>5, <1>7, <1>9, <2>2, <2>3, <2>4, <2>5 DEF Answer
<1>11. Relay'
  <2>1. SUFFICES ASSUME cgi.st # "none" PROVE Relay' BY Zenon, <1>2 DEF Relay
  <2>2. Passing BY Zenon, <1>1, <1>2, <2>1 DEF Relay
  <2>3. get_request_len(cgi.got)' = get_request_len(cgi.got) /\ get_request_len(proc.wrote)' = get_request_len(proc.wrote)
    BY Zenon, <1>2 DEF get_request_len
  <2>4. admit.granted BY Zenon, <1>1, <2>1 DEF Cut
  <2>5. ~gone => "SEND_AND_CLOSE" \in nc.flags /\ nc.send = <<>> /\ cgi.st = "closed"
    BY Zenon, <1>1, <1>2, <2>2, <2>4 DEF Cut, Passing
  <2>6. /\ asked.n \in Nat /\ cgi.fwd \in Nat /\ cgi.got \in Nat /\ proc.wrote \in Nat /\ proc.hdr \in Nat \ {0}
        /\ proc.bad \in BOOLEAN
    BY Zenon, <1>1, Numbers
  <2>7. out # <<>> => (\E k \in Nat : Relays(asked.n, out, k)) /\ get_request_len(cgi.got) # 0
    <3>1. SUFFICES ASSUME out # <<>> PROVE (\E k \in Nat : Relays(asked.n, out, k)) /\ get_request_len(cgi.got) # 0
      BY Zenon
    <3>2. "USER_1" \notin nc.flags BY Zenon, <1>9, <2>2, <3>1 DEF Passing
    <3>3. Relays(asked.n, out \o nc.send, cgi.fwd) /\ get_request_len(cgi.got) # 0
      BY Zenon, <2>2, <3>2 DEF Passing, Stream
    <3>4. QED BY Zenon, <1>3, <2>6, <3>1, <3>3, RelaysFirst
  <2>8. ~gone /\ get_request_len(proc.wrote) > 0 => Len(out) = proc.wrote + 1
    <3>1. SUFFICES ASSUME ~gone, get_request_len(proc.wrote) > 0 PROVE Len(out) = proc.wrote + 1 BY Zenon
    <3>2. proc.bad \/ cgi.got = proc.wrote BY Zenon, <1>1, <2>1, <2>5, <3>1 DEF Relay
    <3>3. ~proc.bad /\ proc.wrote >= proc.hdr
      <4>1. get_request_len(proc.wrote) # -1 /\ get_request_len(proc.wrote) # 0 BY SMT, <3>1
      <4>2. QED BY Zenon, <4>1 DEF get_request_len
    <3>4. cgi.got = proc.wrote BY Zenon, <3>2, <3>3
    <3>5. get_request_len(cgi.got) = proc.hdr BY Zenon, <3>3, <3>4 DEF get_request_len
    <3>6. get_request_len(cgi.got) # 0 /\ cgi.got # 0 BY SMT, <2>6, <3>3, <3>4, <3>5
    <3>7. "USER_1" \notin nc.flags BY Zenon, <2>2, <3>6 DEF Passing
    <3>8. Relays(asked.n, Stream, cgi.fwd) /\ cgi.fwd = cgi.got BY Zenon, <2>2, <3>7 DEF Passing
    <3>9. Stream = out
      <4>1. Stream = out \o <<>> BY Zenon, <2>5, <3>1 DEF Stream
      <4>2. QED BY Zenon, <1>3, <4>1, ConcatEmptySeq
    <3>10. Relays(asked.n, out, proc.wrote) BY Zenon, <3>4, <3>8, <3>9
    <3>11. QED BY Zenon, <2>6, <3>10, RelaysLength
  <2>9. Passed' BY Zenon, <1>2, <1>4, <2>3, <2>5, <2>7, <2>8 DEF Passed
  <2>10. nc'.st # "open" BY Zenon, <1>4
  <2>11. QED BY Zenon, <1>1, <1>2, <1>4, <1>7, <2>1, <2>9, <2>10 DEF Relay
<1>12. Cut'
  <2>1. "CLOSE_IMMEDIATELY" \notin nc'.flags BY Zenon, <1>4
  <2>2. QED BY Zenon, <1>1, <1>2, <1>5, <1>7, <1>9, <2>1 DEF Cut
<1>13. QED BY Zenon, <1>1, <1>2, <1>8, <1>10, <1>11, <1>12 DEF Inv


\* The client closes its end.
LEMMA InvClientCloses == ASSUME Inv, client_closes PROVE Inv'
<1>1. Shape /\ Answer /\ Relay /\ Cut /\ admit \in Verdicts BY Zenon DEF Inv
<1>2. /\ nc.st = "open" /\ gone' = TRUE /\ nc' = nc /\ pd' = pd
      /\ cgi' = cgi /\ proc' = proc /\ out' = out /\ asked' = asked /\ size' = size
      /\ admit' = admit /\ crashed' = crashed
  BY Zenon DEF client_closes
<1>3. Stream' = Stream BY Zenon, <1>2 DEF Stream
<1>4. Shape' BY Zenon, <1>1, <1>2 DEF Shape
<1>5. Answer' BY Zenon, <1>1, <1>2, <1>3 DEF Answer
<1>6. Passing => Passing' BY Zenon, <1>2, <1>3, StillPassing
<1>7. Relay'
  <2>1. nc'.st # "closed" BY Zenon, <1>2
  <2>2. QED BY Zenon, <1>1, <1>2, <1>6, <2>1 DEF Relay
<1>8. Cut' BY Zenon, <1>1, <1>2, <1>3 DEF Cut
<1>9. QED BY Zenon, <1>1, <1>2, <1>4, <1>5, <1>7, <1>8 DEF Inv

\* Somebody writes the file.
LEMMA InvFileChanges == ASSUME Inv, NEW n \in 0 .. MaxSize, file_changes(n) PROVE Inv'
<1>1. Shape /\ Answer /\ Relay /\ Cut /\ admit \in Verdicts BY Zenon DEF Inv
<1>2. /\ size' = n /\ gone' = gone /\ nc' = nc /\ pd' = pd
      /\ cgi' = cgi /\ proc' = proc /\ out' = out /\ asked' = asked
      /\ admit' = admit /\ crashed' = crashed
  BY Zenon DEF file_changes
<1>3. Stream' = Stream BY Zenon, <1>2 DEF Stream
<1>4. Shape' BY Zenon, <1>1, <1>2 DEF Shape
<1>5. Answer' BY Zenon, <1>1, <1>2, <1>3 DEF Answer
<1>6. Passing => Passing' BY Zenon, <1>2, <1>3, StillPassing
<1>7. Passed => Passed'
  <2>1. get_request_len(cgi.got)' = get_request_len(cgi.got) /\ get_request_len(proc.wrote)' = get_request_len(proc.wrote)
    BY Zenon, <1>2 DEF get_request_len
  <2>2. QED BY Zenon, <1>2, <2>1 DEF Passed
<1>8. Relay' BY Zenon, <1>1, <1>2, <1>6, <1>7 DEF Relay
<1>9. Cut' BY Zenon, <1>1, <1>2, <1>3 DEF Cut
<1>10. QED BY Zenon, <1>1, <1>2, <1>4, <1>5, <1>8, <1>9 DEF Inv

\* The CGI program writes or exits.  One whose connection was closed does not
\* write any more, or its headers were broken.
LEMMA InvProgram == ASSUME Inv, proc_writes \/ proc_exits PROVE Inv'
<1>1. Shape /\ Answer /\ Relay /\ Cut /\ admit \in Verdicts BY Zenon DEF Inv
<1>2. /\ proc.st = "runs" /\ gone' = gone /\ nc' = nc /\ pd' = pd /\ size' = size
      /\ cgi' = cgi /\ out' = out /\ asked' = asked /\ admit' = admit /\ crashed' = crashed
  BY Zenon DEF proc_writes, proc_exits
<1>3. Stream' = Stream BY Zenon, <1>2 DEF Stream
<1>4. /\ asked.n \in Nat /\ cgi.fwd \in Nat /\ cgi.got \in Nat /\ proc.wrote \in Nat /\ proc.hdr \in Nat \ {0}
      /\ proc.bad \in BOOLEAN
  BY Zenon, <1>1, Numbers
<1>5. /\ proc' \in [st : {"none", "runs", "exited"}, wrote : Nat, hdr : Nat \ {0}, bad : BOOLEAN]
      /\ proc'.hdr = proc.hdr /\ proc'.bad = proc.bad /\ proc.wrote <= proc'.wrote
      /\ proc'.wrote = proc.wrote \/ proc'.st = "runs"
  <2>1. proc \in [st : {"none", "runs", "exited"}, wrote : Nat, hdr : Nat \ {0}, bad : BOOLEAN] BY Zenon, <1>1 DEF Shape
  <2>2. CASE proc_writes
    <3>1. proc' = [proc EXCEPT !.wrote = @ + 1] BY Zenon, <2>2 DEF proc_writes
    <3>2. QED BY <1>2, <1>4, <2>1, <3>1, SMT
  <2>3. CASE proc_exits
    <3>1. proc' = [proc EXCEPT !.st = "exited"] BY Zenon, <2>3 DEF proc_exits
    <3>2. QED BY <1>4, <2>1, <3>1, SMT
  <2>4. QED BY Zenon, <2>2, <2>3
<1>6. Shape'
  <2>1. cgi.got <= proc.wrote BY Zenon, <1>1 DEF Shape
  <2>2. proc'.wrote \in Nat BY <1>5, SMT
  <2>3. cgi.got <= proc'.wrote BY <1>4, <1>5, <2>1, <2>2, SMT
  <2>4. QED BY Zenon, <1>1, <1>2, <1>5, <2>3 DEF Shape
<1>7. Answer' BY Zenon, <1>1, <1>2, <1>3 DEF Answer
<1>8. get_request_len(cgi.got)' = get_request_len(cgi.got) BY Zenon, <1>2, <1>5 DEF get_request_len
<1>9. Passing => Passing' BY Zenon, <1>2, <1>3, <1>8 DEF Passing
<1>10. cgi.st # "none" /\ ("CLOSE_IMMEDIATELY" \in cgi.flags \/ cgi.st = "closed") => proc'.bad
  BY Zenon, <1>1, <1>2, <1>5 DEF Relay
<1>11. cgi.st # "none" /\ Passed => Passed'
  <2>1. SUFFICES ASSUME cgi.st # "none", Passed PROVE Passed' BY Zenon
  <2>2. ~gone => cgi.st = "closed" BY Zenon, <2>1 DEF Passed
  <2>3. ~gone => get_request_len(proc.wrote)' = -1 BY Zenon, <1>10, <2>1, <2>2 DEF get_request_len
  <2>4. ~(-1 > 0) BY SMT
  <2>5. ~(~gone /\ get_request_len(proc.wrote)' > 0) BY Zenon, <2>3, <2>4
  <2>6. QED BY Zenon, <1>2, <1>8, <2>1, <2>5 DEF Passed
<1>12. Relay' BY Zenon, <1>1, <1>2, <1>9, <1>10, <1>11 DEF Relay
<1>13. Cut' BY Zenon, <1>1, <1>2, <1>3 DEF Cut
<1>14. QED BY Zenon, <1>1, <1>2, <1>6, <1>7, <1>12, <1>13 DEF Inv


CgiConn == [st : {"none", "open", "closed"}, flags : SUBSET {"CLOSE_IMMEDIATELY"}, got : Nat, fwd : Nat]

\* All of the program's output has been read.
LEMMA InvCgiReadEof == ASSUME Inv, cgi_read_eof PROVE Inv'
<1>1. Shape /\ Answer /\ Relay /\ Cut /\ admit \in Verdicts BY Zenon DEF Inv
<1>2. /\ cgi.st = "open" /\ proc.st = "exited" /\ cgi.got = proc.wrote
      /\ cgi' = [cgi EXCEPT !.flags = @ \cup {"CLOSE_IMMEDIATELY"}]
      /\ gone' = gone /\ nc' = nc /\ pd' = pd /\ size' = size
      /\ proc' = proc /\ out' = out /\ asked' = asked /\ admit' = admit /\ crashed' = crashed
  BY Zenon DEF cgi_read_eof, Open
<1>3. Stream' = Stream BY Zenon, <1>2 DEF Stream
<1>4. cgi' \in CgiConn /\ cgi'.st = cgi.st /\ cgi'.got = cgi.got /\ cgi'.fwd = cgi.fwd
  <2>1. cgi \in CgiConn BY Zenon, <1>1 DEF Shape, CgiConn
  <2>2. QED BY <1>2, <2>1, SMT DEF CgiConn
<1>5. Shape' BY Zenon, <1>1, <1>2, <1>4 DEF Shape, CgiConn
<1>6. Answer' BY Zenon, <1>1, <1>2, <1>3, <1>4 DEF Answer
<1>7. /\ get_request_len(cgi.got)' = get_request_len(cgi.got)
      /\ get_request_len(proc.wrote)' = get_request_len(proc.wrote)
  BY Zenon, <1>2, <1>4 DEF get_request_len
<1>8. Passing => Passing' BY Zenon, <1>2, <1>3, <1>4, <1>7 DEF Passing
<1>9. Passed => Passed' BY Zenon, <1>2, <1>3, <1>4, <1>7 DEF Passed
<1>10. Relay' BY Zenon, <1>1, <1>2, <1>4, <1>8, <1>9 DEF Relay
<1>11. Cut' BY Zenon, <1>1, <1>2, <1>3, <1>4 DEF Cut
<1>12. QED BY Zenon, <1>1, <1>2, <1>5, <1>6, <1>10, <1>11 DEF Inv

\* The connection to the program is closed, and the client's is to follow.
LEMMA InvCgiClose == ASSUME Inv, cgi_close PROVE Inv'
<1>1. Shape /\ Answer /\ Relay /\ Cut /\ admit \in Verdicts BY Zenon DEF Inv
<1>2. /\ cgi.st = "open" /\ "CLOSE_IMMEDIATELY" \in cgi.flags
      /\ cgi' = [cgi EXCEPT !.st = "closed", !.flags = {}]
      /\ gone' = gone /\ size' = size
      /\ proc' = proc /\ out' = out /\ asked' = asked /\ admit' = admit
  BY Zenon DEF cgi_close
<1>3. cgi' \in CgiConn /\ cgi'.st = "closed" /\ cgi'.got = cgi.got /\ cgi'.fwd = cgi.fwd /\ cgi'.flags = {}
  <2>1. cgi \in CgiConn BY Zenon, <1>1 DEF Shape, CgiConn
  <2>2. PICK c : c = [cgi EXCEPT !.st = "closed"] BY Zenon
  <2>3. c \in CgiConn /\ c.st = "closed" /\ c.got = cgi.got /\ c.fwd = cgi.fwd BY <2>1, <2>2, SMT DEF CgiConn
  <2>4. cgi' = [c EXCEPT !.flags = {}] BY Zenon, <1>2, <2>2
  <2>5. cgi' \in CgiConn /\ cgi'.st = c.st /\ cgi'.got = c.got /\ cgi'.fwd = c.fwd /\ cgi'.flags = {}
    BY <2>3, <2>4, SMT DEF CgiConn
  <2>6. QED BY Zenon, <2>3, <2>5
<1>4. nc \in Conn /\ nc.st \in {"open", "closed"}
  <2>1. nc \in Conn BY Zenon, <1>1 DEF Shape
  <2>2. QED BY Zenon, <2>1 DEF Conn
<1>5. /\ get_request_len(cgi.got)' = get_request_len(cgi.got)
      /\ get_request_len(proc.wrote)' = get_request_len(proc.wrote)
  BY Zenon, <1>2, <1>3 DEF get_request_len
<1>6. asked.q.kind = "cgi" /\ nc.recv = NoReq /\ pd = NoData
  BY Zenon, <1>1, <1>2 DEF Relay
<1>7. proc.bad \/ (proc.st = "exited" /\ cgi.got = proc.wrote) BY Zenon, <1>1, <1>2 DEF Relay
<1>8. cgi'.st # "none" BY Zenon, <1>3
<1>9. CASE nc.st = "closed"
  <2>1. nc' = nc /\ pd' = pd /\ crashed' = TRUE BY Zenon, <1>9 DEF cgi_close
  <2>2. Stream' = Stream BY Zenon, <1>2, <2>1 DEF Stream
  <2>3. Shape' BY Zenon, <1>1, <1>2, <1>3, <2>1 DEF Shape, CgiConn
  <2>4. Answer' BY Zenon, <1>1, <1>2, <1>8, <2>1, <2>2 DEF Answer
  <2>5. Passed' BY Zenon, <1>1, <1>2, <1>3, <1>5, <1>9, <2>1 DEF Relay, Passed
  <2>6. Relay'
    <3>1. nc'.st # "open" BY Zenon, <1>9, <2>1
    <3>2. QED BY Zenon, <1>2, <1>3, <1>6, <1>7, <2>1, <2>5, <3>1 DEF Relay
  <2>7. Cut' BY Zenon, <1>1, <1>2, <2>1, <2>2 DEF Cut
  <2>8. QED BY Zenon, <1>1, <1>2, <2>3, <2>4, <2>6, <2>7 DEF Inv
<1>10. CASE nc.st = "open"
  <2>1. nc.st # "closed" BY Zenon, <1>10
  <2>2. nc' = [nc EXCEPT !.flags = @ \cup {"SEND_AND_CLOSE"}] /\ pd' = NoData /\ crashed' = crashed
    BY Zenon, <2>1 DEF cgi_close, cgi_ev_handler_close, free_http_proto_data
  <2>3. Mark(nc, nc.flags \cup {"SEND_AND_CLOSE"}, nc')
    <3>1. nc.flags \cup {"SEND_AND_CLOSE"} \in SUBSET Flag BY Zenon, <1>4 DEF Conn, Flag
    <3>2. PICK f \in SUBSET Flag : f = nc.flags \cup {"SEND_AND_CLOSE"} BY Zenon, <3>1
    <3>3. Mark(nc, f, [nc EXCEPT !.flags = f]) BY Zenon, <1>4, MarkSet
    <3>4. QED BY Zenon, <2>2, <3>2, <3>3
  <2>4. /\ nc' \in Conn /\ nc'.st = nc.st /\ nc'.recv = nc.recv /\ nc'.send = nc.send
        /\ nc'.flags = nc.flags \cup {"SEND_AND_CLOSE"}
    BY Zenon, <2>3 DEF Mark
  <2>5. Stream' = Stream BY Zenon, <1>2, <2>4 DEF Stream
  <2>6. /\ "USER_1" \in nc'.flags <=> "USER_1" \in nc.flags
        /\ "CLOSE_IMMEDIATELY" \in nc'.flags <=> "CLOSE_IMMEDIATELY" \in nc.flags
    BY Zenon, <2>4
  <2>7. Shape' BY Zenon, <1>1, <1>2, <1>3, <2>2, <2>4 DEF Shape, CgiConn
  <2>8. Answer' BY Zenon, <1>1, <1>2, <1>6, <1>8, <2>2, <2>4, <2>5 DEF Answer
  <2>9. Passing' BY Zenon, <1>1, <1>2, <1>3, <1>5, <1>10, <2>5, <2>6 DEF Relay, Passing
  <2>10. Relay'
    <3>1. nc'.st # "closed" BY Zenon, <2>1, <2>4
    <3>2. QED BY Zenon, <1>2, <1>3, <1>6, <1>7, <2>2, <2>4, <2>9, <3>1 DEF Relay
  <2>11. Cut' BY Zenon, <1>1, <1>2, <2>2, <2>5, <2>6 DEF Cut
  <2>12. QED BY Zenon, <1>1, <1>2, <2>7, <2>8, <2>10, <2>11 DEF Inv
<1>11. QED BY Zenon, <1>4, <1>9, <1>10


\* Part of the output of the program has been read.  Nothing is passed on
\* before the headers are complete or known to be broken; then the status line
\* and all that was read; then what follows.
LEMMA InvCgiRead == ASSUME Inv, cgi_read PROVE Inv'
<1>1. Shape /\ Answer /\ Relay /\ Cut /\ admit \in Verdicts BY Zenon DEF Inv
<1>2. /\ cgi.st = "open" /\ "CLOSE_IMMEDIATELY" \notin cgi.flags /\ gone' = gone /\ size' = size /\ pd' = pd
      /\ proc' = proc /\ out' = out /\ asked' = asked /\ admit' = admit
  BY Zenon DEF cgi_read, Open
<1>3. nc \in Conn /\ out \in Seq(Token) /\ nc.send \in Seq(Token) /\ nc.flags \in SUBSET Flag /\ cgi \in CgiConn
  <2>1. nc \in Conn /\ out \in Seq(Token) /\ cgi \in CgiConn BY Zenon, <1>1 DEF Shape, CgiConn
  <2>2. QED BY Zenon, <2>1 DEF Conn
<1>4. /\ asked.n \in Nat /\ cgi.fwd \in Nat /\ cgi.got \in Nat /\ proc.wrote \in Nat /\ proc.hdr \in Nat \ {0}
      /\ proc.bad \in BOOLEAN
  BY Zenon, <1>1, Numbers
<1>5. CASE nc.st = "closed"
  <2>1. nc' = nc /\ cgi' = cgi /\ crashed' = TRUE BY Zenon, <1>5 DEF cgi_read
  <2>2. Stream' = Stream BY Zenon, <1>2, <2>1 DEF Stream
  <2>3. /\ get_request_len(cgi.got)' = get_request_len(cgi.got)
        /\ get_request_len(proc.wrote)' = get_request_len(proc.wrote)
    BY Zenon, <1>2, <2>1 DEF get_request_len
  <2>4. Shape' BY Zenon, <1>1, <1>2, <2>1 DEF Shape
  <2>5. Answer' BY Zenon, <1>1, <1>2, <2>1, <2>2 DEF Answer
  <2>6. Passed => Passed' BY Zenon, <1>2, <2>1, <2>3 DEF Passed
  <2>7. Relay'
    <3>1. nc'.st # "open" BY Zenon, <1>5, <2>1
    <3>2. QED BY Zenon, <1>1, <1>2, <2>1, <2>6, <3>1 DEF Relay
  <2>8. Cut' BY Zenon, <1>1, <1>2, <2>1, <2>2 DEF Cut
  <2>9. QED BY Zenon, <1>1, <1>2, <2>4, <2>5, <2>7, <2>8 DEF Inv
<1>6. CASE nc.st # "closed"
  <2>1. crashed' = crashed /\ \E g \in cgi.got + 1 .. proc.wrote : cgi_ev_handler_recv(g)
    BY Zenon, <1>6 DEF cgi_read
  <2>2. PICK g \in cgi.got + 1 .. proc.wrote : cgi_ev_handler_recv(g) BY Zenon, <2>1
  <2>3. g \in Nat /\ cgi.got < g /\ g <= proc.wrote /\ g # 0 BY <1>4, SMT
  <2>4. nc.st = "open" BY Zenon, <1>3, <1>6 DEF Conn
  <2>5. Passing /\ asked.q.kind = "cgi" /\ nc.recv = NoReq /\ pd = NoData BY Zenon, <1>1, <1>2, <2>4 DEF Relay
  <2>6. cgi.st # "none" /\ cgi.st # "closed" BY Zenon, <1>2
  <2>7. get_request_len(g)' = get_request_len(g) BY Zenon, <1>2 DEF get_request_len
  <2>8. CASE "USER_1" \in nc.flags /\ get_request_len(g) = 0
    <3>1. nc' = nc /\ cgi' = [cgi EXCEPT !.got = g] BY Zenon, <2>2, <2>8 DEF cgi_ev_handler_recv
    <3>2. cgi' \in CgiConn /\ cgi'.st = cgi.st /\ cgi'.flags = cgi.flags /\ cgi'.got = g /\ cgi'.fwd = cgi.fwd
      BY <1>3, <2>3, <3>1, SMT DEF CgiConn
    <3>3. Stream' = Stream BY Zenon, <1>2, <3>1 DEF Stream
    <3>4. Stream = <<>> /\ cgi.fwd = 0 BY Zenon, <2>5, <2>8 DEF Passing
    <3>5. get_request_len(cgi.got)' = 0 BY Zenon, <2>7, <2>8, <3>2
    <3>6. Passing' BY Zenon, <2>5, <2>8, <3>1, <3>2, <3>3, <3>4, <3>5 DEF Passing
    <3>7. 0 <= g BY <2>3, SMT
    <3>8. Shape' BY Zenon, <1>1, <1>2, <2>1, <2>3, <3>1, <3>2, <3>4, <3>7 DEF Shape, CgiConn
    <3>9. Answer' BY Zenon, <1>1, <1>2, <2>6, <3>1, <3>2, <3>3 DEF Answer
    <3>10. Relay' BY Zenon, <1>2, <1>6, <2>5, <2>6, <3>1, <3>2, <3>6 DEF Relay
    <3>11. Cut' BY Zenon, <1>1, <1>2, <2>6, <3>1, <3>2, <3>3 DEF Cut
    <3>12. QED BY Zenon, <1>1, <1>2, <3>8, <3>9, <3>10, <3>11 DEF Inv
  <2>9. CASE ~("USER_1" \in nc.flags /\ get_request_len(g) = 0)
    <3>1. PICK line : line = IF ~("USER_1" \in nc.flags) THEN <<>>
                             ELSE IF get_request_len(g) < 0 THEN <<head(asked.n, 500, 0)>>
                             ELSE <<head(asked.n, 200, -1)>>
      BY Zenon
    <3>2. /\ nc' = [nc EXCEPT !.send = @ \o line \o body(asked.n, cgi.fwd + 1, g), !.flags = @ \ {"USER_1"}]
          /\ cgi' = [cgi EXCEPT !.got = g, !.fwd = g,
                       !.flags = IF "USER_1" \in nc.flags /\ get_request_len(g) < 0
                                 THEN @ \cup {"CLOSE_IMMEDIATELY"} ELSE @]
      BY Zenon, <2>2, <2>9, <3>1 DEF cgi_ev_handler_recv
    <3>3. PICK b : b = body(asked.n, cgi.fwd + 1, g) BY Zenon
    <3>4. cgi.fwd <= cgi.got BY Zenon, <1>1 DEF Shape
    <3>5. b \in Seq(Token)
      <4>1. cgi.fwd + 1 \in Int /\ g \in Int /\ cgi.fwd + 1 <= g + 1 BY <1>4, <2>3, <3>4, SMT
      <4>2. QED BY Zenon, <1>4, <3>3, <4>1, BodyTokens
    <3>6. get_request_len(g) # 0
      <4>1. CASE "USER_1" \in nc.flags BY Zenon, <2>9, <4>1
      <4>2. CASE "USER_1" \notin nc.flags
        <5>1. get_request_len(cgi.got) # 0 BY Zenon, <2>5, <4>2 DEF Passing
        <5>2. CASE proc.bad
          <6>1. get_request_len(g) = -1 BY Zenon, <5>2 DEF get_request_len
          <6>2. QED BY SMT, <6>1
        <5>3. CASE ~proc.bad
          <6>1. cgi.got >= proc.hdr BY Zenon, <5>1, <5>3 DEF get_request_len
          <6>2. g >= proc.hdr BY <1>4, <2>3, <6>1, SMT
          <6>3. get_request_len(g) = proc.hdr BY Zenon, <5>3, <6>2 DEF get_request_len
          <6>4. QED BY <1>4, <6>3, SMT
        <5>4. QED BY Zenon, <5>2, <5>3
      <4>3. QED BY Zenon, <4>1, <4>2
    <3>7. line \in Seq(Token) /\ Relays(asked.n, out \o ((nc.send \o line) \o b), g)
      <4>1. CASE "USER_1" \in nc.flags
        <5>1. Stream = <<>> /\ cgi.fwd = 0 BY Zenon, <2>5, <4>1 DEF Passing
        <5>2. out = <<>> /\ nc.send = <<>> BY SMT, <1>3, <5>1, ConcatEqualIffEmpty DEF Stream
        <5>3. \E h \in Lines(asked.n) : line = <<h>> BY Zenon, <3>1, <4>1 DEF Lines
        <5>4. PICK h \in Lines(asked.n) : line = <<h>> BY Zenon, <5>3
        <5>5. h \in Token BY Zenon, <1>4, LineToken
        <5>6. line \in Seq(Token) BY SMT, <5>4, <5>5
        <5>7. b = body(asked.n, 1, 1 + g - 1)
          <6>1. cgi.fwd + 1 = 1 /\ 1 + g - 1 = g BY <2>3, <5>1, SMT
          <6>2. QED BY Zenon, <3>3, <6>1
        <5>8. line \o b = Part(h, asked.n, 1, g) BY Zenon, <5>4, <5>7 DEF Part
        <5>9. <<>> \o line = line BY Zenon, <5>6, ConcatEmptySeq
        <5>10. line \o b \in Seq(Token) BY Zenon, <3>5, <5>6, ConcatProperties
        <5>11. <<>> \o (line \o b) = line \o b BY Zenon, <5>10, ConcatEmptySeq
        <5>12. out \o ((nc.send \o line) \o b) = Part(h, asked.n, 1, g) BY Zenon, <5>2, <5>8, <5>9, <5>11
        <5>13. QED BY Zenon, <5>6, <5>12 DEF Relays
      <4>2. CASE "USER_1" \notin nc.flags
        <5>1. Relays(asked.n, Stream, cgi.fwd) /\ cgi.fwd = cgi.got BY Zenon, <2>5, <4>2 DEF Passing
        <5>2. PICK h \in Lines(asked.n) : Stream = Part(h, asked.n, 1, cgi.fwd) BY Zenon, <5>1 DEF Relays
        <5>3. h \in Token BY Zenon, <1>4, LineToken
        <5>4. line = <<>> BY Zenon, <3>1, <4>2
        <5>5. line \in Seq(Token) BY SMT, <5>4
        <5>6. nc.send \o line = nc.send BY Zenon, <1>3, <5>4, ConcatEmptySeq
        <5>7. out \o (nc.send \o b) = (out \o nc.send) \o b BY Zenon, <1>3, <3>5, Regrouped
        <5>8. PICK f \in Nat : f = cgi.fwd BY Zenon, <1>4
        <5>a. cgi.got = f BY Zenon, <5>1, <5>8
        <5>b. f < g BY Zenon, <2>3, <5>a
        <5>c. g - f \in Nat /\ g = f + (g - f) BY <2>3, <5>b, SMT
        <5>9. PICK j \in Nat : g = f + j BY Zenon, <5>c
        <5>10. PICK i \in Nat : i = asked.n BY Zenon, <1>4
        <5>11. Grows(h, i, 1, f, j)
          <6>1. 1 \in Int BY SMT
          <6>2. QED BY Zenon, <5>3, <6>1, PartGrows
        <5>12. Part(h, i, 1, f) \o body(i, 1 + f, (1 + f) + j - 1) = Part(h, i, 1, g) BY Zenon, <5>9, <5>11 DEF Grows
        <5>13. b = body(i, 1 + f, (1 + f) + j - 1)
          <6>1. cgi.fwd + 1 = 1 + f /\ (1 + f) + j - 1 = g BY <5>8, <5>9, SMT
          <6>2. QED BY Zenon, <3>3, <5>10, <6>1
        <5>14. Stream = Part(h, i, 1, f) BY Zenon, <5>2, <5>8, <5>10
        <5>15. (out \o nc.send) \o b = Part(h, i, 1, g) BY Zenon, <5>12, <5>13, <5>14 DEF Stream
        <5>16. out \o ((nc.send \o line) \o b) = Part(h, asked.n, 1, g) BY Zenon, <5>6, <5>7, <5>10, <5>15
        <5>17. QED BY Zenon, <5>5, <5>16 DEF Relays
      <4>3. QED BY Zenon, <4>1, <4>2
    <3>8. (nc.send \o line) \o b \in Seq(Token)
      <4>1. nc.send \o line \in Seq(Token) BY Zenon, <1>3, <3>7, ConcatProperties
      <4>2. PICK x \in Seq(Token) : x = nc.send \o line BY Zenon, <4>1
      <4>3. x \o b \in Seq(Token) BY Zenon, <3>5, ConcatProperties
      <4>4. QED BY Zenon, <4>2, <4>3
    <3>9. /\ nc' \in Conn /\ nc'.st = nc.st /\ nc'.recv = nc.recv /\ nc'.send = (nc.send \o line) \o b
          /\ nc'.flags = nc.flags \ {"USER_1"}
      <4>1. PICK x \in Seq(Token) : x = (nc.send \o line) \o b BY Zenon, <3>8
      <4>2. PICK c : c = [nc EXCEPT !.send = x] BY Zenon
      <4>3. Send(nc, x, c) BY Zenon, <1>3, <4>2, SendSet
      <4>4. PICK f \in SUBSET Flag : f = nc.flags \ {"USER_1"} BY Zenon, <1>3
      <4>5. c \in Conn /\ c.flags = nc.flags BY Zenon, <4>3 DEF Send
      <4>6. nc' = [c EXCEPT !.flags = f] BY Zenon, <3>2, <3>3, <4>1, <4>2, <4>4, <4>5
      <4>7. Mark(c, f, nc') BY Zenon, <4>5, <4>6, MarkSet
      <4>8. QED BY Zenon, <4>1, <4>3, <4>4, <4>7 DEF Send, Mark
    <3>10. /\ cgi' \in CgiConn /\ cgi'.st = cgi.st /\ cgi'.got = g /\ cgi'.fwd = g
           /\ "CLOSE_IMMEDIATELY" \in cgi'.flags => proc.bad
      <4>1. PICK f \in SUBSET {"CLOSE_IMMEDIATELY"} :
              f = IF "USER_1" \in nc.flags /\ get_request_len(g) < 0 THEN cgi.flags \cup {"CLOSE_IMMEDIATELY"} ELSE cgi.flags
        BY Zenon, <1>3 DEF CgiConn
      <4>2. PICK c : c = [cgi EXCEPT !.got = g] BY Zenon
      <4>3. c \in CgiConn /\ c.st = cgi.st /\ c.got = g /\ c.flags = cgi.flags BY <1>3, <2>3, <4>2, SMT DEF CgiConn
      <4>4. PICK d : d = [c EXCEPT !.fwd = g] BY Zenon
      <4>5. d \in CgiConn /\ d.st = c.st /\ d.got = c.got /\ d.fwd = g /\ d.flags = c.flags
        BY <2>3, <4>3, <4>4, SMT DEF CgiConn
      <4>6. cgi' = [d EXCEPT !.flags = f] BY Zenon, <3>2, <4>1, <4>2, <4>3, <4>4, <4>5
      <4>7. cgi' \in CgiConn /\ cgi'.st = d.st /\ cgi'.got = d.got /\ cgi'.fwd = d.fwd /\ cgi'.flags = f
        BY <4>5, <4>6, SMT DEF CgiConn
      <4>8. "CLOSE_IMMEDIATELY" \in f => proc.bad
        <5>1. "CLOSE_IMMEDIATELY" \in f => get_request_len(g) < 0 BY Zenon, <1>2, <4>1
        <5>2. ~(proc.hdr < 0) /\ ~(0 < 0) BY <1>4, SMT
        <5>3. QED BY Zenon, <5>1, <5>2 DEF get_request_len
      <4>9. QED BY Zenon, <4>3, <4>5, <4>7, <4>8
    <3>11. Stream' = out \o ((nc.send \o line) \o b) BY Zenon, <1>2, <3>9 DEF Stream
    <3>12. /\ "SEND_AND_CLOSE" \in nc'.flags <=> "SEND_AND_CLOSE" \in nc.flags
           /\ "CLOSE_IMMEDIATELY" \in nc'.flags <=> "CLOSE_IMMEDIATELY" \in nc.flags
           /\ "USER_1" \notin nc'.flags
      BY Zenon, <3>9
    <3>13. get_request_len(cgi.got)' # 0 BY Zenon, <2>7, <3>6, <3>10
    <3>14. Relays(asked.n, Stream, cgi.fwd)' BY Zenon, <1>2, <3>7, <3>10, <3>11
    <3>15. Passing' BY Zenon, <2>5, <3>10, <3>12, <3>13, <3>14 DEF Passing
    <3>16. g <= g BY <2>3, SMT
    <3>17. Shape' BY Zenon, <1>1, <1>2, <2>1, <2>3, <3>9, <3>10, <3>16 DEF Shape, CgiConn
    <3>18. Answer'
      <4>q. asked.q # NoReq BY SMT, <2>5 DEF NoReq
      <4>1. asked.n # 0 BY Zenon, <1>1, <4>q DEF Answer
      <4>2. QED BY Zenon, <1>1, <1>2, <2>5, <2>6, <3>9, <3>10, <4>1 DEF Answer
    <3>19. Relay' BY Zenon, <1>2, <1>6, <2>5, <2>6, <3>9, <3>10, <3>15 DEF Relay
    <3>20. Cut' BY Zenon, <1>1, <1>2, <2>6, <3>10, <3>12 DEF Cut
    <3>21. QED BY Zenon, <1>1, <1>2, <3>17, <3>18, <3>19, <3>20 DEF Inv
  <2>10. QED BY Zenon, <2>8, <2>9
<1>7. QED BY Zenon, <1>5, <1>6


\* What is appended to a sequence that is not empty leaves its beginning alone
\* and, unless it is empty, makes it longer.
Follows(o, s) ==
    /\ (o \o s)[1] = o[1] /\ Len(o \o s) >= Len(o) /\ o \o s # <<>>
    /\ Len(o \o s) = Len(o) => s = <<>>

LEMMA Joined ==
    ASSUME NEW o \in Seq(Token), NEW s \in Seq(Token), o # <<>>
    PROVE  Follows(o, s)
<1>1. /\ Len(o \o s) = Len(o) + Len(s)
      /\ \A j \in 1 .. Len(o) + Len(s) : (o \o s)[j] = IF j <= Len(o) THEN o[j] ELSE s[j - Len(o)]
  BY Zenon, ConcatProperties
<1>2. Len(o) \in Nat /\ Len(s) \in Nat /\ Len(o) # 0 BY SMT, EmptySeq
<1>3. 1 \in 1 .. Len(o) + Len(s) /\ 1 <= Len(o) BY <1>2, SMT
<1>4. (o \o s)[1] = o[1] BY Zenon, <1>1, <1>3
<1>5. Len(o \o s) >= Len(o) /\ (Len(o \o s) = Len(o) => Len(s) = 0) BY <1>1, <1>2, SMT
<1>6. Len(s) = 0 => s = <<>> BY SMT, EmptySeq
<1>7. o \o s # <<>> BY SMT, ConcatEqualIffEmpty
<1>8. QED BY Zenon, <1>4, <1>5, <1>6, <1>7 DEF Follows

\* The first k units of a file's response are its head and k tokens; the head
\* is not that of an error.
Begun(a, k) ==
    LET s == Served(a.q.range, a.size, a.n, k) IN
    /\ s \in Seq(Token) /\ Len(s) = k + 1 /\ s # <<>> /\ s[1] # head(a.n, 400, 0)

LEMMA ServedBegins ==
    ASSUME NEW a \in Asked, a.q.kind = "file", NEW k \in Nat PROVE Begun(a, k)
<1>1. /\ a.n \in Nat /\ Status(a.q.range, a.size) \in {200, 206, 416} /\ Start(a.q.range, a.size) \in Int
      /\ head(a.n, Status(a.q.range, a.size), Total(a.q.range, a.size)) \in Token
  BY SMT, ServedHead
<1>s. Status(a.q.range, a.size) # 400 /\ a.n \in Nat BY <1>1, SMT
<1>h. PICK h \in Token : h = head(a.n, Status(a.q.range, a.size), Total(a.q.range, a.size)) BY Zenon, <1>1
<1>p. PICK p \in Int : p = Start(a.q.range, a.size) BY Zenon, <1>1
<1>i. PICK i \in Nat : i = a.n BY Zenon, <1>s
<1>x. PICK x : x = Part(h, i, p, k) BY Zenon
<1>2. x \in Seq(Token) /\ Len(x) = k + 1 /\ x[1] = h BY SMT, <1>x, PartIs
<1>3. x # <<>> BY SMT, <1>2
<1>4. h # head(a.n, 400, 0) BY SMT, <1>h, <1>s DEF head
<1>5. x = Served(a.q.range, a.size, a.n, k) BY Zenon, <1>h, <1>p, <1>i, <1>x DEF Served
<1>6. QED BY Zenon, <1>2, <1>3, <1>4, <1>5 DEF Begun

\* The stream o is a whole response.
Whole(a, o) ==
    \/ o = <<head(a.n, 400, 0)>>
    \/ a.q.kind \in {"put", "last"} /\ o = <<head(a.n, 200, 0)>>
    \/ a.q.kind = "file" /\ o = Served(a.q.range, a.size, a.n, Total(a.q.range, a.size))

\* When a whole response has left, nothing is waiting to be sent.
LEMMA Finished ==
    ASSUME NEW a \in Asked, NEW o \in Seq(Token), NEW s \in Seq(Token), NEW d \in File \cup {NoData},
           Answering(a, o \o s, d), Whole(a, o)
    PROVE  s = <<>> /\ Idle(d)
<1>n. a.n \in Nat
  <2>1. a.n \in 0 .. MaxReq BY SMT DEF Asked
  <2>2. QED BY <2>1, HttpAssumption, SMT
<1>x. PICK x : x = o \o s BY Zenon
<1>e. PICK e : e = head(a.n, 400, 0) BY Zenon
<1>f. PICK f : f = head(a.n, 200, 0) BY Zenon
<1>1. e # f BY SMT, <1>e, <1>f DEF head
<1>2. /\ <<e>> # <<>> /\ <<f>> # <<>> /\ <<e>>[1] = e /\ <<f>>[1] = f /\ Len(<<e>>) = 1 /\ Len(<<f>>) = 1
  BY SMT
<1>3. /\ x = <<>> \/ x = <<e>> \/ (a.q.kind \in {"put", "last"} /\ x = <<f>>)
         \/ (a.q.kind = "file" /\ \E k \in 0 .. Total(a.q.range, a.size) : x = Served(a.q.range, a.size, a.n, k))
      /\ Idle(d) \/ AtPlace(a, x, d)
  BY Zenon, <1>x, <1>e, <1>f DEF Answering, Told
<1>4. o = <<e>> \/ (a.q.kind \in {"put", "last"} /\ o = <<f>>)
      \/ (a.q.kind = "file" /\ o = Served(a.q.range, a.size, a.n, Total(a.q.range, a.size)))
  BY Zenon, <1>e, <1>f DEF Whole
<1>5. a.q.kind = "file" => Total(a.q.range, a.size) \in Nat BY SMT, ServedHead
<1>6. o # <<>>
  <2>1. a.q.kind = "file" => Begun(a, Total(a.q.range, a.size)) BY Zenon, <1>5, ServedBegins
  <2>2. QED BY Zenon, <1>2, <1>4, <2>1 DEF Begun
<1>7. /\ x[1] = o[1] /\ x # <<>> /\ Len(x) >= Len(o)
      /\ Len(x) = Len(o) => s = <<>>
  <2>1. Follows(o, s) BY Zenon, <1>6, Joined
  <2>2. QED BY Zenon, <1>x, <2>1 DEF Follows
<1>8. ASSUME a.q.kind = "file", NEW k \in 0 .. Total(a.q.range, a.size), x = Served(a.q.range, a.size, a.n, k)
      PROVE  Len(x) = k + 1 /\ x[1] # e
  <2>1. k \in Nat BY <1>5, <1>8, SMT
  <2>2. Begun(a, k) BY Zenon, <1>8, <2>1, ServedBegins
  <2>3. QED BY Zenon, <1>8, <1>e, <2>2 DEF Begun
<1>9. ASSUME AtPlace(a, x, d), ~Idle(d)
      PROVE  x[1] # e /\ a.q.kind = "file" /\ Len(x) = d.sent + 1 /\ d.cl = Total(a.q.range, a.size) /\ d.sent \in Nat
  <2>1. d \in File BY Zenon, <1>9 DEF Idle
  <2>2. d.sent \in Nat BY SMT, <2>1 DEF File
  <2>3. a.q.kind = "file" /\ x = Served(a.q.range, a.size, a.n, d.sent) /\ d.cl = Total(a.q.range, a.size)
    BY Zenon, <1>9 DEF AtPlace
  <2>4. Begun(a, d.sent) BY Zenon, <2>2, <2>3, ServedBegins
  <2>5. QED BY Zenon, <1>e, <2>2, <2>3, <2>4 DEF Begun
<1>10. CASE o = <<e>>
  <2>1. x[1] = e BY Zenon, <1>2, <1>7, <1>10
  <2>2. x = <<e>> BY Zenon, <1>1, <1>2, <1>3, <1>7, <1>8, <2>1
  <2>3. s = <<>> BY Zenon, <1>7, <1>10, <2>2
  <2>4. Idle(d) BY Zenon, <1>3, <1>9, <2>1
  <2>5. QED BY Zenon, <2>3, <2>4
<1>11. CASE a.q.kind \in {"put", "last"} /\ o = <<f>>
  <2>1. x[1] = f BY Zenon, <1>2, <1>7, <1>11
  <2>2. a.q.kind # "file" BY SMT, <1>11
  <2>3. x = <<f>> BY Zenon, <1>1, <1>2, <1>3, <1>7, <2>1, <2>2
  <2>4. s = <<>> BY Zenon, <1>7, <1>11, <2>3
  <2>5. Idle(d) BY Zenon, <1>3, <1>9, <2>2
  <2>6. QED BY Zenon, <2>4, <2>5
<1>12. CASE a.q.kind = "file" /\ o = Served(a.q.range, a.size, a.n, Total(a.q.range, a.size))
  <2>m. PICK m \in Nat : m = Total(a.q.range, a.size) BY Zenon, <1>5, <1>12
  <2>1. Begun(a, m) BY Zenon, <1>12, ServedBegins
  <2>2. Len(o) = m + 1 /\ o[1] # e BY Zenon, <1>e, <1>12, <2>m, <2>1 DEF Begun
  <2>3. a.q.kind \notin {"put", "last"} BY SMT, <1>12
  <2>4. x # <<e>> BY Zenon, <1>2, <1>7, <2>2
  <2>5. PICK k \in 0 .. m : x = Served(a.q.range, a.size, a.n, k) BY Zenon, <1>3, <1>7, <2>3, <2>4, <2>m
  <2>6. Len(x) = k + 1 BY Zenon, <1>8, <1>12, <2>5, <2>m
  <2>7. k = m BY <1>7, <2>2, <2>6, SMT
  <2>8. s = <<>> BY Zenon, <1>7, <2>2, <2>6, <2>7
  <2>9. Idle(d)
    <3>1. SUFFICES ASSUME ~Idle(d) PROVE FALSE BY Zenon
    <3>2. Len(x) = d.sent + 1 /\ d.cl = m /\ d.sent \in Nat BY Zenon, <1>3, <1>9, <2>m, <3>1
    <3>3. d.sent = d.cl BY <2>6, <2>7, <3>2, SMT
    <3>4. QED BY Zenon, <3>1, <3>3 DEF Idle
  <2>10. QED BY Zenon, <2>8, <2>9
<1>13. QED BY Zenon, <1>4, <1>10, <1>11, <1>12


\* Complete() is what Whole() says.
LEMMA CompleteIs == ASSUME Shape, Complete(out) PROVE Whole(asked, out)
<1>1. asked \in Asked /\ asked.q \in Requests \cup {NoReq}
  <2>1. asked \in Asked BY Zenon DEF Shape, Asked
  <2>2. QED BY SMT, <2>1 DEF Asked
<1>2. out \in Responses BY Zenon DEF Complete
<1>3. CASE asked.q.kind = "file"
  <2>1. asked.q.range \in Ranges BY Zenon, <1>1, <1>3, RequestKinds
  <2>2. FileResponse = Served(asked.q.range, asked.size, asked.n, Total(asked.q.range, asked.size))
    BY Zenon, <2>1, FileIs
  <2>3. out = <<head(asked.n, 400, 0)>> \/ out = FileResponse BY SMT, <1>2, <1>3 DEF Responses
  <2>4. QED BY Zenon, <1>3, <2>2, <2>3 DEF Whole
<1>4. CASE asked.q.kind \in {"put", "last"}
  <2>1. out = <<head(asked.n, 400, 0)>> \/ out = <<head(asked.n, 200, 0)>> BY SMT, <1>2, <1>4 DEF Responses
  <2>2. QED BY Zenon, <1>4, <2>1 DEF Whole
<1>5. CASE asked.q.kind \notin {"file", "put", "last"}
  <2>1. out = <<head(asked.n, 400, 0)>> BY SMT, <1>2, <1>5 DEF Responses
  <2>2. QED BY Zenon, <2>1 DEF Whole
<1>6. QED BY SMT, <1>3, <1>4, <1>5

\* A request is not NoReq.
LEMMA SomeRequest == ASSUME NEW q \in Requests PROVE q # NoReq
BY SMT DEF Requests, NoReq

\* The client sends its next request when the answer to the last is complete:
\* nothing of that one is left anywhere.
LEMMA InvClientSends == ASSUME Inv, NEW q \in Requests, client_sends(q) PROVE Inv'
<1>1. Shape /\ Answer /\ Relay /\ Cut /\ admit \in Verdicts BY Zenon DEF Inv
<1>2. /\ nc.st = "open" /\ asked.n < MaxReq /\ (asked.n # 0 => Complete(out) /\ asked.q.kind # "last")
      /\ asked' = [q |-> q, n |-> asked.n + 1, size |-> 0] /\ out' = <<>> /\ nc' = [nc EXCEPT !.recv = q]
      /\ pd' = pd /\ cgi' = cgi /\ proc' = proc /\ gone' = gone /\ size' = size /\ admit' = admit /\ crashed' = crashed
  BY Zenon DEF client_sends
<1>3. nc \in Conn /\ out \in Seq(Token) /\ asked \in Asked /\ pd \in File \cup {NoData}
  BY Zenon, <1>1 DEF Shape, Asked
<1>s. nc.send \in Seq(Token) BY Zenon, <1>3 DEF Conn
<1>4. asked.n \in 0 .. MaxReq /\ asked.n \in Nat /\ MaxReq \in Nat /\ MaxSize \in Nat
  <2>1. asked.n \in 0 .. MaxReq BY SMT, <1>3 DEF Asked
  <2>2. QED BY <2>1, HttpAssumption, SMT
<1>5. asked.n = 0 => asked.q.kind = "none" /\ Stream = <<>> /\ pd = NoData
  <2>1. asked.n = 0 => asked.q = NoReq /\ Stream = <<>> /\ pd = NoData BY Zenon, <1>1 DEF Answer
  <2>2. NoReq.kind = "none" BY SMT DEF NoReq
  <2>3. QED BY Zenon, <2>1, <2>2
<1>6. asked.q.kind # "cgi" /\ asked.q.kind # "last" BY Zenon, <1>2, <1>5 DEF Complete
<1>7. cgi.st = "none" BY Zenon, <1>1, <1>6 DEF Relay
<1>8. Answering(asked, Stream, pd) /\ "SEND_AND_CLOSE" \notin nc.flags BY Zenon, <1>1, <1>2, <1>6, <1>7 DEF Answer
<1>9. nc.send = <<>> /\ Idle(pd)
  <2>1. CASE asked.n = 0
    <3>1. nc.send = <<>> BY SMT, <1>3, <1>s, <1>5, <2>1, ConcatEqualIffEmpty DEF Stream
    <3>2. QED BY Zenon, <1>5, <2>1, <3>1 DEF Idle
  <2>2. CASE asked.n # 0
    <3>1. Whole(asked, out) BY Zenon, <1>1, <1>2, <2>2, CompleteIs
    <3>2. Answering(asked, out \o nc.send, pd) BY Zenon, <1>8 DEF Stream
    <3>3. QED BY Zenon, <1>3, <1>s, <3>1, <3>2, Finished
  <2>3. QED BY Zenon, <2>1, <2>2
<1>10. nc' \in Conn /\ nc'.st = nc.st /\ nc'.flags = nc.flags /\ nc'.recv = q /\ nc'.send = <<>>
  <2>1. nc' \in Conn /\ nc'.st = nc.st /\ nc'.flags = nc.flags /\ nc'.recv = q /\ nc'.send = nc.send
    BY SMT, <1>2, <1>3 DEF Conn
  <2>2. QED BY Zenon, <1>9, <2>1
<1>11. Stream' = <<>>
  <2>1. <<>> \o <<>> = <<>> BY SMT
  <2>2. QED BY Zenon, <1>2, <1>10, <2>1 DEF Stream
<1>12. asked'.q = q /\ asked'.n = asked.n + 1 /\ asked' \in Asked /\ asked'.n # 0
  <2>1. PICK m : m = asked.n + 1 BY Zenon
  <2>2. m \in 0 .. MaxReq /\ m # 0 /\ 0 \in 0 .. MaxSize BY <1>2, <1>4, <2>1, SMT
  <2>3. asked' = [q |-> q, n |-> m, size |-> 0] BY Zenon, <1>2, <2>1
  <2>4. asked'.q = q /\ asked'.n = m /\ asked' \in Asked BY SMT, <2>2, <2>3 DEF Asked
  <2>5. QED BY Zenon, <2>1, <2>2, <2>4
<1>13. Shape'
  <2>1. pd # NoData => pd.req \in 1 .. asked.n + 1 /\ pd.sent <= pd.cl
    <3>1. pd # NoData => pd.req \in 1 .. asked.n /\ pd.sent <= pd.cl BY Zenon, <1>1 DEF Shape
    <3>2. 1 .. asked.n \subseteq 1 .. asked.n + 1 BY <1>4, SMT
    <3>3. QED BY Zenon, <3>1, <3>2
  <2>2. <<>> \in Seq(Token) BY SMT
  <2>3. QED BY Zenon, <1>1, <1>2, <1>10, <1>12, <2>1, <2>2 DEF Shape, Asked
<1>14. Answer'
  <2>1. q # NoReq BY Zenon, SomeRequest
  <2>2. Told(asked, Stream)' /\ Answering(asked, Stream, pd)' BY Zenon, <1>2, <1>9, <1>11 DEF Told, Answering, Idle
  <2>3. Len(nc'.send) <= Buf BY SMT, <1>10, HttpAssumption
  <2>4. Idle(pd)' BY Zenon, <1>2, <1>9 DEF Idle
  <2>5. QED BY Zenon, <1>2, <1>8, <1>10, <1>11, <1>12, <2>1, <2>2, <2>3, <2>4 DEF Answer
<1>15. Relay' BY Zenon, <1>2, <1>7 DEF Relay
<1>16. Cut' BY Zenon, <1>1, <1>2, <1>7, <1>10, <1>11 DEF Cut
<1>17. QED BY Zenon, <1>1, <1>2, <1>13, <1>14, <1>15, <1>16 DEF Inv


-----------------------------------------------------------------------------
(* Serving a request                                                       *)

\* When a request is served nothing of an earlier one is left: c is the
\* connection that http_handler() hands to ns_serve_http(), d its data.
Ready(c, d) ==
    /\ nc.st = "open" /\ nc.recv = asked.q /\ asked.q # NoReq /\ asked.n # 0 /\ cgi.st = "none" /\ out = <<>>
    /\ c \in Conn /\ c.st = "open" /\ c.flags = nc.flags /\ c.recv = NoReq /\ c.send = <<>>
    /\ Sound(asked, d) /\ Idle(d) /\ (~admit.granted => d = NoData)
    /\ "CLOSE_IMMEDIATELY" \notin c.flags /\ ("SEND_AND_CLOSE" \in c.flags => asked.q.kind = "last")

\* The request is noted with the size of the file.
Noted ==
    /\ asked'.q = asked.q /\ asked'.n = asked.n /\ asked'.size = size /\ asked' \in Asked
    /\ out' = out /\ gone' = gone /\ admit' = admit /\ crashed' = crashed

\* The state in which ns_send_http_file() runs.
LEMMA ReadReady ==
    ASSUME Inv, read
    PROVE  /\ Noted
           /\ \E c, d : Ready(c, d) /\ ns_send_http_file(asked.q, asked.n, c, d)
<1>1. Shape /\ Answer /\ Relay /\ Cut /\ admit \in Verdicts BY Zenon DEF Inv
<1>2. /\ nc.st = "open" /\ "CLOSE_IMMEDIATELY" \notin nc.flags /\ nc.recv # NoReq
      /\ asked' = [asked EXCEPT !.size = size]
      /\ ns_send_http_file(nc.recv, asked.n, [http_handler_data(nc).nc EXCEPT !.recv = NoReq], http_handler_data(nc).pd)
      /\ out' = out /\ gone' = gone /\ admit' = admit /\ crashed' = crashed
  BY Zenon DEF read, Open
<1>3. nc \in Conn /\ out \in Seq(Token) /\ asked \in Asked /\ size \in 0 .. MaxSize
  BY Zenon, <1>1 DEF Shape, Asked
<1>s. nc.send \in Seq(Token) BY Zenon, <1>3 DEF Conn
<1>4. nc.recv = asked.q /\ Stream = <<>> /\ Idle(pd) BY Zenon, <1>1, <1>2 DEF Answer
<1>5. cgi.st = "none" BY Zenon, <1>1, <1>2 DEF Relay
<1>6. out = <<>> /\ nc.send = <<>> BY SMT, <1>3, <1>s, <1>4, ConcatEqualIffEmpty DEF Stream
<1>7. asked.n # 0 BY Zenon, <1>1, <1>2, <1>4 DEF Answer
<1>8. "SEND_AND_CLOSE" \in nc.flags => asked.q.kind = "last" BY Zenon, <1>1, <1>5 DEF Answer
<1>9. ~admit.granted => pd = NoData BY Zenon, <1>1 DEF Cut
<1>10. Noted
  <2>a. asked' = [asked EXCEPT !.size = size] BY Zenon, <1>2
  <2>1. asked'.q = asked.q /\ asked'.n = asked.n /\ asked'.size = size /\ asked' \in Asked
    BY SMT, <2>a, <1>3 DEF Asked
  <2>2. QED BY Zenon, <1>2, <2>1 DEF Noted
<1>t. PICK t : t = http_handler_data(nc) BY Zenon
<1>11. Handled(nc, t) BY Zenon, <1>1, <1>3, <1>t, HandlerTypes
<1>12. t.nc = nc /\ Sound(asked, t.pd) /\ Idle(t.pd) /\ (~admit.granted => t.pd = NoData)
  BY Zenon, <1>4, <1>9, <1>11 DEF Handled
<1>c. PICK c : c = [nc EXCEPT !.recv = NoReq] BY Zenon
<1>13. c \in Conn /\ c.st = nc.st /\ c.flags = nc.flags /\ c.recv = NoReq /\ c.send = nc.send
  <2>1. PICK r \in Requests \cup {NoReq} : r = NoReq BY Zenon
  <2>2. c = [nc EXCEPT !.recv = r] BY Zenon, <1>c, <2>1
  <2>3. Recv(nc, r, c) BY Zenon, <1>3, <2>2, RecvSet
  <2>4. QED BY Zenon, <2>1, <2>3 DEF Recv
<1>14. Ready(c, t.pd) BY Zenon, <1>2, <1>4, <1>5, <1>6, <1>7, <1>8, <1>12, <1>13 DEF Ready
<1>15. ns_send_http_file(asked.q, asked.n, c, t.pd) BY Zenon, <1>2, <1>4, <1>12, <1>c, <1>t
<1>16. QED BY Zenon, <1>10, <1>14, <1>15

\* What ns_send_http_file() leaves for any request but one for a program.
Replied ==
    /\ nc' \in Conn /\ nc'.st = "open" /\ nc'.recv = NoReq /\ Len(nc'.send) <= Buf
    /\ Sound(asked, pd') /\ Answering(asked', nc'.send, pd')
    /\ "SEND_AND_CLOSE" \in nc'.flags => asked.q.kind = "last"
    /\ "CLOSE_IMMEDIATELY" \in nc'.flags => ~admit.granted
    /\ ~admit.granted => nc'.send = <<>> /\ pd' = NoData
    /\ size' \in 0 .. MaxSize /\ cgi' = cgi /\ proc' = proc

\* That is enough.
LEMMA RepliedInv == ASSUME Inv, Noted, NEW c, NEW d, Ready(c, d), Replied PROVE Inv'
<1>1. Shape /\ Answer /\ Relay /\ Cut /\ admit \in Verdicts BY Zenon DEF Inv
<1>2. /\ asked'.q = asked.q /\ asked'.n = asked.n /\ asked' \in Asked
      /\ out' = out /\ gone' = gone /\ admit' = admit /\ crashed' = crashed
  BY Zenon DEF Noted
<1>3. nc.st = "open" /\ asked.q # NoReq /\ asked.n # 0 /\ cgi.st = "none" /\ out = <<>> BY Zenon DEF Ready
<1>4. /\ nc' \in Conn /\ nc'.st = "open" /\ nc'.recv = NoReq /\ Len(nc'.send) <= Buf
      /\ Sound(asked, pd') /\ Answering(asked', nc'.send, pd')
      /\ "SEND_AND_CLOSE" \in nc'.flags => asked.q.kind = "last"
      /\ "CLOSE_IMMEDIATELY" \in nc'.flags => ~admit.granted
      /\ ~admit.granted => nc'.send = <<>> /\ pd' = NoData
      /\ size' \in 0 .. MaxSize /\ cgi' = cgi /\ proc' = proc
  BY Zenon DEF Replied
<1>5. Stream' = nc'.send
  <2>1. nc'.send \in Seq(Token) BY Zenon, <1>4 DEF Conn
  <2>2. <<>> \o nc'.send = nc'.send BY Zenon, <2>1, ConcatEmptySeq
  <2>3. QED BY Zenon, <1>2, <1>3, <2>2 DEF Stream
<1>6. Shape' BY Zenon, <1>1, <1>2, <1>4 DEF Shape, Sound, Asked
<1>7. Answer'
  <2>1. Told(asked, Stream)' /\ Answering(asked, Stream, pd)' BY Zenon, <1>4, <1>5 DEF Answering
  <2>2. QED BY Zenon, <1>2, <1>3, <1>4, <2>1 DEF Answer
<1>8. Relay' BY Zenon, <1>3, <1>4 DEF Relay
<1>9. Cut' BY Zenon, <1>2, <1>3, <1>4, <1>5 DEF Cut
<1>10. QED BY Zenon, <1>1, <1>2, <1>6, <1>7, <1>8, <1>9 DEF Inv


\* A single head in an empty buffer.
LEMMA OneHead ==
    ASSUME NEW c \in Conn, c.send = <<>>, NEW h \in Token
    PROVE  Send(c, <<h>>, [c EXCEPT !.send = Append(@, h)]) /\ Len(<<h>>) <= Buf
<1>1. Append(<<>>, h) = <<h>> /\ <<h>> \in Seq(Token) /\ Len(<<h>>) <= Buf BY SMT, HttpAssumption
<1>2. [c EXCEPT !.send = Append(@, h)] = [c EXCEPT !.send = <<h>>] BY Zenon, <1>1
<1>3. Send(c, <<h>>, [c EXCEPT !.send = <<h>>]) BY Zenon, <1>1, SendSet
<1>4. QED BY Zenon, <1>1, <1>2, <1>3

\* A peer that is not admitted, and the answers of one piece.
LEMMA RepliedShort ==
    ASSUME Inv, Noted, NEW c, NEW d, Ready(c, d),
           \/ ~admit.granted /\ ns_send_http_file(asked.q, asked.n, c, d)
           \/ admit.granted /\ reply(asked.n, c, d)
           \/ admit.granted /\ asked.q.kind = "last" /\ reply_and_close(asked.n, c, d)
           \/ admit.granted /\ asked.q.kind = "put" /\ handle_put(asked.n, c, asked.q.len)
    PROVE  Replied
<1>1. Shape BY Zenon DEF Inv
<1>2. asked \in Asked /\ size \in 0 .. MaxSize BY Zenon, <1>1 DEF Shape, Asked
<1>3. asked.n \in Nat /\ asked.q \in Requests \cup {NoReq}
  <2>1. asked.n \in 0 .. MaxReq /\ asked.q \in Requests \cup {NoReq} BY SMT, <1>2 DEF Asked
  <2>2. QED BY <2>1, HttpAssumption, SMT
<1>4. /\ c \in Conn /\ c.st = "open" /\ c.recv = NoReq /\ c.send = <<>>
      /\ Sound(asked, d) /\ Idle(d) /\ (~admit.granted => d = NoData)
      /\ "CLOSE_IMMEDIATELY" \notin c.flags /\ ("SEND_AND_CLOSE" \in c.flags => asked.q.kind = "last")
  BY Zenon DEF Ready
<1>f. c.flags \in SUBSET Flag BY Zenon, <1>4 DEF Conn
<1>5. asked'.q = asked.q /\ asked'.n = asked.n BY Zenon DEF Noted
<1>6. Sound(asked, NoData) /\ Idle(NoData) BY Zenon DEF Sound, Idle
<1>e. PICK e \in Token : e = head(asked.n, 400, 0)
  <2>1. head(asked.n, 400, 0) \in Token BY SMT, <1>3, HeadToken
  <2>2. QED BY Zenon, <2>1
<1>o. PICK o \in Token : o = head(asked.n, 200, 0)
  <2>1. head(asked.n, 200, 0) \in Token BY SMT, <1>3, HeadToken
  <2>2. QED BY Zenon, <2>1
<1>7. CASE ~admit.granted /\ ns_send_http_file(asked.q, asked.n, c, d)
  <2>1. PICK f \in SUBSET Flag : f = c.flags \cup {"CLOSE_IMMEDIATELY"} BY Zenon, <1>f DEF Flag
  <2>2. nc' = [c EXCEPT !.flags = f] /\ pd' = d /\ cgi' = cgi /\ proc' = proc /\ size' = size
    BY Zenon, <1>7, <2>1 DEF ns_send_http_file
  <2>3. Mark(c, f, nc') BY Zenon, <1>4, <2>2, MarkSet
  <2>4. nc' \in Conn /\ nc'.st = "open" /\ nc'.recv = NoReq /\ nc'.send = <<>> /\ nc'.flags = f
    BY Zenon, <1>4, <2>3 DEF Mark
  <2>5. Len(nc'.send) <= Buf BY SMT, <2>4, HttpAssumption
  <2>6. Answering(asked', nc'.send, pd') BY Zenon, <1>4, <2>2, <2>4 DEF Answering, Told, Idle
  <2>7. "SEND_AND_CLOSE" \in nc'.flags => asked.q.kind = "last"
    <3>1. f = c.flags \cup {"CLOSE_IMMEDIATELY"} /\ ("SEND_AND_CLOSE" \in c.flags => asked.q.kind = "last")
      BY Zenon, <1>4, <2>1
    <3>2. "SEND_AND_CLOSE" \in f => asked.q.kind = "last" BY SMT, <3>1
    <3>3. QED BY Zenon, <2>4, <3>2
  <2>8. QED BY Zenon, <1>2, <1>4, <1>7, <2>2, <2>4, <2>5, <2>6, <2>7 DEF Replied
<1>8. CASE admit.granted /\ reply(asked.n, c, d)
  <2>1. /\ nc' = [c EXCEPT !.send = Append(@, e)] /\ pd' \in {d, NoData}
        /\ cgi' = cgi /\ proc' = proc /\ size' = size
    BY Zenon, <1>8, <1>e DEF reply, free_http_proto_data
  <2>2. Send(c, <<e>>, nc') /\ Len(<<e>>) <= Buf BY Zenon, <1>4, <2>1, OneHead
  <2>3. nc' \in Conn /\ nc'.st = "open" /\ nc'.recv = NoReq /\ nc'.send = <<e>> /\ nc'.flags = c.flags
    BY Zenon, <1>4, <2>2 DEF Send
  <2>4. Sound(asked, pd') /\ Idle(pd') BY Zenon, <1>4, <1>6, <2>1
  <2>5. Answering(asked', nc'.send, pd') BY Zenon, <1>5, <1>e, <2>3, <2>4 DEF Answering, Told
  <2>6. QED BY Zenon, <1>2, <1>4, <1>8, <2>1, <2>2, <2>3, <2>4, <2>5 DEF Replied
<1>9. CASE admit.granted /\ asked.q.kind = "last" /\ reply_and_close(asked.n, c, d)
  <2>1. PICK f \in SUBSET Flag : f = c.flags \cup {"SEND_AND_CLOSE"} BY Zenon, <1>f DEF Flag
  <2>2. /\ nc' = [c EXCEPT !.send = Append(@, o), !.flags = f]
        /\ pd' = d /\ cgi' = cgi /\ proc' = proc /\ size' = size
    BY Zenon, <1>9, <1>o, <2>1 DEF reply_and_close
  <2>3. PICK b : b = [c EXCEPT !.send = Append(@, o)] BY Zenon
  <2>4. Send(c, <<o>>, b) /\ Len(<<o>>) <= Buf BY Zenon, <1>4, <2>3, OneHead
  <2>5. b \in Conn /\ nc' = [b EXCEPT !.flags = f] BY Zenon, <2>2, <2>3, <2>4 DEF Send
  <2>6. Mark(b, f, nc') BY Zenon, <2>5, MarkSet
  <2>7. nc' \in Conn /\ nc'.st = "open" /\ nc'.recv = NoReq /\ nc'.send = <<o>> /\ nc'.flags = f
    BY Zenon, <1>4, <2>4, <2>6 DEF Send, Mark
  <2>8. Answering(asked', nc'.send, pd')
    <3>1. asked.q.kind \in {"put", "last"} BY SMT, <1>9
    <3>2. asked'.q.kind \in {"put", "last"} /\ nc'.send = <<head(asked'.n, 200, 0)>>
      BY Zenon, <1>5, <1>o, <2>7, <3>1
    <3>3. Told(asked', nc'.send) BY Zenon, <3>2 DEF Told
    <3>4. QED BY Zenon, <1>4, <2>2, <3>3 DEF Answering
  <2>9. "CLOSE_IMMEDIATELY" \notin nc'.flags
    <3>1. f = c.flags \cup {"SEND_AND_CLOSE"} /\ "CLOSE_IMMEDIATELY" \notin c.flags BY Zenon, <1>4, <2>1
    <3>2. "CLOSE_IMMEDIATELY" \notin f BY SMT, <3>1
    <3>3. QED BY Zenon, <2>7, <3>2
  <2>10. QED BY Zenon, <1>2, <1>4, <1>9, <2>2, <2>4, <2>7, <2>8, <2>9 DEF Replied
<1>10. CASE admit.granted /\ asked.q.kind = "put" /\ handle_put(asked.n, c, asked.q.len)
  <2>1. nc' = [c EXCEPT !.send = Append(@, o)] /\ pd' = NoData /\ cgi' = cgi /\ proc' = proc /\ size' = asked.q.len
    BY Zenon, <1>10, <1>o DEF handle_put, free_http_proto_data
  <2>2. Send(c, <<o>>, nc') /\ Len(<<o>>) <= Buf BY Zenon, <1>4, <2>1, OneHead
  <2>3. nc' \in Conn /\ nc'.st = "open" /\ nc'.recv = NoReq /\ nc'.send = <<o>> /\ nc'.flags = c.flags
    BY Zenon, <1>4, <2>2 DEF Send
  <2>4. Answering(asked', nc'.send, pd')
    <3>1. asked.q.kind \in {"put", "last"} BY SMT, <1>10
    <3>2. asked'.q.kind \in {"put", "last"} /\ nc'.send = <<head(asked'.n, 200, 0)>>
      BY Zenon, <1>5, <1>o, <2>3, <3>1
    <3>3. Told(asked', nc'.send) BY Zenon, <3>2 DEF Told
    <3>4. QED BY Zenon, <1>6, <2>1, <3>3 DEF Answering
  <2>5. size' \in 0 .. MaxSize BY Zenon, <1>3, <1>10, <2>1, RequestKinds
  <2>6. QED BY Zenon, <1>4, <1>6, <1>10, <2>1, <2>2, <2>3, <2>4, <2>5 DEF Replied
<1>11. QED BY Zenon, <1>7, <1>8, <1>9, <1>10


\* A file: its head, and as much of it as the buffer takes.
LEMMA RepliedFile ==
    ASSUME Inv, Noted, NEW c, NEW d, Ready(c, d), admit.granted, asked.q.kind = "file",
           send_file(asked.n, c, asked.q.range)
    PROVE  Replied
<1>1. Shape BY Zenon DEF Inv
<1>2. asked \in Asked /\ size \in 0 .. MaxSize BY Zenon, <1>1 DEF Shape, Asked
<1>4. /\ c \in Conn /\ c.st = "open" /\ c.recv = NoReq /\ c.send = <<>> /\ out = <<>> /\ asked.n # 0
      /\ "CLOSE_IMMEDIATELY" \notin c.flags /\ ("SEND_AND_CLOSE" \in c.flags => asked.q.kind = "last")
  BY Zenon DEF Ready
<1>a. PICK a : a = asked' BY Zenon
<1>5. a.q = asked.q /\ a.n = asked.n /\ a.size = size /\ a \in Asked BY Zenon, <1>a DEF Noted
<1>6. a.q.kind = "file" BY Zenon, <1>5
<1>r. PICK r : r = a.q.range BY Zenon
<1>i. PICK i : i = a.n BY Zenon
<1>7. /\ r \in Ranges /\ i \in Nat /\ Total(r, size) \in Nat /\ Start(r, size) \in 0 .. MaxSize
      /\ Start(r, size) \in Int /\ head(i, Status(r, size), Total(r, size)) \in Token
  BY SMT, <1>5, <1>6, <1>r, <1>i, ServedHead
<1>h. PICK h \in Token : h = head(i, Status(r, size), Total(r, size)) BY Zenon, <1>7
<1>m. PICK m \in Nat : m = Total(r, size) BY Zenon, <1>7
<1>p. PICK p \in 0 .. MaxSize : p = Start(r, size) BY Zenon, <1>7
<1>b. PICK b : b = [c EXCEPT !.send = Append(@, h)] BY Zenon
<1>e. PICK e : e = [type |-> "DATA_FILE", req |-> i, cl |-> m, sent |-> 0, pos |-> p] BY Zenon
<1>t. PICK t : t = transfer_file_data(b, e) BY Zenon
<1>8. nc' = t.nc /\ pd' = t.pd /\ cgi' = cgi /\ proc' = proc /\ size' = size
  <2>1. r = asked.q.range /\ i = asked.n BY Zenon, <1>5, <1>r, <1>i
  <2>2. /\ nc' = ns_send_http_file2(c, i, r).nc /\ pd' = ns_send_http_file2(c, i, r).pd
        /\ cgi' = cgi /\ proc' = proc /\ size' = size
    BY Zenon, <2>1 DEF send_file
  <2>3. ns_send_http_file2(c, i, r) = t
    <3>1. b = [c EXCEPT !.send = Append(@, head(i, Status(r, size), Total(r, size)))] BY Zenon, <1>h, <1>b
    <3>2. e = [type |-> "DATA_FILE", req |-> i, cl |-> Total(r, size), sent |-> 0, pos |-> Start(r, size)]
      BY Zenon, <1>m, <1>p, <1>e
    <3>3. r \in Ranges BY Zenon, <1>7
    <3>4. ns_send_http_file2(c, i, r) = transfer_file_data(b, e) BY Zenon, <1>1, <3>1, <3>2, <3>3, FileStarts
    <3>5. QED BY Zenon, <1>t, <3>4
  <2>4. QED BY Zenon, <2>2, <2>3
<1>9. Send(c, <<h>>, b) /\ Len(<<h>>) <= Buf BY Zenon, <1>4, <1>b, OneHead
<1>10. b \in Conn /\ b.st = "open" /\ b.recv = NoReq /\ b.flags = c.flags /\ b.send = <<h>> /\ Len(b.send) <= Buf
  BY Zenon, <1>4, <1>9 DEF Send
<1>11. e \in File /\ e.req = i /\ e.cl = m /\ e.sent = 0 /\ e.pos = p BY SMT, <1>7, <1>e DEF File
<1>12. e.sent <= e.cl BY SMT, <1>11
<1>13. Transfers(b, e, t) BY Zenon, <1>1, <1>10, <1>11, <1>t, TransferEffect
<1>14. Carries(b, e, t) BY Zenon, <1>10, <1>11, <1>12, <1>13, TransferTypes
<1>15. <<h>> \in Seq(Token) /\ <<>> \in Seq(Token) /\ <<>> \o <<h>> = <<h>> BY SMT
<1>16. <<h>> = Served(r, size, i, 0)
  <2>1. p \in Int BY Zenon, <1>7, <1>p
  <2>2. Part(h, i, p, 0) = <<h>> BY SMT, <1>7, <2>1, PartNone
  <2>3. QED BY Zenon, <1>h, <1>p, <2>2 DEF Served
<1>17. Answering(a, <<>> \o b.send, e)
  <2>1. 0 \in 0 .. m /\ p = p + 0 BY SMT, <1>7
  <2>2. Told(a, <<h>>) BY Zenon, <1>5, <1>6, <1>r, <1>i, <1>m, <1>16, <2>1 DEF Told
  <2>3. AtPlace(a, <<h>>, e) BY Zenon, <1>5, <1>6, <1>r, <1>i, <1>m, <1>p, <1>11, <1>16, <2>1 DEF AtPlace
  <2>4. QED BY Zenon, <1>10, <1>15, <2>2, <2>3 DEF Answering
<1>18. Answering(a, <<>> \o t.nc.send, t.pd)
  BY Zenon, <1>5, <1>10, <1>11, <1>12, <1>13, <1>15, <1>17, TransferKeeps
<1>19. /\ t.nc \in Conn /\ t.nc.st = "open" /\ t.nc.recv = NoReq /\ t.nc.flags = c.flags /\ Len(t.nc.send) <= Buf
       /\ t.pd = NoData \/ (t.pd \in File /\ t.pd.req = i /\ t.pd.sent <= t.pd.cl)
  BY Zenon, <1>10, <1>11, <1>14 DEF Carries
<1>20. <<>> \o t.nc.send = t.nc.send
  <2>1. t.nc.send \in Seq(Token) BY Zenon, <1>19 DEF Conn
  <2>2. QED BY Zenon, <2>1, ConcatEmptySeq
<1>21. Sound(asked, t.pd)
  <2>1. i \in 1 .. asked.n
    <3>1. i = asked.n /\ i # 0 BY Zenon, <1>4, <1>5, <1>i
    <3>2. i \in 1 .. i BY <1>7, <3>1, SMT
    <3>3. QED BY Zenon, <3>1, <3>2
  <2>2. QED BY Zenon, <1>19, <2>1 DEF Sound
<1>22. QED BY Zenon, <1>2, <1>4, <1>8, <1>18, <1>19, <1>20, <1>21, <1>a DEF Replied

\* A program is started: nothing has been passed on yet.
LEMMA InvStarts ==
    ASSUME Inv, Noted, NEW c, NEW d, Ready(c, d), admit.granted, asked.q.kind = "cgi", handle_cgi(c)
    PROVE  Inv'
<1>1. Shape /\ Answer /\ Relay /\ Cut /\ admit \in Verdicts BY Zenon DEF Inv
<1>2. /\ asked'.q = asked.q /\ asked'.n = asked.n /\ asked' \in Asked
      /\ out' = out /\ gone' = gone /\ admit' = admit /\ crashed' = crashed
  BY Zenon DEF Noted
<1>3. /\ nc.st = "open" /\ asked.q # NoReq /\ asked.n # 0 /\ out = <<>>
      /\ c \in Conn /\ c.st = "open" /\ c.recv = NoReq /\ c.send = <<>>
      /\ "CLOSE_IMMEDIATELY" \notin c.flags /\ ("SEND_AND_CLOSE" \in c.flags => asked.q.kind = "last")
  BY Zenon DEF Ready
<1>f. PICK f \in SUBSET Flag : f = c.flags \cup {"USER_1"}
  <2>1. c.flags \in SUBSET Flag BY Zenon, <1>3 DEF Conn
  <2>2. QED BY Zenon, <2>1 DEF Flag
<1>4. /\ nc' = [c EXCEPT !.flags = f] /\ pd' = NoData /\ size' = size
      /\ cgi' = [st |-> "open", flags |-> {}, got |-> 0, fwd |-> 0]
      /\ \E h \in 1 .. MaxOut, b \in BOOLEAN : proc' = [st |-> "runs", wrote |-> 0, hdr |-> h, bad |-> b]
  BY Zenon, <1>f DEF handle_cgi, free_http_proto_data
<1>5. Mark(c, f, nc') BY Zenon, <1>3, <1>4, MarkSet
<1>6. nc' \in Conn /\ nc'.st = "open" /\ nc'.recv = NoReq /\ nc'.send = <<>> /\ nc'.flags = f
  BY Zenon, <1>3, <1>5 DEF Mark
<1>7. "USER_1" \in f /\ "CLOSE_IMMEDIATELY" \notin f /\ "SEND_AND_CLOSE" \notin f
  <2>1. "CLOSE_IMMEDIATELY" \notin c.flags /\ "SEND_AND_CLOSE" \notin c.flags BY Zenon, <1>3
  <2>2. QED BY SMT, <1>f, <2>1
<1>8. Stream' = <<>>
  <2>1. <<>> \o <<>> = <<>> BY SMT
  <2>2. QED BY Zenon, <1>2, <1>3, <1>6, <2>1 DEF Stream
<1>9. cgi' \in CgiConn /\ cgi'.st = "open" /\ cgi'.flags = {} /\ cgi'.got = 0 /\ cgi'.fwd = 0
  <2>1. cgi' = [st |-> "open", flags |-> {}, got |-> 0, fwd |-> 0] BY Zenon, <1>4
  <2>2. QED BY SMT, <2>1 DEF CgiConn
<1>10. /\ proc' \in [st : {"none", "runs", "exited"}, wrote : Nat, hdr : Nat \ {0}, bad : BOOLEAN]
       /\ proc'.wrote = 0
  <2>1. PICK h \in 1 .. MaxOut, b \in BOOLEAN : proc' = [st |-> "runs", wrote |-> 0, hdr |-> h, bad |-> b]
    BY Zenon, <1>4
  <2>2. h \in Nat \ {0} BY HttpAssumption, SMT
  <2>3. QED BY SMT, <2>1, <2>2
<1>11. 0 <= 0 BY SMT
<1>12. Shape' BY Zenon, <1>1, <1>2, <1>4, <1>6, <1>9, <1>10, <1>11 DEF Shape, Asked, CgiConn
<1>13. "open" # "none" /\ "open" # "closed" BY Zenon
<1>14. Answer' BY Zenon, <1>2, <1>3, <1>6, <1>9, <1>13 DEF Answer
<1>15. Passing' BY Zenon, <1>6, <1>7, <1>8, <1>9 DEF Passing
<1>16. Relay' BY Zenon, <1>2, <1>4, <1>6, <1>9, <1>13, <1>15 DEF Relay
<1>17. Cut' BY Zenon, <1>2, <1>6, <1>7 DEF Cut
<1>18. QED BY Zenon, <1>1, <1>2, <1>12, <1>14, <1>16, <1>17 DEF Inv

\* NS_RECV with a whole request.
LEMMA InvRead == ASSUME Inv, read PROVE Inv'
<1>1. Noted BY Zenon, ReadReady
<1>2. PICK c, d : Ready(c, d) /\ ns_send_http_file(asked.q, asked.n, c, d) BY Zenon, ReadReady
<1>3. CASE ~admit.granted
  <2>1. Replied BY Zenon, <1>1, <1>2, <1>3, RepliedShort
  <2>2. QED BY Zenon, <1>1, <1>2, <2>1, RepliedInv
<1>4. CASE admit.granted
  <2>1. \/ reply(asked.n, c, d)
        \/ asked.q.kind = "last" /\ reply_and_close(asked.n, c, d)
        \/ asked.q.kind = "put" /\ handle_put(asked.n, c, asked.q.len)
        \/ asked.q.kind = "cgi" /\ handle_cgi(c)
        \/ asked.q.kind = "file" /\ send_file(asked.n, c, asked.q.range)
    BY Zenon, <1>2, <1>4 DEF ns_send_http_file
  <2>2. CASE asked.q.kind = "cgi" /\ handle_cgi(c) BY Zenon, <1>1, <1>2, <1>4, <2>2, InvStarts
  <2>3. CASE asked.q.kind = "file" /\ send_file(asked.n, c, asked.q.range)
    <3>1. Replied BY Zenon, <1>1, <1>2, <1>4, <2>3, RepliedFile
    <3>2. QED BY Zenon, <1>1, <1>2, <3>1, RepliedInv
  <2>4. CASE \/ reply(asked.n, c, d)
             \/ asked.q.kind = "last" /\ reply_and_close(asked.n, c, d)
             \/ asked.q.kind = "put" /\ handle_put(asked.n, c, asked.q.len)
    <3>1. Replied BY Zenon, <1>1, <1>2, <1>4, <2>4, RepliedShort
    <3>2. QED BY Zenon, <1>1, <1>2, <3>1, RepliedInv
  <2>5. QED BY Zenon, <2>1, <2>2, <2>3, <2>4
<1>5. QED BY Zenon, <1>3, <1>4


-----------------------------------------------------------------------------
(* The theorems                                                            *)

\* Nothing is asked or sent at first.
LEMMA InvInit == ASSUME Init PROVE Inv
<1>1. /\ nc = [st |-> "open", flags |-> {}, recv |-> NoReq, send |-> <<>>]
      /\ cgi = [st |-> "none", flags |-> {}, got |-> 0, fwd |-> 0]
      /\ proc = [st |-> "none", wrote |-> 0, hdr |-> 1, bad |-> FALSE]
      /\ asked = [q |-> NoReq, n |-> 0, size |-> 0]
      /\ pd = NoData /\ out = <<>> /\ gone = FALSE /\ crashed = FALSE
      /\ size \in 0 .. MaxSize /\ admit \in Verdicts
  BY Zenon DEF Init
<1>2. nc \in Conn /\ nc.st = "open" /\ nc.flags = {} /\ nc.recv = NoReq /\ nc.send = <<>>
  <2>1. PICK r \in Requests \cup {NoReq} : r = NoReq BY Zenon
  <2>2. nc = [st |-> "open", flags |-> {}, recv |-> r, send |-> <<>>] BY Zenon, <1>1, <2>1
  <2>3. nc \in Conn /\ nc.st = "open" /\ nc.flags = {} /\ nc.recv = r /\ nc.send = <<>> BY SMT, <2>2 DEF Conn
  <2>4. QED BY Zenon, <2>1, <2>3
<1>3. cgi \in CgiConn /\ cgi.st = "none" /\ cgi.fwd <= cgi.got /\ cgi.got = 0
  <2>1. cgi = [st |-> "none", flags |-> {}, got |-> 0, fwd |-> 0] BY Zenon, <1>1
  <2>2. QED BY SMT, <2>1 DEF CgiConn
<1>4. proc \in [st : {"none", "runs", "exited"}, wrote : Nat, hdr : Nat \ {0}, bad : BOOLEAN] /\ 0 <= proc.wrote
  <2>1. proc = [st |-> "none", wrote |-> 0, hdr |-> 1, bad |-> FALSE] BY Zenon, <1>1
  <2>2. QED BY SMT, <2>1
<1>5. asked \in Asked /\ asked.n = 0 /\ asked.q = NoReq
  <2>1. PICK r \in Requests \cup {NoReq} : r = NoReq BY Zenon
  <2>2. asked = [q |-> r, n |-> 0, size |-> 0] BY Zenon, <1>1, <2>1
  <2>3. 0 \in 0 .. MaxReq /\ 0 \in 0 .. MaxSize BY SMT, HttpAssumption
  <2>4. asked \in Asked /\ asked.n = 0 /\ asked.q = r BY SMT, <2>2, <2>3 DEF Asked
  <2>5. QED BY Zenon, <2>1, <2>4
<1>6. Stream = <<>>
  <2>1. <<>> \o <<>> = <<>> BY SMT
  <2>2. QED BY Zenon, <1>1, <1>2, <2>1 DEF Stream
<1>7. Len(nc.send) <= Buf /\ <<>> \in Seq(Token) BY SMT, <1>2, HttpAssumption
<1>8. Shape BY Zenon, <1>1, <1>2, <1>3, <1>4, <1>5, <1>7 DEF Shape, Asked, CgiConn
<1>9. Answering(asked, Stream, pd) /\ Told(asked, Stream) BY Zenon, <1>1, <1>6 DEF Answering, Told, Idle
<1>10. Answer BY Zenon, <1>1, <1>2, <1>5, <1>6, <1>7, <1>9 DEF Answer
<1>11. Relay BY Zenon, <1>3 DEF Relay
<1>12. Cut BY Zenon, <1>1, <1>2, <1>3, <1>6 DEF Cut
<1>13. QED BY Zenon, <1>1, <1>8, <1>10, <1>11, <1>12 DEF Inv

\* Every step keeps the invariant.
LEMMA InvNext == ASSUME Inv, [Next]_vars PROVE Inv'
<1>1. CASE UNCHANGED vars
  <2>1. /\ nc' = nc /\ pd' = pd /\ cgi' = cgi /\ proc' = proc /\ out' = out /\ asked' = asked /\ gone' = gone
        /\ size' = size /\ admit' = admit /\ crashed' = crashed
    BY Zenon, <1>1 DEF vars
  <2>2. Stream' = Stream BY Zenon, <2>1 DEF Stream
  <2>3. get_request_len(cgi.got)' = get_request_len(cgi.got) /\ get_request_len(proc.wrote)' = get_request_len(proc.wrote)
    BY Zenon, <2>1 DEF get_request_len
  <2>4. Shape /\ Answer /\ Relay /\ Cut /\ admit \in Verdicts BY Zenon DEF Inv
  <2>5. Shape' BY Zenon, <2>1, <2>4 DEF Shape
  <2>6. Answer' BY Zenon, <2>1, <2>2, <2>4 DEF Answer
  <2>7. Passing => Passing' BY Zenon, <2>1, <2>2, StillPassing
  <2>8. Passed => Passed' BY Zenon, <2>1, <2>3 DEF Passed
  <2>9. Relay' BY Zenon, <2>1, <2>4, <2>7, <2>8 DEF Relay
  <2>10. Cut' BY Zenon, <2>1, <2>2, <2>4 DEF Cut
  <2>11. QED BY Zenon, <2>1, <2>4, <2>5, <2>6, <2>9, <2>10 DEF Inv
<1>2. CASE Server
  <2>1. CASE \E k \in 1 .. Buf + MaxOut + 1 : write(k)
    <3>1. PICK k : write(k) BY Zenon, <2>1
    <3>2. QED BY Zenon, <3>1, InvWrite
  <2>2. QED
    BY Zenon, <1>2, <2>1, InvRead, InvReadEof, InvPoll, InvClose, InvCgiRead, InvCgiReadEof, InvCgiClose DEF Server
<1>3. CASE Outside
  <2>1. CASE \E q \in Requests : client_sends(q)
    <3>1. PICK q \in Requests : client_sends(q) BY Zenon, <2>1
    <3>2. QED BY Zenon, <3>1, InvClientSends
  <2>2. CASE \E n \in 0 .. MaxSize : file_changes(n)
    <3>1. PICK n \in 0 .. MaxSize : file_changes(n) BY Zenon, <2>2
    <3>2. QED BY Zenon, <3>1, InvFileChanges
  <2>3. CASE client_closes BY Zenon, <2>3, InvClientCloses
  <2>4. CASE proc_writes \/ proc_exits BY Zenon, <2>4, InvProgram
  <2>5. QED BY Zenon, <1>3, <2>1, <2>2, <2>3, <2>4 DEF Outside
<1>4. QED BY Zenon, <1>1, <1>2, <1>3 DEF Next

\* The inductive invariant always holds.
THEOREM HttpInvariance == Spec => []Inv
<1>1. Init => Inv BY Zenon, InvInit
<1>2. Inv /\ [Next]_vars => Inv' BY Zenon, InvNext
<1>3. QED BY <1>1, <1>2, PTL DEF Spec

\* File data never fills send_mbuf past NS_MAX_HTTP_SEND_IOBUF, and no more of a
\* file is sent than its head announces (transfer_file_data()), whatever the
\* buffer, the file and the pace of the client.
THEOREM SendBoundedAlways == Spec => []SendBounded
<1>1. Inv => SendBounded
  <2>1. SUFFICES ASSUME Inv PROVE SendBounded BY Zenon
  <2>2. Shape /\ Answer BY Zenon, <2>1 DEF Inv
  <2>3. nc \in Conn /\ pd \in File \cup {NoData} /\ asked \in Asked BY Zenon, <2>2 DEF Shape, Asked
  <2>4. nc.st \in {"open", "closed"} /\ nc.flags \subseteq Flag /\ nc.recv \in Requests \cup {NoReq}
    BY Zenon, <2>3 DEF Conn
  <2>5. pd = NoData \/ (pd.type = "DATA_FILE" /\ pd.req \in 1 .. asked.n
                          /\ pd.sent \in 0 .. pd.cl /\ pd.pos \in 0 .. MaxSize)
    <3>1. SUFFICES ASSUME pd # NoData
                   PROVE  pd.type = "DATA_FILE" /\ pd.req \in 1 .. asked.n
                          /\ pd.sent \in 0 .. pd.cl /\ pd.pos \in 0 .. MaxSize
      BY Zenon
    <3>2. pd \in File /\ pd.req \in 1 .. asked.n /\ pd.sent <= pd.cl BY Zenon, <2>2, <2>3, <3>1 DEF Shape
    <3>3. pd.type = "DATA_FILE" /\ pd.cl \in Nat /\ pd.sent \in Nat /\ pd.pos \in 0 .. MaxSize BY SMT, <3>2 DEF File
    <3>4. pd.sent \in 0 .. pd.cl BY SMT, <3>2, <3>3
    <3>5. QED BY Zenon, <3>2, <3>3, <3>4
  <2>6. cgi.st \in {"none", "open", "closed"} /\ cgi.fwd <= cgi.got /\ cgi.got <= proc.wrote
    <3>1. cgi \in CgiConn /\ cgi.fwd <= cgi.got /\ cgi.got <= proc.wrote BY Zenon, <2>2 DEF Shape, CgiConn
    <3>2. QED BY Zenon, <3>1 DEF CgiConn
  <2>7. proc.st \in {"none", "runs", "exited"}
    <3>1. proc \in [st : {"none", "runs", "exited"}, wrote : Nat, hdr : Nat \ {0}, bad : BOOLEAN] BY Zenon, <2>2 DEF Shape
    <3>2. QED BY Zenon, <3>1
  <2>8. asked.n <= MaxReq
    <3>1. asked.n \in 0 .. MaxReq BY SMT, <2>3 DEF Asked
    <3>2. QED BY SMT, <3>1, HttpAssumption
  <2>9. size \in 0 .. MaxSize BY Zenon, <2>2 DEF Shape
  <2>10. TypeOK BY Zenon, <2>4, <2>5, <2>6, <2>7, <2>8, <2>9 DEF TypeOK, Flag
  <2>11. QED BY Zenon, <2>2, <2>10 DEF SendBounded, Answer
<1>2. QED BY <1>1, HttpInvariance, PTL

\* The answers arrive whole, in the order of the requests, each the head and
\* then the bytes it announces, from the right place of the file, however the
\* sends are split and whoever writes the file (ns_send_http_file2(),
\* transfer_file_data()).
THEOREM ResponsesWholeAlways == Spec => []ResponsesWhole
<1>1. Inv => ResponsesWhole
  <2>1. SUFFICES ASSUME Inv, asked.q.kind # "cgi" PROVE \E r \in Responses \cup {<<>>} : Begins(Stream, r)
    BY Zenon DEF ResponsesWhole
  <2>2. Shape /\ Answer /\ Relay BY Zenon, <2>1 DEF Inv
  <2>3. asked \in Asked /\ asked.n \in Nat /\ asked.q \in Requests \cup {NoReq}
    <3>1. asked \in Asked BY Zenon, <2>2 DEF Shape, Asked
    <3>2. asked.q \in Requests \cup {NoReq} BY SMT, <3>1 DEF Asked
    <3>3. QED BY Zenon, <2>2, <3>1, <3>2, Numbers
  <2>4. Told(asked, Stream)
    <3>1. cgi.st = "none" BY Zenon, <2>1, <2>2 DEF Relay
    <3>2. QED BY Zenon, <2>2, <3>1 DEF Answer
  <2>5. ASSUME NEW h \in Token PROVE Begins(<<h>>, <<h>>)
    <3>1. <<h>> \in Seq(Token) /\ Len(<<h>>) <= Len(<<h>>) BY SMT
    <3>2. SubSeq(<<h>>, 1, Len(<<h>>)) = <<h>> BY Zenon, <3>1, SubSeqFull
    <3>3. QED BY Zenon, <3>1, <3>2 DEF Begins
  <2>6. head(asked.n, 400, 0) \in Token /\ head(asked.n, 200, 0) \in Token BY SMT, <2>3, HeadToken
  <2>7. CASE Stream = <<>>
    <3>1. <<>> \in Seq(Token) /\ Len(<<>>) <= Len(<<>>) BY SMT
    <3>a. SubSeq(<<>>, 1, Len(<<>>)) = <<>> BY Zenon, <3>1, SubSeqFull
    <3>2. Begins(<<>>, <<>>) BY Zenon, <3>1, <3>a DEF Begins
    <3>3. QED BY Zenon, <2>7, <3>2
  <2>8. CASE Stream = <<head(asked.n, 400, 0)>>
    <3>1. Begins(Stream, Stream) BY Zenon, <2>5, <2>6, <2>8
    <3>2. Stream \in Responses BY Zenon, <2>8 DEF Responses
    <3>3. QED BY Zenon, <3>1, <3>2
  <2>9. CASE asked.q.kind \in {"put", "last"} /\ Stream = <<head(asked.n, 200, 0)>>
    <3>1. Begins(Stream, Stream) BY Zenon, <2>5, <2>6, <2>9
    <3>2. Stream \in Responses BY SMT, <2>9 DEF Responses
    <3>3. QED BY Zenon, <3>1, <3>2
  <2>10. ASSUME asked.q.kind = "file", NEW k \in 0 .. Total(asked.q.range, asked.size),
                Stream = Served(asked.q.range, asked.size, asked.n, k)
         PROVE  \E r \in Responses \cup {<<>>} : Begins(Stream, r)
    <3>1. /\ asked.q.range \in Ranges /\ Total(asked.q.range, asked.size) \in Nat
          /\ Start(asked.q.range, asked.size) \in Int
          /\ head(asked.n, Status(asked.q.range, asked.size), Total(asked.q.range, asked.size)) \in Token
      BY SMT, <2>3, <2>10, ServedHead
    <3>h. PICK h \in Token : h = head(asked.n, Status(asked.q.range, asked.size), Total(asked.q.range, asked.size))
      BY Zenon, <3>1
    <3>m. PICK m \in Nat : m = Total(asked.q.range, asked.size) BY Zenon, <3>1
    <3>p. PICK p \in Int : p = Start(asked.q.range, asked.size) BY Zenon, <3>1
    <3>i. PICK i \in Nat : i = asked.n BY Zenon, <2>3
    <3>2. k \in 0 .. m BY Zenon, <3>m
    <3>3. k \in Nat /\ k <= m BY SMT, <3>2
    <3>4. Begins(Part(h, i, p, k), Part(h, i, p, m)) BY Zenon, <3>3, PartPrefix
    <3>5. Stream = Part(h, i, p, k) BY Zenon, <2>10, <3>h, <3>p, <3>i DEF Served
    <3>6. FileResponse = Part(h, i, p, m)
      <4>1. FileResponse = Served(asked.q.range, asked.size, asked.n, Total(asked.q.range, asked.size))
        BY Zenon, <2>2, <3>1, FileIs
      <4>2. QED BY Zenon, <3>h, <3>m, <3>p, <3>i, <4>1 DEF Served
    <3>7. FileResponse \in Responses BY SMT, <2>10 DEF Responses
    <3>8. QED BY Zenon, <3>4, <3>5, <3>6, <3>7
  <2>11. QED BY Zenon, <2>4, <2>7, <2>8, <2>9, <2>10 DEF Told
<1>2. QED BY <1>1, HttpInvariance, PTL

\* Nothing of a program's output passes before its headers are complete or known
\* to be broken; then the status line and the output in order; and the server
\* ends the connection after a program with proper headers only when all of its
\* output has been sent (cgi_ev_handler()).
THEOREM CgiRelayAlways == Spec => []CgiRelay
<1>1. Inv => CgiRelay
  <2>1. SUFFICES ASSUME Inv, cgi.st # "none"
                 PROVE  /\ Stream # <<>> => /\ Stream[1][2] = "head" /\ Tail(Stream) = body(asked.n, 1, Len(Stream) - 1)
                                            /\ get_request_len(cgi.got) # 0
                        /\ (nc.st = "closed" /\ ~gone /\ get_request_len(proc.wrote) > 0) =>
                              Len(out) = proc.wrote + 1
    BY Zenon DEF CgiRelay
  <2>2. Shape /\ Relay BY Zenon, <2>1 DEF Inv
  <2>3. nc \in Conn /\ out \in Seq(Token) BY Zenon, <2>2 DEF Shape
  <2>4. asked.n \in Nat /\ cgi.fwd \in Nat BY Zenon, <2>2, Numbers
  <2>5. nc.st = "closed" => Passed BY Zenon, <2>1, <2>2 DEF Relay
  <2>6. nc.st # "closed" => Passing
    <3>1. nc.st \in {"open", "closed"} BY Zenon, <2>3 DEF Conn
    <3>2. QED BY Zenon, <2>1, <2>2, <3>1 DEF Relay
  <2>7. Stream # <<>> => (\E k \in Nat : Relays(asked.n, Stream, k)) /\ get_request_len(cgi.got) # 0
    <3>1. CASE nc.st = "closed"
      <4>1. Stream = out \o <<>> BY Zenon, <2>5, <3>1 DEF Passed, Stream
      <4>2. Stream = out BY Zenon, <2>3, <4>1, ConcatEmptySeq
      <4>3. QED BY Zenon, <2>5, <3>1, <4>2 DEF Passed
    <3>2. CASE nc.st # "closed" BY Zenon, <2>4, <2>6, <3>2 DEF Passing
    <3>3. QED BY Zenon, <3>1, <3>2
  <2>8. ASSUME NEW k \in Nat, Relays(asked.n, Stream, k)
        PROVE  Stream[1][2] = "head" /\ Tail(Stream) = body(asked.n, 1, Len(Stream) - 1)
    <3>h. PICK h \in Lines(asked.n) : Stream = Part(h, asked.n, 1, k) BY Zenon, <2>8 DEF Relays
    <3>i. PICK i \in Nat : i = asked.n BY Zenon, <2>4
    <3>1. h \in Token BY Zenon, <2>4, <3>h, LineToken
    <3>2. h[2] = "head" BY SMT, <3>h DEF Lines, head
    <3>3. 1 \in Int BY SMT
    <3>4. Len(Part(h, i, 1, k)) = k + 1 /\ Part(h, i, 1, k)[1] = h /\ Tail(Part(h, i, 1, k)) = body(i, 1, 1 + k - 1)
      BY Zenon, <3>1, <3>3, PartIs
    <3>5. Len(Stream) = k + 1 /\ Stream[1] = h /\ Tail(Stream) = body(asked.n, 1, 1 + k - 1)
      BY Zenon, <3>4, <3>h, <3>i
    <3>6. Len(Stream) - 1 = 1 + k - 1 BY SMT, <3>5
    <3>7. QED BY Zenon, <3>2, <3>5, <3>6
  <2>9. nc.st = "closed" /\ ~gone /\ get_request_len(proc.wrote) > 0 => Len(out) = proc.wrote + 1
    BY Zenon, <2>5 DEF Passed
  <2>10. QED BY Zenon, <2>7, <2>8, <2>9
<1>2. QED BY <1>1, HttpInvariance, PTL

-----------------------------------------------------------------------------
(* The access list                                                         *)

\* A set of natural numbers that is not empty has a least one.
LEMMA Least == ASSUME NEW T, T \subseteq Nat, T # {} PROVE \E x \in T : \A y \in T : x <= y
<1>1. IsWellFoundedOn(OpToRel(<, Nat), Nat) BY Zenon, NatLessThanWellFounded
<1>r. PICK R : R = OpToRel(<, Nat) BY Zenon
<1>2. IsWellFoundedOn(R, Nat) BY Zenon, <1>1, <1>r
<1>3. \E x \in T : \A y \in T : ~ (<<y, x>> \in R) BY Zenon, <1>2, WFMin
<1>4. R = {ss \in Nat \X Nat : ss[1] < ss[2]} BY <1>r, Zenon DEF OpToRel
<1>5. \A x, y \in Nat : x < y => <<x, y>> \in R BY <1>4, SMT
<1>6. PICK x \in T : \A y \in T : ~ (<<y, x>> \in R) BY Zenon, <1>3
<1>7. \A y \in T : ~(y < x) BY Zenon, <1>5, <1>6
<1>8. QED BY <1>7, SMT

Entry == [sign : STRING, net : Address \cup {NoNet}, slash : Int]

\* An entry that can be read; one whose network has the address, as the loop
\* finds out.
Good(e) == e.sign \in {"+", "-"} /\ parse_net(e)
Match(e, ip) == e.net = masked(ip, e.slash)

\* Among the first k entries the last that matches is an admission.
Admits(acl, ip, k) == \E i \in 1 .. k : /\ acl[i].sign = "+" /\ Match(acl[i], ip)
                                        /\ \A j \in i + 1 .. k : ~Match(acl[j], ip)

\* What the loop knows after k entries, without the loop.
First(acl) == IF acl = <<>> THEN "+" ELSE "-"
Known(acl, ip, k) ==
    IF k = 0 THEN First(acl)
    ELSE IF \E j \in 1 .. k : ~Good(acl[j]) THEN "error"
    ELSE IF Admits(acl, ip, k) THEN "+" ELSE "-"

\* f is what the loop computes, turn by turn.
Looped(acl, ip, f) ==
    f = [k \in 0 .. Len(acl) |-> IF k = 0 THEN IF acl = <<>> THEN "+" ELSE "-" ELSE check_entry(f[k - 1], acl[k], ip)]

\* One more entry.
LEMMA KnownStep ==
    ASSUME NEW acl \in Seq(Entry), NEW ip, NEW k \in 1 .. Len(acl)
    PROVE  Known(acl, ip, k) = check_entry(Known(acl, ip, k - 1), acl[k], ip)
<1>1. Len(acl) \in Nat /\ k \in Nat /\ k # 0 /\ k - 1 \in Nat /\ acl # <<>> BY SMT
<1>l. PICK l \in Nat : l = k - 1 BY Zenon, <1>1
<1>2. k = l + 1 /\ k \in 1 .. k BY <1>1, <1>l, SMT
<1>3. 1 .. k = 1 .. l \cup {k} BY <1>1, <1>2, SMT
<1>v. PICK v : v = Known(acl, ip, l) BY Zenon
<1>4. "-" # "error" /\ "+" # "error" BY Zenon
<1>5. l = 0 => v = "-" BY Zenon, <1>1, <1>v DEF Known, First
<1>6. l = 0 => 1 .. l = {} BY SMT
<1>7. v = "error" <=> \E j \in 1 .. l : ~Good(acl[j])
  BY Zenon, <1>4, <1>5, <1>6, <1>v DEF Known
<1>8. CASE v = "error" \/ ~Good(acl[k])
  <2>1. \E j \in 1 .. k : ~Good(acl[j]) BY Zenon, <1>3, <1>7, <1>8
  <2>2. Known(acl, ip, k) = "error" BY Zenon, <1>1, <2>1 DEF Known
  <2>3. check_entry(v, acl[k], ip) = "error" BY Zenon, <1>8 DEF check_entry, Good
  <2>4. QED BY Zenon, <1>l, <1>v, <2>2, <2>3
<1>9. CASE v # "error" /\ Good(acl[k])
  <2>1. ~ \E j \in 1 .. k : ~Good(acl[j]) BY Zenon, <1>3, <1>7, <1>9
  <2>2. Known(acl, ip, k) = IF Admits(acl, ip, k) THEN "+" ELSE "-" BY Zenon, <1>1, <2>1 DEF Known
  <2>3. check_entry(v, acl[k], ip) = IF Match(acl[k], ip) THEN acl[k].sign ELSE v
    BY Zenon, <1>9 DEF check_entry, Good, Match
  <2>4. CASE Match(acl[k], ip)
    <3>1. ASSUME NEW i \in 1 .. k, \A j \in i + 1 .. k : ~Match(acl[j], ip) PROVE i = k
      <4>1. i # k => k \in i + 1 .. k BY <1>1, SMT
      <4>2. QED BY Zenon, <2>4, <3>1, <4>1
    <3>2. k + 1 .. k = {} BY <1>1, SMT
    <3>3. Admits(acl, ip, k) <=> acl[k].sign = "+" BY Zenon, <1>2, <2>4, <3>1, <3>2 DEF Admits
    <3>4. acl[k].sign \in {"+", "-"} BY Zenon, <1>9 DEF Good
    <3>5. Known(acl, ip, k) = acl[k].sign BY Zenon, <2>2, <3>3, <3>4
    <3>6. QED BY Zenon, <1>l, <1>v, <2>3, <2>4, <3>5
  <2>5. CASE ~Match(acl[k], ip)
    <3>1. ASSUME NEW i \in 1 .. l PROVE i \in 1 .. k /\ i + 1 .. k = (i + 1 .. l) \cup {k} BY <1>1, <1>2, SMT
    <3>2. Admits(acl, ip, k) <=> Admits(acl, ip, l) BY Zenon, <1>3, <2>5, <3>1 DEF Admits
    <3>3. CASE l = 0
      <4>1. ~Admits(acl, ip, l) BY Zenon, <1>6, <3>3 DEF Admits
      <4>2. QED BY Zenon, <1>5, <1>l, <1>v, <2>2, <2>3, <2>5, <3>2, <3>3, <4>1
    <3>4. CASE l # 0
      <4>1. v = IF Admits(acl, ip, l) THEN "+" ELSE "-" BY Zenon, <1>7, <1>9, <1>v, <3>4 DEF Known
      <4>2. QED BY Zenon, <1>l, <1>v, <2>2, <2>3, <2>5, <3>2, <4>1
    <3>5. QED BY Zenon, <3>3, <3>4
  <2>6. QED BY Zenon, <2>4, <2>5
<1>10. QED BY Zenon, <1>8, <1>9

\* The loop ends with what is known of the whole list.
LEMMA LoopKnows ==
    ASSUME NEW acl \in Seq(Entry), NEW ip
    PROVE  ns_check_ip_acl(acl, ip) = Known(acl, ip, Len(acl))
<1>n. PICK n \in Nat : n = Len(acl) BY SMT
<1>f. PICK f : f = [k \in 0 .. Len(acl) |-> Known(acl, ip, k)] BY Zenon
<1>1. ASSUME NEW k \in 0 .. Len(acl), k # 0 PROVE k \in 1 .. Len(acl) /\ k - 1 \in 0 .. Len(acl) BY <1>1, <1>n, SMT
<1>2. Looped(acl, ip, f)
  <2>1. ASSUME NEW k \in 0 .. Len(acl)
        PROVE  Known(acl, ip, k) = IF k = 0 THEN IF acl = <<>> THEN "+" ELSE "-" ELSE check_entry(f[k - 1], acl[k], ip)
    <3>1. CASE k = 0 BY Zenon, <3>1 DEF Known, First
    <3>2. CASE k # 0
      <4>1. k \in 1 .. Len(acl) /\ k - 1 \in 0 .. Len(acl) BY Zenon, <1>1, <3>2
      <4>2. f[k - 1] = Known(acl, ip, k - 1) BY Zenon, <1>f, <4>1
      <4>3. QED BY Zenon, <3>2, <4>1, <4>2, KnownStep
    <3>3. QED BY Zenon, <3>1, <3>2
  <2>2. QED BY Zenon, <1>f, <2>1 DEF Looped
<1>g. PICK g : g = turns(acl, ip) BY Zenon
<1>3. Looped(acl, ip, g)
  <2>1. turns(acl, ip) = CHOOSE h : Looped(acl, ip, h) BY Zenon DEF turns, Looped
  <2>2. QED BY Zenon, <1>2, <1>g, <2>1
<1>4. ASSUME NEW k \in 0 .. Len(acl)
      PROVE  g[k] = IF k = 0 THEN First(acl) ELSE check_entry(g[k - 1], acl[k], ip)
  BY Zenon, <1>3 DEF Looped, First
<1>t. PICK T : T = {k \in 0 .. Len(acl) : g[k] # Known(acl, ip, k)} BY Zenon
<1>5. T = {}
  <2>1. SUFFICES ASSUME T # {} PROVE FALSE BY Zenon
  <2>2. T \subseteq Nat BY <1>t, SMT
  <2>3. PICK x \in T : \A y \in T : x <= y BY Zenon, <2>1, <2>2, Least
  <2>4. x \in 0 .. Len(acl) /\ g[x] # Known(acl, ip, x) BY Zenon, <1>t, <2>3
  <2>5. x # 0 BY Zenon, <1>4, <2>4 DEF Known
  <2>6. x \in 1 .. Len(acl) /\ x - 1 \in 0 .. Len(acl) BY Zenon, <1>1, <2>4, <2>5
  <2>7. ~(x <= x - 1) BY <2>4, SMT
  <2>8. x - 1 \notin T BY Zenon, <2>3, <2>7
  <2>9. g[x - 1] = Known(acl, ip, x - 1) BY Zenon, <1>t, <2>6, <2>8
  <2>10. g[x] = check_entry(g[x - 1], acl[x], ip) BY Zenon, <1>4, <2>4, <2>5
  <2>11. g[x] = Known(acl, ip, x) BY Zenon, <2>6, <2>9, <2>10, KnownStep
  <2>12. QED BY Zenon, <2>4, <2>11
<1>6. Len(acl) \in 0 .. Len(acl) BY <1>n, SMT
<1>7. QED BY Zenon, <1>5, <1>6, <1>g, <1>t DEF ns_check_ip_acl

\* The comparison net == (remote_ip & mask) compares the bits that the network
\* has, and asks that the others are 0.
LEMMA MaskKeeps ==
    ASSUME NEW ip \in Address, NEW n \in Address, NEW e, e.net = n, e.slash \in 0 .. Width, Width \in Nat
    PROVE  Match(e, ip) <=> Covers(e, ip)
<1>s. PICK s \in 0 .. Width : s = e.slash BY Zenon
<1>1. ASSUME NEW k \in Bit PROVE k < Width - s <=> ~(s # 0 /\ k >= Width - s) BY SMT DEF Bit
<1>2. ASSUME NEW k \in Bit PROVE mask(s)[k] = IF k < Width - s THEN 0 ELSE 1 BY Zenon, <1>1 DEF mask
<1>3. 0 # 1 BY SMT
<1>4. ASSUME NEW k \in Bit PROVE masked(ip, s)[k] = IF k < Width - s THEN 0 ELSE ip[k]
  BY Zenon, <1>2, <1>3 DEF masked
<1>5. n \in [Bit -> {0, 1}] BY Zenon DEF Address
<1>m. PICK m : m = masked(ip, s) BY Zenon
<1>6. m = [k \in Bit |-> m[k]] BY Zenon, <1>m DEF masked
<1>7. n = m <=> \A k \in Bit : n[k] = m[k] BY Zenon, <1>5, <1>6
<1>8. QED BY Zenon, <1>s, <1>m, <1>4, <1>7 DEF Match, Covers

\* net.c, ns_check_ip_acl(): the loop admits exactly the addresses that the
\* list means, however long the list and the addresses.
THEOREM ListMeans ==
    ASSUME NEW acl \in Seq(Entry), NEW ip \in Address, Width \in Nat
    PROVE  ns_check_ip_acl(acl, ip) = "+" <=> Entitled(acl, ip)
<1>1. ASSUME NEW i \in 1 .. Len(acl)
      PROVE  /\ Good(acl[i]) <=> Readable(acl[i])
             /\ Good(acl[i]) => (Match(acl[i], ip) <=> Covers(acl[i], ip))
  <2>1. acl[i] \in Entry BY SMT
  <2>e. PICK e \in Entry : e = acl[i] BY Zenon, <2>1
  <2>2. e.slash \in Int BY Zenon DEF Entry
  <2>3. (e.slash >= 0 /\ e.slash < Width + 1) <=> e.slash \in 0 .. Width BY <2>2, SMT
  <2>4. Good(e) <=> Readable(e) BY Zenon, <2>3 DEF Good, parse_net, Readable
  <2>5. Readable(e) => (Match(e, ip) <=> Covers(e, ip)) BY Zenon, MaskKeeps DEF Readable
  <2>6. QED BY Zenon, <2>4, <2>5, <2>e
<1>2. DOMAIN acl = 1 .. Len(acl) /\ Len(acl) \in Nat /\ (acl = <<>> <=> Len(acl) = 0) BY SMT, EmptySeq
<1>3. CASE acl = <<>>
  <2>1. ns_check_ip_acl(acl, ip) = "+" BY Zenon, <1>2, <1>3, LoopKnows DEF Known, First
  <2>2. 1 .. Len(acl) = {} BY <1>2, <1>3, SMT
  <2>3. QED BY Zenon, <1>2, <1>3, <2>1, <2>2 DEF Entitled
<1>4. CASE acl # <<>>
  <2>1. ns_check_ip_acl(acl, ip) = "+" <=>
          (\A j \in 1 .. Len(acl) : Good(acl[j])) /\ Admits(acl, ip, Len(acl))
    <3>1. "error" # "+" /\ "-" # "+" BY Zenon
    <3>2. QED BY Zenon, <1>2, <1>4, <3>1, LoopKnows DEF Known
  <2>2. ASSUME NEW i \in 1 .. Len(acl) PROVE i + 1 .. Len(acl) \subseteq 1 .. Len(acl) BY <1>2, SMT
  <2>3. (\A j \in 1 .. Len(acl) : Good(acl[j])) <=> \A j \in 1 .. Len(acl) : Readable(acl[j]) BY Zenon, <1>1
  <2>4. ASSUME \A j \in 1 .. Len(acl) : Good(acl[j]), NEW i \in 1 .. Len(acl)
        PROVE  (Match(acl[i], ip) /\ \A j \in i + 1 .. Len(acl) : ~Match(acl[j], ip)) <=>
               (Covers(acl[i], ip) /\ \A j \in i + 1 .. Len(acl) : ~Covers(acl[j], ip))
    BY Zenon, <1>1, <2>2, <2>4
  <2>5. (\A j \in 1 .. Len(acl) : Good(acl[j])) =>
          (Admits(acl, ip, Len(acl)) <=>
             \E i \in 1 .. Len(acl) : /\ acl[i].sign = "+" /\ Covers(acl[i], ip)
                                      /\ \A j \in i + 1 .. Len(acl) : ~Covers(acl[j], ip))
    BY Zenon, <2>4 DEF Admits
  <2>6. QED BY Zenon, <1>2, <1>4, <2>1, <2>3, <2>5 DEF Entitled
<1>5. QED BY Zenon, <1>3, <1>4

\* A peer that the access list does not mean to admit is sent nothing and has no
\* program started for it, and the server cuts off only such a peer or one that
\* has gone (ns_send_http_file()).
THEOREM AclEnforcedAlways == Spec => []AclEnforced
<1>1. ASSUME NEW v \in Verdicts PROVE v.granted <=> v.entitled
  <2>1. PICK acl \in Acls, ip \in Address :
          v = [granted |-> ns_check_ip_acl(acl, ip) = "+", entitled |-> Entitled(acl, ip)]
    BY <1>1 DEF Verdicts
  <2>2. v.granted = (ns_check_ip_acl(acl, ip) = "+") /\ v.entitled = Entitled(acl, ip) BY Zenon, <2>1
  <2>3. acl \in Seq(Entry) /\ Width \in Nat
    <3>1. Width \in Nat /\ \A a \in Acls : a \in Seq([sign : STRING, net : Address \cup {NoNet}, slash : Int]) BY Zenon, HttpAssumption
    <3>2. QED BY Zenon, <2>1, <3>1 DEF Entry
  <2>4. QED BY Zenon, <2>2, <2>3, ListMeans
<1>2. Inv => AclEnforced BY Zenon, <1>1 DEF Inv, Cut, AclEnforced
<1>3. QED BY <1>2, HttpInvariance, PTL

=============================================================================
