----------------------------- MODULE SiteProofs -----------------------------
(***************************************************************************)
(* RightAnswers for every archive, every set of requests and every size of *)
(* the buffer. What is read off the wire says nothing of where a request   *)
(* begins: that the answers are right rests on the browser having one      *)
(* request under way, all of it either in transit or on the wire. For a    *)
(* hasty browser AnswersInOrder: as long as its requests are unmistakable  *)
(* a read has a good answer only where it begins with a request behind all *)
(* that were answered. Then, for every archive and all edits: they are     *)
(* local and show nothing hidden, and a name is answered as the path it    *)
(* stands for. Then the types, which follow a file through reading and     *)
(* writing, and DamageIsLocal: what is read of a file that breaks off is   *)
(* what was made, up to one member. Last ServesWhatWasMade, for which all  *)
(* of these come together: what a careful browser gets is what was made.   *)
(***************************************************************************)
EXTENDS ArchiveProofs

Possible == UNION {Right(r) : r \in Requests}

\* The last request is all in transit, or all on the wire, and fits the buffer.
UnderWay ==
  /\ Len(asked) = Len(replies) + 1
  /\ \E glued \in BOOLEAN :
       LET words == Words(asked[Len(asked)], glued)
       IN /\ Len(words) <= BufSize
          /\ \/ transit = words /\ wire = <<>>
             \/ transit = <<>> /\ wire = words
Quiet == Len(asked) = Len(replies) /\ transit = <<>> /\ wire = <<>>

Waiting ==
  /\ asked \in Seq(Requests) /\ replies \in Seq(Possible)
  /\ Quiet \/ UnderWay
  /\ \A i \in DOMAIN replies : replies[i] \in Right(asked[i])

Untouched == asked = <<>> /\ replies = <<>> /\ transit = <<>> /\ wire = <<>>

IInv == /\ conn = "none" => Untouched
        /\ Connected => phase = "open" /\ (careful => Waiting)

\* For a browser that does not wait.  If it is unmistakable only a read that begins
\* where a request to GET begins has a good answer: each of these places is of a
\* request behind all that were answered, with its name in the next word.
\* The provers do not know that this word is a string.
Texts == [text : STRING \cup {"HTTP/1.1"}, joined : BOOLEAN]
Ahead == wire \o transit
Begins == {k \in DOMAIN Ahead : Ahead[k].text = "GET"}

\* Behind letter k of s is the name, as a word.
Heads(s, k, name) ==
  /\ k + Len(name) + 1 \in DOMAIN s
  /\ \A i \in 1..Len(name) : s[k + i].text = name[i] /\ (s[k + i].joined <=> i > 1)
  /\ ~s[k + Len(name) + 1].joined

Stamped(of, by) ==
  /\ of \in [Good -> DOMAIN asked] /\ Rising(of)
  /\ \A i \in Good : replies[i] \in Right(asked[of[i]])
  /\ by \in [Begins -> DOMAIN asked] /\ Rising(by)
  /\ \A i \in Good, k \in Begins : of[i] < by[k]
  /\ \A k \in Begins : /\ asked[by[k]].cmd = "GET"
                       /\ Heads(Ahead, k, asked[by[k]].name)

Hasty ==
  /\ asked \in Seq(Requests) /\ IsSeq(replies)
  /\ wire \in Seq(Texts) /\ transit \in Seq(Texts)
  /\ Unmistakable =>
       \E of \in [Good -> DOMAIN asked], by \in [Begins -> DOMAIN asked] : Stamped(of, by)

OInv == /\ conn = "none" => Untouched
        /\ Connected => phase = "open" /\ Hasty

----------------------------------------------------------------------------

\* Two sequences in a row.
LEMMA JoinOf ==
  ASSUME NEW S, NEW s \in Seq(S), NEW t \in Seq(S)
  PROVE  /\ s \o t \in Seq(S) /\ Len(s) \in Nat /\ Len(t) \in Nat
         /\ Len(s \o t) = Len(s) + Len(t)
         /\ \A k \in 1..Len(s) : (s \o t)[k] = s[k]
         /\ \A k \in 1..Len(t) : (s \o t)[Len(s) + k] = t[k]
OBVIOUS

\* One element, a sequence, one element and another sequence.
Row(x, s, y, u) == <<x>> \o s \o <<y>> \o u
InRow(W, S, x, s, y, u) ==
  LET n == Len(s)
  IN  /\ W \in Seq(S) /\ Len(W) = n + 2 + Len(u) /\ n \in Nat /\ Len(u) \in Nat
      /\ W[1] = x /\ \A i \in 1..n : W[1 + i] = s[i]
      /\ W[n + 2] = y /\ \A i \in 1..Len(u) : W[n + 2 + i] = u[i]
LEMMA RowOf ==
  ASSUME NEW S, NEW x \in S, NEW s \in Seq(S), NEW y \in S, NEW u \in Seq(S)
  PROVE  InRow(Row(x, s, y, u), S, x, s, y, u)
<1> DEFINE n == Len(s)
           m == Len(u)
           a == <<x>> \o s
           b == a \o <<y>>
           W == b \o u
<1>1. /\ <<x>> \in Seq(S) /\ Len(<<x>>) = 1 /\ <<x>>[1] = x
      /\ <<y>> \in Seq(S) /\ Len(<<y>>) = 1 /\ <<y>>[1] = y
  OBVIOUS
<1>2. n \in Nat /\ m \in Nat
  OBVIOUS
<1>3. /\ a \in Seq(S) /\ Len(a) = 1 + n /\ a[1] = x
      /\ \A i \in 1..n : a[1 + i] = s[i]
  <2>1. /\ a \in Seq(S) /\ Len(a) = Len(<<x>>) + Len(s)
        /\ \A k \in 1..Len(<<x>>) : a[k] = <<x>>[k]
        /\ \A k \in 1..Len(s) : a[Len(<<x>>) + k] = s[k]
    BY <1>1, JoinOf
  <2>2. 1 \in 1..Len(<<x>>)
    BY <1>1
  <2> QED BY <1>1, <2>1, <2>2
<1> HIDE DEF a
<1>4. /\ b \in Seq(S) /\ Len(b) = (1 + n) + 1 /\ \A k \in 1..(1 + n) : b[k] = a[k]
      /\ b[(1 + n) + 1] = y
  <2>1. /\ b \in Seq(S) /\ Len(b) = Len(a) + Len(<<y>>)
        /\ \A k \in 1..Len(a) : b[k] = a[k]
        /\ \A k \in 1..Len(<<y>>) : b[Len(a) + k] = <<y>>[k]
    BY <1>1, <1>3, JoinOf
  <2>2. 1 \in 1..Len(<<y>>)
    BY <1>1
  <2> QED BY <1>1, <1>3, <2>1, <2>2
<1> HIDE DEF b
<1>5. /\ W \in Seq(S) /\ Len(W) = ((1 + n) + 1) + m
      /\ \A k \in 1..((1 + n) + 1) : W[k] = b[k]
      /\ \A k \in 1..m : W[((1 + n) + 1) + k] = u[k]
  <2>1. /\ W \in Seq(S) /\ Len(W) = Len(b) + Len(u)
        /\ \A k \in 1..Len(b) : W[k] = b[k]
        /\ \A k \in 1..Len(u) : W[Len(b) + k] = u[k]
    <3>1. b \in Seq(S) /\ u \in Seq(S)
      BY <1>4
    <3> QED BY ONLY <3>1, JoinOf DEF W
  <2> QED BY <1>4, <2>1
<1> HIDE DEF W, n, m
<1>6. (1 + n) + 1 = n + 2 /\ 1 \in 1..(1 + n) /\ 1 \in 1..(n + 2) /\ n + 2 \in 1..(n + 2)
  BY <1>2
<1>7. ASSUME NEW i \in 1..n PROVE W[1 + i] = s[i]
  <2>1. 1 + i \in 1..(1 + n) /\ 1 + i \in 1..(n + 2)
    BY <1>2
  <2> QED BY <1>3, <1>4, <1>5, <1>6, <2>1
<1>8. W[1] = x /\ W[n + 2] = y
  BY <1>3, <1>4, <1>5, <1>6
<1>9. Len(W) = n + 2 + m /\ \A k \in 1..m : W[n + 2 + k] = u[k]
  BY <1>5, <1>6
<1>10. W = Row(x, s, y, u)
  BY DEF W, b, a, Row
<1> QED BY <1>2, <1>5, <1>7, <1>8, <1>9, <1>10 DEF n, m, InRow

LEMMA LetterIs ==
  ASSUME NEW a \in STRING \cup {"HTTP/1.1"}, NEW b \in BOOLEAN, NEW x, x = [text |-> a, joined |-> b]
  PROVE  x \in Texts /\ x.text = a /\ (x.joined <=> b)
<1>1. x.text = a /\ x.joined = b
  OBVIOUS
<1>2. x \in Texts
  BY DEF Texts
<1> QED BY <1>1, <1>2

\* The letters of a request: the command, the name and behind it another word.
LEMMA WordsOf ==
  ASSUME NEW r \in Requests, NEW glued \in BOOLEAN
  PROVE  /\ Words(r, glued) \in Seq(Texts) /\ Words(r, glued) # <<>>
         /\ Words(r, glued)[1].text = r.cmd
         /\ Heads(Words(r, glued), 1, r.name)
         /\ \A k \in DOMAIN Words(r, glued) :
              \/ k = 1
              \/ k - 1 \in DOMAIN r.name /\ Words(r, glued)[k].text = r.name[k - 1]
              \/ Words(r, glued)[k].text = "HTTP/1.1"
              \/ \E i \in DOMAIN r.rest : Words(r, glued)[k].text = r.rest[i].text
<1> DEFINE first == [text |-> r.cmd, joined |-> glued]
           named == [i \in 1..Len(r.name) |-> [text |-> r.name[i], joined |-> i > 1]]
           version == [text |-> "HTTP/1.1", joined |-> FALSE]
           n == Len(r.name)
           m == Len(r.rest)
           W == Words(r, glued)
<1>1. /\ r.cmd \in STRING /\ r.name \in Seq(STRING) /\ r.rest \in Seq(Texts)
      /\ n \in Nat /\ m \in Nat
  <2>1. r.cmd \in STRING /\ r.name \in Seq(STRING) /\ r.rest \in Seq(Letters)
    BY RequestsAssumption DEF RequestsAssumption
  <2>2. \A x \in Letters : x \in Texts
    BY DEF Letters, Texts
  <2> QED BY <2>1, <2>2
<1>2. first \in Texts /\ first.text = r.cmd
  <2>1. r.cmd \in STRING \cup {"HTTP/1.1"} /\ glued \in BOOLEAN
    BY <1>1
  <2>2. first.text = r.cmd
    OBVIOUS
  <2>3. first \in Texts
    BY <2>1 DEF Texts
  <2> QED BY <2>2, <2>3
<1>5. version \in Texts /\ version.text = "HTTP/1.1" /\ ~version.joined
  <2>1. "HTTP/1.1" \in STRING \cup {"HTTP/1.1"} /\ FALSE \in BOOLEAN
    OBVIOUS
  <2>2. version = [text |-> "HTTP/1.1", joined |-> FALSE]
    OBVIOUS
  <2> HIDE DEF version
  <2> QED BY ONLY <2>1, <2>2, LetterIs
<1>3. /\ named \in Seq(Texts) /\ Len(named) = n
      /\ \A i \in 1..n : named[i].text = r.name[i] /\ (named[i].joined <=> i > 1)
  <2>1. ASSUME NEW i \in 1..n
        PROVE  LET x == [text |-> r.name[i], joined |-> i > 1]
               IN x \in Texts /\ x.text = r.name[i] /\ (x.joined <=> i > 1)
    <3>1. r.name[i] \in STRING \cup {"HTTP/1.1"} /\ (i > 1) \in BOOLEAN
      BY <1>1
    <3> QED BY <3>1, LetterIs
  <2>2. \A i \in 1..n : named[i] = [text |-> r.name[i], joined |-> i > 1]
    OBVIOUS
  <2>3. named \in [1..n -> Texts]
    BY <2>1
  <2> HIDE DEF named
  <2>4. named \in Seq(Texts) /\ Len(named) = n
    <3>1. n \in Nat
      BY <1>1
    <3> HIDE DEF n
    <3> QED BY ONLY <2>3, <3>1
  <2>5. ASSUME NEW i \in 1..n PROVE named[i].text = r.name[i] /\ (named[i].joined <=> i > 1)
    BY <2>1, <2>2
  <2> QED BY <2>4, <2>5
<1>4. W = Row(first, named, version, r.rest)
  BY DEF Words, Row
<1> HIDE DEF first, named, version, W
<1>6. /\ W \in Seq(Texts) /\ Len(W) = n + 2 + m
      /\ W[1] = first /\ \A i \in 1..n : W[1 + i] = named[i]
      /\ W[n + 2] = version /\ \A i \in 1..m : W[n + 2 + i] = r.rest[i]
  <2>1. /\ first \in Texts /\ named \in Seq(Texts) /\ version \in Texts
        /\ r.rest \in Seq(Texts)
    BY <1>1, <1>2, <1>3, <1>5
  <2>2. InRow(Row(first, named, version, r.rest), Texts, first, named, version, r.rest)
    BY ONLY <2>1, RowOf
  <2>3. InRow(W, Texts, first, named, version, r.rest)
    BY <1>4, <2>2
  <2> QED BY <1>3, <2>3 DEF InRow
<1> HIDE DEF n, m
<1>7. DOMAIN W = 1..(n + 2 + m) /\ DOMAIN r.name = 1..n /\ DOMAIN r.rest = 1..m
  BY <1>1, <1>6 DEF n, m
<1>8. Heads(W, 1, r.name)
  <2>1. 1 + n + 1 = n + 2 /\ n + 2 \in DOMAIN W
    BY <1>1, <1>7
  <2> QED BY <1>3, <1>5, <1>6, <2>1 DEF Heads, n
<1>9. ASSUME NEW k \in DOMAIN W
      PROVE  \/ k = 1
             \/ k - 1 \in DOMAIN r.name /\ W[k].text = r.name[k - 1]
             \/ W[k].text = "HTTP/1.1"
             \/ \E i \in DOMAIN r.rest : W[k].text = r.rest[i].text
  <2>1. k \in 1..(n + 2 + m)
    BY <1>7
  <2>2. CASE k \in 2..(n + 1)
    <3>1. k - 1 \in 1..n /\ 1 + (k - 1) = k
      BY <1>1, <2>2
    <3>2. W[k].text = r.name[k - 1]
      BY <1>3, <1>6, <3>1
    <3> QED BY <1>7, <3>1, <3>2
  <2>3. CASE k = n + 2
    BY <1>5, <1>6, <2>3
  <2>4. CASE k > n + 2
    <3>1. k - (n + 2) \in 1..m /\ n + 2 + (k - (n + 2)) = k
      BY <1>1, <2>1, <2>4
    <3>2. W[k] = r.rest[k - (n + 2)]
      BY <1>6, <3>1
    <3> QED BY <1>7, <3>1, <3>2
  <2> QED BY <1>1, <2>1, <2>2, <2>3, <2>4
<1>10. W # <<>> /\ W[1].text = r.cmd
  BY <1>1, <1>2, <1>6
<1> QED BY <1>6, <1>8, <1>9, <1>10 DEF W

LEMMA MinIs ==
  ASSUME NEW S, S \subseteq Int, NEW m \in S, \A x \in S : m <= x
  PROVE  Min(S) = m
<1>1. \A y \in S : (\A x \in S : y <= x) => y = m
  OBVIOUS
<1> QED BY <1>1 DEF Min

\* A read of at least three words that begins a stretch with a name behind its first
\* letter is taken for a request of that name.
LEMMA ReadOf ==
  ASSUME NEW s \in Seq(Texts), NEW read \in Seq(Texts), Len(read) <= Len(s),
         \A k \in 1..Len(read) : read[k] = s[k],
         NEW name \in Seq(STRING), name # <<>>, Heads(s, 1, name), Enough(read)
  PROVE  Cmd(read) = read[1].text /\ Name(read) = name
<1> DEFINE n == Len(name)
           l == Len(read)
<1>1. n \in Nat /\ n >= 1 /\ l \in Nat /\ DOMAIN read = 1..l /\ DOMAIN s = 1..Len(s) /\ l <= Len(s)
  OBVIOUS
<1>2. PICK j \in WordStarts(read), k \in WordStarts(read) : 1 < j /\ j < k
  BY DEF Enough
<1>3. j \in 1..l /\ k \in 1..l /\ ~read[k].joined
  BY <1>1, <1>2 DEF WordStarts
<1>4. /\ \A i \in 1..n : s[1 + i].text = name[i] /\ (s[1 + i].joined <=> i > 1)
      /\ ~s[n + 2].joined
  <2>1. 1 + n + 1 = n + 2
    BY <1>1
  <2> QED BY <2>1 DEF Heads
<1> HIDE DEF n, l
<1>5. ASSUME NEW i \in 2..n, i + 1 \in 1..l PROVE read[i + 1].joined
  <2>1. i \in 1..n /\ i > 1 /\ 1 + i = i + 1
    BY <1>1
  <2>2. s[i + 1].joined
    BY <1>4, <2>1
  <2>3. read[i + 1] = s[i + 1]
    BY <1>5 DEF l
  <2> QED BY <2>1, <2>2, <2>3
<1>6. 2 \in 1..l /\ ~read[2].joined
  <2>1. 2 \in 1..l /\ 1 \in 1..n
    BY <1>1, <1>2, <1>3
  <2>2. ~s[2].joined
    <3>1. 1 + 1 = 2 /\ ~(1 > 1)
      OBVIOUS
    <3> QED BY <1>4, <2>1, <3>1
  <2> QED BY <2>1, <2>2 DEF l
<1>7. n + 2 \in 1..l /\ ~read[n + 2].joined
  <2>1. ~(k \in 3..(n + 1))
    <3> SUFFICES ASSUME k \in 3..(n + 1) PROVE FALSE
      OBVIOUS
    <3>1. k - 1 \in 2..n /\ (k - 1) + 1 = k
      BY <1>1
    <3> QED BY <1>3, <1>5, <3>1
  <2>2. n + 2 \in 1..l
    BY <1>1, <1>2, <1>3, <2>1
  <2> QED BY <1>4, <2>2 DEF l
<1>8. NextWord(read, 1) = 2
  <2> DEFINE S == {x \in WordStarts(read) : x > 1}
  <2>1. S \subseteq Int /\ 2 \in S /\ \A x \in S : 2 <= x
    BY <1>1, <1>6 DEF WordStarts
  <2> HIDE DEF S
  <2>2. Min(S) = 2
    BY <2>1, MinIs
  <2> QED BY <2>2 DEF S, NextWord
<1>9. NextWord(read, 2) = n + 2
  <2> DEFINE S == {x \in WordStarts(read) : x > 2}
  <2>1. ASSUME NEW x \in S PROVE n + 2 <= x
    <3>1. x \in 1..l /\ x > 2 /\ ~read[x].joined
      BY <1>1 DEF WordStarts
    <3> SUFFICES ASSUME x < n + 2 PROVE FALSE
      BY <1>1, <3>1
    <3>2. x - 1 \in 2..n /\ (x - 1) + 1 = x
      BY <1>1, <3>1
    <3> QED BY <1>5, <3>1, <3>2
  <2>2. S \subseteq Int /\ n + 2 \in S
    BY <1>1, <1>7 DEF WordStarts
  <2> HIDE DEF S
  <2>3. Min(S) = n + 2
    BY <2>1, <2>2, MinIs
  <2> QED BY <2>3 DEF S, NextWord
<1>10. Name(read) = [i \in 1..n |-> read[i + 1].text]
  <2>1. (n + 2) - 2 = n /\ \A i \in 1..n : 2 + i - 1 = i + 1
    BY <1>1
  <2>2. Name(read) = [i \in 1..((n + 2) - 2) |-> read[2 + i - 1].text]
    BY <1>8, <1>9 DEF Name
  <2> QED BY <2>1, <2>2
<1>11. ASSUME NEW i \in 1..n PROVE read[i + 1].text = name[i]
  <2>1. i + 1 \in 1..l /\ 1 + i = i + 1
    BY <1>1, <1>7
  <2>2. s[i + 1].text = name[i]
    BY <1>4, <2>1
  <2> QED BY <2>1, <2>2 DEF l
<1>12. name = [i \in 1..n |-> name[i]]
  BY DEF n
<1> QED BY <1>8, <1>10, <1>11, <1>12 DEF Cmd

\* A request that is read whole is taken for what it is.
LEMMA RequestRead ==
  ASSUME NEW r \in Requests, NEW glued \in BOOLEAN
  PROVE  LET W == Words(r, glued)
         IN  Enough(W) /\ Cmd(W) = r.cmd /\ Name(W) = r.name
<1> DEFINE W == Words(r, glued)
           n == Len(r.name)
<1>1. W \in Seq(Texts) /\ W[1].text = r.cmd /\ Heads(W, 1, r.name)
  BY WordsOf
<1>2. r.name \in Seq(STRING) /\ r.name # <<>> /\ n \in Nat /\ n >= 1
  BY RequestsAssumption DEF RequestsAssumption
<1> HIDE DEF W
<1>3. Enough(W)
  <2>1. 1 + n + 1 = n + 2 /\ 1 \in 1..n /\ 1 + 1 = 2 /\ ~(1 > 1)
    BY <1>2
  <2>2. n + 2 \in DOMAIN W /\ ~W[n + 2].joined /\ ~W[2].joined
    <3>1. ~W[1 + 1].joined
      BY <1>1, <2>1 DEF Heads
    <3>2. 1 + n + 1 \in DOMAIN W /\ ~W[1 + n + 1].joined
      BY <1>1 DEF Heads
    <3> QED BY <2>1, <3>1, <3>2
  <2>3. 2 \in DOMAIN W
    BY <1>1, <1>2, <2>2
  <2>4. n + 2 \in WordStarts(W) /\ 2 \in WordStarts(W) /\ 1 < 2 /\ 2 < n + 2
    BY <1>2, <2>2, <2>3 DEF WordStarts
  <2> QED BY <2>4 DEF Enough
<1> QED BY <1>1, <1>2, <1>3, ReadOf DEF W

\* While the site stays, the answers to a request stay.
LEMMA RightStays ==
  ASSUME UNCHANGED server
  PROVE  Possible' = Possible /\ \A r : Right(r)' = Right(r)
BY DEF server, Possible, Right, Replies, Reply

\* A step of the browser, the network or the thread leaves the site alone.
LEMMA AskKeeps == ASSUME IInv, Ask PROVE IInv'
<1> SUFFICES ASSUME careful PROVE Waiting'
  BY DEF IInv, Ask, Connected, server
<1>1. Waiting /\ Len(replies) = Len(asked) /\ UNCHANGED <<server, wire, replies>>
  BY DEF IInv, Ask
<1>2. Quiet
  BY <1>1 DEF Waiting, UnderWay
<1>3. PICK r \in Requests : /\ Len(Words(r, Glued)) <= BufSize
                            /\ asked' = Append(asked, r)
                            /\ transit' = transit \o Words(r, Glued)
  BY DEF Ask
<1>4. asked' \in Seq(Requests) /\ Len(asked') = Len(asked) + 1
      /\ asked'[Len(asked')] = r /\ \A i \in 1..Len(asked) : asked'[i] = asked[i]
  BY <1>1, <1>3 DEF Waiting
<1>5. Glued \in BOOLEAN
  BY <1>1, RequestsAssumption DEF Waiting, Glued, RequestsAssumption
<1>6. transit' = Words(r, Glued)
  BY <1>2, <1>3, <1>5, WordsOf DEF Quiet
<1>7. UnderWay'
  <2> DEFINE W == Words(r, Glued)
  <2>1. PICK glued \in BOOLEAN : glued = Glued
    BY <1>5
  <2>2. /\ Len(Words(r, glued)) <= BufSize /\ transit' = Words(r, glued) /\ wire' = <<>>
        /\ Len(asked') = Len(replies') + 1
    BY <1>1, <1>2, <1>3, <1>4, <1>6, <2>1 DEF Quiet
  <2>3. Words(asked'[Len(asked')], glued) = Words(r, glued)
    BY <1>4
  <2> QED BY <2>2, <2>3 DEF UnderWay, Words
<1>8. \A i \in DOMAIN replies : i \in 1..Len(asked)
  BY <1>1 DEF Waiting
<1>9. \A i \in DOMAIN replies' : (replies[i] \in Right(asked[i]))'
  BY <1>1, <1>4, <1>8, RightStays DEF Waiting
<1> QED BY <1>1, <1>4, <1>7, <1>9, RightStays DEF Waiting

LEMMA ArriveKeeps == ASSUME IInv, Arrive PROVE IInv'
<1> SUFFICES ASSUME careful PROVE Waiting'
  BY DEF IInv, Arrive, Connected, server
<1>1. Waiting /\ transit # <<>> /\ UNCHANGED <<server, asked, replies>>
  BY DEF IInv, Arrive
<1> DEFINE last == asked[Len(asked)]
<1>2. PICK glued \in BOOLEAN : /\ UnderWay /\ Len(Words(last, glued)) <= BufSize
                               /\ transit = Words(last, glued) /\ wire = <<>>
  BY <1>1 DEF Waiting, Quiet, UnderWay
<1>3. last \in Requests
  BY <1>1, <1>2 DEF Waiting, UnderWay
<1>4. transit \in Seq(Texts)
  BY <1>2, <1>3, WordsOf
<1>5. wire' = wire \o SubSeq(transit, 1, Len(transit))
      /\ transit' = SubSeq(transit, Len(transit) + 1, Len(transit))
  BY DEF Arrive
<1>6. wire' = Words(last, glued) /\ transit' = <<>>
  BY <1>2, <1>4, <1>5
<1>7. UnderWay'
  <2>1. Words(asked'[Len(asked')], glued) = Words(last, glued) /\ Len(asked') = Len(replies') + 1
    BY <1>1, <1>2 DEF UnderWay
  <2> QED BY <1>2, <1>6, <2>1 DEF UnderWay, Words
<1> QED BY <1>1, <1>7, RightStays DEF Waiting

LEMMA ServeKeeps == ASSUME IInv, Serve PROVE IInv'
<1> SUFFICES ASSUME careful PROVE Connected' => Waiting'
  BY DEF IInv, Serve, Connected, server
<1>1. Waiting /\ wire # <<>> /\ UNCHANGED <<server, asked, transit>>
  BY DEF IInv, Serve, Connected
<1> DEFINE last == asked[Len(asked)]
<1>2. PICK glued \in BOOLEAN : /\ UnderWay /\ Len(Words(last, glued)) <= BufSize
                               /\ transit = <<>> /\ wire = Words(last, glued)
  BY <1>1 DEF Waiting, Quiet, UnderWay
<1>3. last \in Requests
  BY <1>1, <1>2 DEF Waiting, UnderWay
<1>4. wire \in Seq(Texts) /\ Len(wire) <= BufSize /\ BufSize \in Nat
      /\ Enough(wire) /\ Cmd(wire) = last.cmd /\ Name(wire) = last.name
  BY <1>2, <1>3, WordsOf, RequestRead, SiteAssumption DEF SiteAssumption
<1>5. PICK n \in {Len(wire)} :
        /\ Take(n)
        /\ \/ ~Enough(SubSeq(wire, 1, n))
           \/ \E reply \in Replies(Cmd(SubSeq(wire, 1, n)), Name(SubSeq(wire, 1, n))) :
                 replies' = Append(replies, reply)
  <2>1. (IF Len(wire) < BufSize THEN Len(wire) ELSE BufSize) = Len(wire)
    BY <1>4
  <2> QED BY <2>1 DEF Serve
<1>6. SubSeq(wire, 1, n) = wire /\ wire' = <<>>
  BY <1>4, <1>5 DEF Take
<1>7. PICK reply \in Right(last) : replies' = Append(replies, reply)
  BY <1>4, <1>5, <1>6 DEF Right
<1>8. reply \in Possible
  BY <1>3, <1>7 DEF Possible
<1>9. /\ replies' \in Seq(Possible) /\ Len(replies') = Len(replies) + 1
      /\ replies'[Len(replies')] = reply
      /\ \A i \in 1..Len(replies) : replies'[i] = replies[i]
  BY <1>1, <1>7, <1>8 DEF Waiting
<1>10. Quiet'
  BY <1>1, <1>2, <1>6, <1>9 DEF Quiet, UnderWay
<1>11. \A i \in DOMAIN replies' : replies'[i] \in Right(asked[i])
  BY <1>1, <1>2, <1>7, <1>9 DEF Waiting, UnderWay
<1> QED BY <1>1, <1>9, <1>10, <1>11, RightStays DEF Waiting

\* The site and what the browser and the thread have exchanged stay.
LEMMA WaitingStays ==
  ASSUME Waiting, UNCHANGED <<server, asked, transit, wire, replies>>
  PROVE  Waiting'
<1>1. Quiet' \/ UnderWay'
  BY DEF Waiting, Quiet, UnderWay, Words
<1> QED BY <1>1, RightStays DEF Waiting

LEMMA SentKeeps == ASSUME IInv, Sent PROVE IInv'
BY WaitingStays DEF IInv, Sent, Connected, server

\* A step that leaves the connection alone, before there is one or when the
\* site stays.
LEMMA OthersKeep ==
  ASSUME IInv, UNCHANGED connection, Connected => UNCHANGED server
  PROVE  IInv'
<1>1. conn' = "none" => Untouched'
  BY DEF IInv, connection, Untouched
<1>2. Connected' => phase' = "open"
  BY DEF IInv, Connected, connection, server
<1>3. Connected' /\ careful' => Waiting'
  BY WaitingStays DEF IInv, Connected, connection
<1> QED BY <1>1, <1>2, <1>3 DEF IInv

LEMMA AcceptKeeps == ASSUME IInv, Accept PROVE IInv'
<1>1. Untouched' /\ phase' = "open" /\ conn' = "open"
  BY DEF IInv, Accept, Untouched, server
<1>2. Waiting'
  BY <1>1 DEF Untouched, Waiting, Quiet
<1> QED BY <1>1, <1>2 DEF IInv, Connected

\* Every step keeps the invariant.
THEOREM Inductive == IInv /\ [Next]_vars => IInv'
<1> SUFFICES ASSUME IInv, [Next]_vars PROVE IInv'
  OBVIOUS
<1>1. CASE Damage
  BY <1>1, OthersKeep DEF Damage
<1>2. CASE Open
  BY <1>2, OthersKeep DEF Open, IInv, Connected
<1>3. CASE StartWithout
  BY <1>3, OthersKeep DEF StartWithout, IInv, Connected
<1>4. CASE SetMember \/ DelMember \/ Save
  BY <1>4, OthersKeep DEF SetMember, DelMember, Save, Editable, Connected
<1>5. CASE Close
  BY <1>5, OthersKeep DEF Close, Connected
<1>6. CASE Accept
  BY <1>6, AcceptKeeps
<1>7. CASE Ask \/ Arrive \/ Serve \/ Sent
  BY <1>7, AskKeeps, ArriveKeeps, ServeKeeps, SentKeeps
<1>8. CASE Idle
  BY <1>8 DEF Idle, IInv, Connected
<1>9. CASE UNCHANGED vars
  BY <1>9, OthersKeep DEF vars
<1> QED BY <1>1, <1>2, <1>3, <1>4, <1>5, <1>6, <1>7, <1>8, <1>9 DEF Next

\* A browser that waits has the right answers, whatever the archive.
THEOREM AnswersAreRight == Spec => []RightAnswers
<1>1. Init => IInv
  BY DEF Init, IInv, Untouched, Connected
<1>2. IInv => RightAnswers
  BY DEF IInv, Waiting, Quiet, UnderWay, RightAnswers
<1> QED BY <1>1, <1>2, Inductive, PTL DEF Spec

----------------------------------------------------------------------------
(* The order of the answers to a browser that does not wait. *)

\* What is left of a sequence without its first n elements.
LEMMA RestOf ==
  ASSUME NEW S, NEW s \in Seq(S), NEW n \in 1..Len(s)
  PROVE  /\ Len(SubSeq(s, n + 1, Len(s))) = Len(s) - n
         /\ \A k \in 1..(Len(s) - n) : SubSeq(s, n + 1, Len(s))[k] = s[n + k]
<1> DEFINE m == n + 1
           l == Len(s)
<1>1. /\ m \in Int /\ l \in Int /\ n \in Nat /\ l \in Nat /\ n >= 1 /\ n <= l
      /\ \A i \in m..l : s[i] \in S
  OBVIOUS
<1>2. /\ (IF m <= l THEN l - m + 1 ELSE 0) = l - n /\ l - m + 1 = l - n
      /\ \A k \in 1..(l - n) : m + k - 1 = n + k
  BY <1>1
<1> HIDE DEF m, l
<1>3. /\ Len(SubSeq(s, m, l)) = IF m <= l THEN l - m + 1 ELSE 0
      /\ \A i \in 1..(l - m + 1) : SubSeq(s, m, l)[i] = s[m + i - 1]
  BY <1>1
<1>4. /\ Len(SubSeq(s, m, l)) = l - n
      /\ \A k \in 1..(l - n) : SubSeq(s, m, l)[k] = s[n + k]
  BY <1>2, <1>3
<1> QED BY <1>4 DEF m, l

\* The site, what is asked and answered and what is ahead stay.
LEMMA StampStays ==
  ASSUME Hasty, UNCHANGED <<server, asked, replies, Ahead>>,
         wire' \in Seq(Texts), transit' \in Seq(Texts)
  PROVE  Hasty'
<1>1. Good' = Good /\ Begins' = Begins /\ (Unmistakable' <=> Unmistakable)
  BY DEF Good, Begins, Unmistakable
<1>2. ASSUME Unmistakable'
      PROVE  \E of \in [Good' -> DOMAIN asked'], by \in [Begins' -> DOMAIN asked'] : Stamped(of, by)'
  <2>1. PICK of \in [Good -> DOMAIN asked], by \in [Begins -> DOMAIN asked] : Stamped(of, by)
    BY <1>1, <1>2 DEF Hasty
  <2>2. Stamped(of, by)'
    BY <1>1, <2>1, RightStays DEF Stamped, Rising
  <2> QED BY <1>1, <2>1, <2>2
<1> QED BY <1>2 DEF Hasty

LEMMA SentKeepsOrder == ASSUME OInv, Sent PROVE OInv'
<1>1. Hasty /\ phase = "open" /\ UNCHANGED <<server, asked, replies, wire, transit>> /\ conn' = "open"
  BY DEF OInv, Sent, Connected
<1>2. wire' \in Seq(Texts) /\ transit' \in Seq(Texts) /\ Ahead' = Ahead
  BY <1>1 DEF Hasty, Ahead
<1>3. Hasty'
  BY <1>1, <1>2, StampStays
<1> QED BY <1>1, <1>3 DEF OInv, server

\* A step that leaves the connection alone, before there is one or when the
\* site stays.
LEMMA OthersKeepOrder ==
  ASSUME OInv, UNCHANGED connection, Connected => UNCHANGED server
  PROVE  OInv'
<1>1. conn' = "none" => Untouched'
  BY DEF OInv, connection, Untouched
<1>2. Connected' => phase' = "open"
  BY DEF OInv, connection, server, Connected
<1>3. ASSUME Connected' PROVE Hasty'
  <2>1. Hasty /\ UNCHANGED server /\ UNCHANGED <<asked, replies, wire, transit>>
    BY <1>3 DEF OInv, connection, Connected
  <2>2. wire' \in Seq(Texts) /\ transit' \in Seq(Texts) /\ Ahead' = Ahead
    BY <2>1 DEF Hasty, Ahead
  <2> QED BY <2>1, <2>2, StampStays
<1> QED BY <1>1, <1>2, <1>3 DEF OInv

LEMMA AcceptKeepsOrder == ASSUME OInv, Accept PROVE OInv'
<1>1. Untouched' /\ phase' = "open" /\ conn' = "open"
  BY DEF OInv, Accept, Untouched, server
<1>2. Good' = {} /\ Begins' = {} /\ DOMAIN asked' = {}
  BY <1>1 DEF Untouched, Good, Begins, Ahead
<1> DEFINE f == [i \in {} |-> 0]
<1>3. f \in [Good' -> DOMAIN asked'] /\ f \in [Begins' -> DOMAIN asked']
  BY <1>2
<1>4. Stamped(f, f)'
  BY <1>2, <1>3 DEF Stamped, Rising
<1>5. Hasty'
  <2>1. \E g \in [Good' -> DOMAIN asked'], h \in [Begins' -> DOMAIN asked'] : Stamped(g, h)'
    BY <1>3, <1>4
  <2>2. asked' \in Seq(Requests) /\ IsSeq(replies') /\ wire' \in Seq(Texts) /\ transit' \in Seq(Texts)
    <3>1. IsSeq(<<>>)
      BY DEF IsSeq
    <3> QED BY <1>1, <3>1 DEF Untouched
  <2> QED BY <2>1, <2>2 DEF Hasty
<1> QED BY <1>1, <1>5 DEF OInv

\* What is ahead of the thread is the same.
LEMMA ArriveKeepsOrder == ASSUME OInv, Arrive PROVE OInv'
<1>1. Hasty /\ phase = "open" /\ UNCHANGED <<server, asked, replies, conn>> /\ Connected
  BY DEF OInv, Arrive, Connected
<1>2. PICK n \in 1..Len(transit) : /\ wire' = wire \o SubSeq(transit, 1, n)
                                   /\ transit' = SubSeq(transit, n + 1, Len(transit))
  BY DEF Arrive
<1> DEFINE fst == SubSeq(transit, 1, n)
           rst == SubSeq(transit, n + 1, Len(transit))
<1>3. /\ fst \in Seq(Texts) /\ rst \in Seq(Texts)
      /\ wire \in Seq(Texts) /\ transit \in Seq(Texts)
      /\ Len(fst) = n /\ Len(rst) = Len(transit) - n /\ n <= Len(transit) /\ n \in Nat
      /\ \A k \in 1..n : fst[k] = transit[k]
      /\ \A k \in 1..(Len(transit) - n) : rst[k] = transit[n + k]
  <2>1. wire \in Seq(Texts) /\ transit \in Seq(Texts) /\ Len(transit) \in Nat
    BY <1>1 DEF Hasty
  <2>2. Len(rst) = Len(transit) - n /\ \A k \in 1..(Len(transit) - n) : rst[k] = transit[n + k]
    BY <2>1, RestOf
  <2>3. /\ fst \in Seq(Texts) /\ rst \in Seq(Texts) /\ n <= Len(transit) /\ n \in Nat
        /\ Len(fst) = n /\ \A k \in 1..n : fst[k] = transit[k]
    BY <2>1
  <2> QED BY <2>1, <2>2, <2>3
<1>4. Ahead' = Ahead
  <2>1. Ahead = wire \o transit /\ Ahead' = (wire \o fst) \o rst
    BY <1>2 DEF Ahead
  <2> HIDE DEF fst, rst
  <2> DEFINE a == Len(wire)
             l == Len(transit)
             z == Len(rst)
             both == wire \o fst
  <2>2. a \in Nat /\ l \in Nat /\ n \in Nat /\ n <= l /\ z = l - n
    BY <1>3
  <2>3. both \in Seq(Texts) /\ Len(both) = a + n
        /\ (\A k \in 1..a : both[k] = wire[k]) /\ (\A k \in 1..n : both[a + k] = fst[k])
    <3>1. both \in Seq(Texts) /\ Len(both) = Len(wire) + Len(fst)
          /\ (\A k \in 1..Len(wire) : both[k] = wire[k])
          /\ (\A k \in 1..Len(fst) : both[Len(wire) + k] = fst[k])
      <4>1. wire \in Seq(Texts) /\ fst \in Seq(Texts)
        BY <1>3
      <4> QED BY ONLY <4>1, JoinOf DEF both
    <3> HIDE DEF both
    <3> QED BY <1>3, <3>1
  <2>4. Ahead \in Seq(Texts) /\ Len(Ahead) = a + l
        /\ (\A k \in 1..a : Ahead[k] = wire[k]) /\ (\A k \in 1..l : Ahead[a + k] = transit[k])
    BY <1>3, <2>1, JoinOf
  <2>5. Ahead' = both \o rst
    BY <2>1
  <2> HIDE DEF both, a
  <2>6. Ahead' \in Seq(Texts) /\ Len(Ahead') = (a + n) + z
        /\ (\A k \in 1..(a + n) : Ahead'[k] = both[k])
        /\ (\A k \in 1..z : Ahead'[(a + n) + k] = rst[k])
    <3>1. /\ both \o rst \in Seq(Texts) /\ Len(both \o rst) = Len(both) + z
          /\ \A k \in 1..Len(both) : (both \o rst)[k] = both[k]
          /\ \A k \in 1..z : (both \o rst)[Len(both) + k] = rst[k]
      <4>1. both \in Seq(Texts) /\ rst \in Seq(Texts)
        BY <1>3, <2>3
      <4> QED BY ONLY <4>1, JoinOf DEF z
    <3> QED BY <2>3, <2>5, <3>1
  <2> HIDE DEF l, z
  <2>7. (a + n) + z = a + l
    BY ONLY <2>2
  <2>8. ASSUME NEW k \in 1..(a + l) PROVE Ahead[k] = Ahead'[k]
    <3>1. CASE k <= a
      <4>1. k \in 1..a /\ k \in 1..(a + n)
        BY ONLY <2>2, <2>8, <3>1
      <4> QED BY <2>3, <2>4, <2>6, <4>1
    <3>2. CASE k > a /\ k <= a + n
      <4>1. k - a \in 1..n /\ k - a \in 1..l /\ a + (k - a) = k /\ k \in 1..(a + n)
        BY ONLY <2>2, <2>8, <3>2
      <4>2. Ahead'[k] = fst[k - a] /\ fst[k - a] = transit[k - a]
        BY <1>3, <2>3, <2>6, <4>1
      <4> QED BY <2>4, <4>1, <4>2
    <3>3. CASE k > a + n
      <4>1. /\ k - (a + n) \in 1..z /\ (a + n) + (k - (a + n)) = k
            /\ k - a \in 1..l /\ a + (k - a) = k /\ n + (k - (a + n)) = k - a
        BY ONLY <2>2, <2>8, <3>3
      <4>2. Ahead'[k] = rst[k - (a + n)] /\ rst[k - (a + n)] = transit[n + (k - (a + n))]
        BY <1>3, <2>2, <2>6, <4>1 DEF l
      <4> QED BY <2>4, <4>1, <4>2
    <3> QED BY <2>2, <2>8, <3>1, <3>2, <3>3
  <2> QED BY <2>4, <2>6, <2>7, <2>8
<1>5. wire' \in Seq(Texts) /\ transit' \in Seq(Texts)
  <2>1. wire' = wire \o fst /\ transit' = rst
    BY <1>2
  <2> HIDE DEF fst, rst
  <2> QED BY <1>3, <2>1
<1>6. Hasty'
  BY <1>1, <1>4, <1>5, StampStays
<1> QED BY <1>1, <1>6 DEF OInv, server, Connected

\* A name that heads a stretch heads it in a longer one, and in what is behind it.
LEMMA HeadsAlong ==
  ASSUME NEW s \in Seq(Texts), NEW u \in Seq(Texts), NEW d \in Int, NEW k \in Nat,
         NEW name \in Seq(STRING), Heads(s, k, name),
         \A j \in DOMAIN s : j > k => j + d \in DOMAIN u /\ u[j + d] = s[j]
  PROVE  Heads(u, k + d, name)
<1> DEFINE n == Len(name)
<1>1. n \in Nat
  OBVIOUS
<1>2. /\ k + n + 1 \in DOMAIN s /\ ~s[k + n + 1].joined
      /\ \A i \in 1..n : s[k + i].text = name[i] /\ (s[k + i].joined <=> i > 1)
  BY DEF Heads
<1> HIDE DEF n
<1>3. k + d + n + 1 \in DOMAIN u /\ ~u[k + d + n + 1].joined
  <2>1. k + n + 1 > k /\ (k + n + 1) + d = k + d + n + 1
    BY <1>1
  <2> QED BY <1>2, <2>1
<1>4. ASSUME NEW i \in 1..n PROVE u[k + d + i].text = name[i] /\ (u[k + d + i].joined <=> i > 1)
  <2>1. k + i > k /\ (k + i) + d = k + d + i
    BY <1>1
  <2>2. k + i \in DOMAIN s
    <3>1. k + n + 1 \in 1..Len(s) /\ DOMAIN s = 1..Len(s)
      BY <1>2
    <3> QED BY <1>1, <3>1
  <2> QED BY <1>2, <2>1, <2>2
<1> QED BY <1>3, <1>4 DEF Heads, n

\* The letters of a new request are behind all others, and it is the last.
LEMMA AskKeepsOrder == ASSUME OInv, Ask PROVE OInv'
<1>1. Hasty /\ phase = "open" /\ UNCHANGED <<server, replies, wire, conn>> /\ Connected
  BY DEF OInv, Ask, Connected
<1>2. PICK r \in Requests : asked' = Append(asked, r) /\ transit' = transit \o Words(r, Glued)
  BY DEF Ask
<1> DEFINE W == Words(r, Glued)
           L == Len(Ahead)
           N == Len(asked)
<1>3. Glued \in BOOLEAN /\ r.name \in Seq(STRING)
  BY <1>1, RequestsAssumption DEF Hasty, Glued, RequestsAssumption
<1>4. /\ W \in Seq(Texts) /\ W # <<>> /\ W[1].text = r.cmd /\ Heads(W, 1, r.name)
      /\ \A k \in DOMAIN W :
           \/ k = 1
           \/ k - 1 \in DOMAIN r.name /\ W[k].text = r.name[k - 1]
           \/ W[k].text = "HTTP/1.1"
           \/ \E i \in DOMAIN r.rest : W[k].text = r.rest[i].text
  <2>1. PICK glued \in BOOLEAN : glued = Glued
    BY <1>3
  <2>2. Words(r, Glued) = Words(r, glued)
    BY <2>1
  <2> QED BY <2>2, WordsOf
<1> HIDE DEF W
<1>5. wire \in Seq(Texts) /\ transit \in Seq(Texts) /\ transit' = transit \o W
  BY <1>1, <1>2 DEF Hasty, W
<1>6. wire' \in Seq(Texts) /\ transit' \in Seq(Texts)
  BY <1>1, <1>4, <1>5
<1>7. /\ Ahead \in Seq(Texts) /\ Ahead' \in Seq(Texts)
      /\ L \in Nat /\ DOMAIN Ahead = 1..L /\ DOMAIN Ahead' = 1..(L + Len(W))
      /\ \A k \in 1..L : Ahead'[k] = Ahead[k]
      /\ \A k \in 1..Len(W) : Ahead'[L + k] = W[k]
  <2>1. Ahead \in Seq(Texts) /\ L \in Nat
    BY <1>5 DEF Ahead
  <2>2. Ahead' = Ahead \o W
    BY <1>1, <1>4, <1>5 DEF Ahead
  <2> QED BY <1>4, <2>1, <2>2, JoinOf
<1>8. Len(W) \in Nat /\ DOMAIN W = 1..Len(W) /\ Len(W) >= 1
  BY <1>4
<1>9. /\ N \in Nat /\ DOMAIN asked = 1..N /\ DOMAIN asked' = 1..(N + 1)
      /\ asked'[N + 1] = r /\ \A i \in 1..N : asked'[i] = asked[i]
      /\ asked' \in Seq(Requests) /\ \A i \in 1..N : asked[i] \in Requests
  BY <1>1, <1>2 DEF Hasty
<1> HIDE DEF L, N
<1>10. Good' = Good
  BY <1>1 DEF Good
<1>11. SUFFICES ASSUME Unmistakable'
                PROVE  \E f \in [Good' -> DOMAIN asked'], g \in [Begins' -> DOMAIN asked'] : Stamped(f, g)'
  <2>1. IsSeq(replies')
    BY <1>1 DEF Hasty
  <2>2. Hasty' => OInv'
    BY <1>1 DEF OInv, server, Connected
  <2> QED BY <1>6, <1>9, <2>1, <2>2 DEF Hasty
<1>12. Unmistakable
  BY <1>9, <1>11 DEF Unmistakable
<1>13. \A k \in DOMAIN W : W[k].text = "GET" => k = 1 /\ r.cmd = "GET"
  <2>1. /\ \A k \in DOMAIN r.name : r.name[k] # "GET"
        /\ \A k \in DOMAIN r.rest : r.rest[k].text # "GET"
    <3>1. N + 1 \in DOMAIN asked' /\ asked'[N + 1] = r
      BY <1>9
    <3> QED BY <1>11, <3>1 DEF Unmistakable
  <2>2. "HTTP/1.1" # "GET"
    OBVIOUS
  <2> QED BY <1>4, <2>1, <2>2
<1>14. PICK of \in [Good -> DOMAIN asked], by \in [Begins -> DOMAIN asked] : Stamped(of, by)
  BY <1>1, <1>12 DEF Hasty
<1>15. ASSUME NEW k \in Begins'
       PROVE  \/ k <= L /\ k \in Begins /\ by[k] \in 1..N
              \/ k = L + 1 /\ r.cmd = "GET"
  <2>1. k \in 1..(L + Len(W)) /\ Ahead'[k].text = "GET"
    BY <1>7 DEF Begins
  <2>2. CASE k <= L
    <3>1. k \in 1..L
      BY <1>7, <2>1, <2>2
    <3>2. k \in Begins
      BY <1>7, <2>1, <3>1 DEF Begins
    <3> QED BY <1>9, <1>14, <2>2, <3>2
  <2>3. CASE k > L
    <3>1. k - L \in 1..Len(W) /\ L + (k - L) = k
      BY <1>7, <1>8, <2>1, <2>3
    <3>2. W[k - L].text = "GET"
      BY <1>7, <2>1, <3>1
    <3>3. k - L = 1 /\ r.cmd = "GET"
      BY <1>8, <1>13, <3>1, <3>2
    <3>4. k = L + 1
      BY <1>7, <3>1, <3>3
    <3> QED BY <3>3, <3>4
  <2> QED BY <1>7, <1>8, <2>1, <2>2, <2>3
<1>16. of \in [Good' -> DOMAIN asked']
  BY <1>9, <1>10, <1>14
<1>17. PICK to \in [Begins' -> DOMAIN asked'] : \A k \in Begins' :
         \/ k <= L /\ k \in Begins /\ to[k] = by[k] /\ by[k] \in 1..N
         \/ k = L + 1 /\ r.cmd = "GET" /\ to[k] = N + 1
  <2> DEFINE g == [k \in Begins' |-> IF k <= L THEN by[k] ELSE N + 1]
  <2>1. g \in [Begins' -> DOMAIN asked']
    BY <1>7, <1>9, <1>15
  <2>2. \A k \in Begins' : \/ k <= L /\ k \in Begins /\ g[k] = by[k] /\ by[k] \in 1..N
                           \/ k = L + 1 /\ r.cmd = "GET" /\ g[k] = N + 1
    <3> TAKE k \in Begins'
    <3>1. L \in Nat /\ g[k] = IF k <= L THEN by[k] ELSE N + 1
      BY <1>7
    <3> HIDE DEF g
    <3>2. CASE k <= L /\ k \in Begins /\ by[k] \in 1..N
      BY <3>1, <3>2
    <3>3. CASE k = L + 1 /\ r.cmd = "GET"
      BY <3>1, <3>3
    <3> QED BY <1>15, <3>2, <3>3
  <2> QED BY <2>1, <2>2
<1>18. Rising(to) /\ Rising(of)
  <2>1. DOMAIN to = Begins' /\ DOMAIN by = Begins /\ \A k \in Begins : k \in 1..L
    BY <1>7, <1>14, <1>17 DEF Begins
  <2>2. ASSUME NEW i \in Begins', NEW j \in Begins', i < j PROVE to[i] < to[j]
    <3>1. CASE j <= L /\ j \in Begins /\ to[j] = by[j] /\ by[j] \in 1..N
      <4>1. i <= L /\ i \in Begins /\ to[i] = by[i]
        BY <1>7, <1>17, <2>1, <2>2, <3>1
      <4> QED BY <1>14, <2>1, <2>2, <3>1, <4>1 DEF Stamped, Rising
    <3>2. CASE j = L + 1 /\ r.cmd = "GET" /\ to[j] = N + 1
      <4>1. to[i] = by[i] /\ by[i] \in 1..N
        BY <1>7, <1>17, <2>1, <2>2, <3>2
      <4> QED BY <1>9, <3>2, <4>1
    <3> QED BY <1>17, <3>1, <3>2
  <2> QED BY <1>14, <2>1, <2>2 DEF Stamped, Rising
<1>19. \A i \in Good' : replies'[i] \in Right(asked[of[i]])'
  BY <1>1, <1>9, <1>10, <1>14, RightStays DEF Stamped
<1>20. \A i \in Good', k \in Begins' : of[i] < to[k]
  BY <1>9, <1>10, <1>14, <1>17 DEF Stamped
<1>21. \A k \in Begins' : asked'[to[k]].cmd = "GET" /\ Heads(Ahead', k, asked'[to[k]].name)
  <2> TAKE k \in Begins'
  <2>1. CASE k = L + 1 /\ r.cmd = "GET" /\ to[k] = N + 1
    <3>1. \A j \in DOMAIN W : j + L \in DOMAIN Ahead' /\ Ahead'[j + L] = W[j]
      <4> TAKE j \in DOMAIN W
      <4>1. j \in 1..Len(W) /\ j + L = L + j /\ j + L \in 1..(L + Len(W))
        BY <1>7, <1>8
      <4> QED BY <1>7, <4>1
    <3>2. Heads(Ahead', 1 + L, r.name)
      <4>1. W \in Seq(Texts) /\ Ahead' \in Seq(Texts) /\ L \in Int /\ 1 \in Nat
            /\ r.name \in Seq(STRING) /\ Heads(W, 1, r.name)
        BY <1>3, <1>4, <1>7
      <4>2. \A j \in DOMAIN W : j > 1 => j + L \in DOMAIN Ahead' /\ Ahead'[j + L] = W[j]
        BY <3>1
      <4> QED BY ONLY <4>1, <4>2, HeadsAlong
    <3>3. 1 + L = k
      BY <1>7, <2>1
    <3> QED BY <1>9, <2>1, <3>2, <3>3
  <2>2. CASE k <= L /\ k \in Begins /\ to[k] = by[k] /\ by[k] \in 1..N
    <3>1. asked[by[k]].cmd = "GET" /\ Heads(Ahead, k, asked[by[k]].name)
      BY <1>14, <2>2 DEF Stamped
    <3>2. asked[by[k]].name \in Seq(STRING)
      BY <1>9, <2>2, RequestsAssumption DEF RequestsAssumption
    <3>3. \A j \in DOMAIN Ahead : j > k => j + 0 \in DOMAIN Ahead' /\ Ahead'[j + 0] = Ahead[j]
      BY <1>7, <1>8
    <3>4. k \in Nat /\ 0 \in Int /\ k + 0 = k /\ Ahead \in Seq(Texts) /\ Ahead' \in Seq(Texts)
      BY <1>7, <2>2 DEF Begins
    <3>5. Heads(Ahead', k + 0, asked[by[k]].name)
      BY ONLY <3>1, <3>2, <3>3, <3>4, HeadsAlong
    <3> QED BY <1>9, <2>2, <3>1, <3>4, <3>5
  <2> QED BY <1>17, <2>1, <2>2
<1>22. Stamped(of, to)'
  BY <1>16, <1>17, <1>18, <1>19, <1>20, <1>21 DEF Stamped, Rising
<1> QED BY <1>16, <1>17, <1>22

\* Whatever is not a request to GET is a bad one.
LEMMA BadAnswer ==
  ASSUME NEW c, NEW n, NEW reply \in Replies(c, n), c # "GET"
  PROVE  reply.code = 400
<1>1. PICK behind \in Heap : reply = Reply(c, n, behind)
  BY DEF Replies
<1>2. reply = Failure(NoSite, 400) \/ reply = Failure(site, 400)
  BY <1>1 DEF Reply, DefaultAnswer, Request
<1> QED BY <1>2 DEF Failure, Answered

LEMMA ServeKeepsOrder == ASSUME OInv, Serve PROVE OInv'
<1>1. Hasty /\ phase = "open" /\ UNCHANGED <<server, asked, transit>> /\ wire # <<>>
  BY DEF OInv, Serve, Connected
<1> SUFFICES ASSUME Connected' PROVE Hasty'
  <2>1. conn' # "none"
    BY DEF Serve
  <2> QED BY <1>1, <2>1 DEF OInv, server
<1>2. PICK n \in {IF Len(wire) < BufSize THEN Len(wire) ELSE BufSize} :
        /\ Take(n) /\ Enough(SubSeq(wire, 1, n))
        /\ \E reply \in Replies(Cmd(SubSeq(wire, 1, n)), Name(SubSeq(wire, 1, n))) :
             replies' = Append(replies, reply)
  BY DEF Serve, Connected
<1> DEFINE read == SubSeq(wire, 1, n)
           L == Len(Ahead)
           M == Len(wire)
           R == Len(replies)
<1>3. PICK reply \in Replies(Cmd(read), Name(read)) : replies' = Append(replies, reply)
  BY <1>2
<1>4. /\ n \in 1..M /\ M \in Nat /\ n \in Nat /\ n <= M /\ n >= 1 /\ wire \in Seq(Texts)
      /\ read \in Seq(Texts) /\ Len(read) = n /\ \A k \in 1..n : read[k] = wire[k]
  <2>1. wire \in Seq(Texts) /\ M \in Nat /\ n \in Nat /\ n <= M
    BY <1>1, <1>2, SiteAssumption DEF Hasty, SiteAssumption
  <2>2. read \in Seq(Texts) /\ Len(read) = n /\ \A k \in 1..n : read[k] = wire[k]
    BY <2>1
  <2>3. PICK j \in WordStarts(read) : TRUE
    BY <1>2 DEF Enough
  <2>4. j \in 1..n
    BY <2>2, <2>3 DEF WordStarts
  <2> HIDE DEF M, read
  <2>5. n >= 1 /\ n \in 1..M
    BY <2>1, <2>4
  <2> QED BY <2>1, <2>2, <2>5
<1>enough. Enough(read) /\ Take(n)
  BY <1>2
<1> HIDE DEF read
\* What was read is gone from what is ahead.
<1>5. /\ L \in Nat /\ n <= L /\ M <= L /\ Ahead \in Seq(Texts)
      /\ \A k \in 1..M : Ahead[k] = wire[k]
  <2>1. wire \in Seq(Texts) /\ transit \in Seq(Texts)
    BY <1>1 DEF Hasty
  <2>2. /\ Ahead \in Seq(Texts) /\ Len(transit) \in Nat /\ L = M + Len(transit)
        /\ \A k \in 1..M : Ahead[k] = wire[k]
    BY ONLY <2>1, JoinOf DEF Ahead
  <2> QED BY <1>4, <2>2
<1>6. /\ wire' \in Seq(Texts) /\ Len(Ahead') = L - n
      /\ \A k \in 1..(L - n) : Ahead'[k] = Ahead[n + k]
  <2> DEFINE rst == SubSeq(wire, n + 1, M)
             T == Len(transit)
  <2>1. /\ wire' = rst /\ rst \in Seq(Texts) /\ wire \in Seq(Texts)
        /\ transit \in Seq(Texts) /\ transit' = transit
    BY <1>1, <1>2, <1>4 DEF Hasty, Take
  <2>2. Len(rst) = M - n /\ \A k \in 1..(M - n) : rst[k] = wire[n + k]
    <3>1. n \in 1..Len(wire)
      BY <1>4
    <3> QED BY ONLY <2>1, <3>1, RestOf DEF rst, M
  <2> HIDE DEF rst
  <2>3. /\ Len(Ahead') = Len(rst) + T /\ T \in Nat /\ Len(rst) \in Nat
        /\ \A k \in 1..Len(rst) : Ahead'[k] = rst[k]
        /\ \A k \in 1..T : Ahead'[Len(rst) + k] = transit[k]
    <3>1. Ahead' = rst \o transit
      BY <2>1 DEF Ahead
    <3> QED BY ONLY <2>1, <3>1, JoinOf DEF T
  <2>4. /\ L = M + T
        /\ \A k \in 1..M : Ahead[k] = wire[k]
        /\ \A k \in 1..T : Ahead[M + k] = transit[k]
    BY ONLY <2>1, JoinOf DEF Ahead, L, M, T
  <2> HIDE DEF L, M, T
  <2>5. (M - n) + T = L - n
    BY ONLY <1>4, <2>3, <2>4
  <2>6. ASSUME NEW k \in 1..(L - n) PROVE Ahead'[k] = Ahead[n + k]
    <3>1. CASE k <= M - n
      <4>1. k \in 1..(M - n) /\ n + k \in 1..M
        BY ONLY <1>4, <1>5, <2>6, <3>1
      <4> QED BY <2>2, <2>3, <2>4, <4>1
    <3>2. CASE k > M - n
      <4>1. /\ k - (M - n) \in 1..T /\ (M - n) + (k - (M - n)) = k
            /\ M + (k - (M - n)) = n + k
        BY ONLY <1>4, <1>5, <2>3, <2>4, <2>6, <3>2
      <4>2. Ahead'[(M - n) + (k - (M - n))] = Ahead[M + (k - (M - n))]
        BY <2>2, <2>3, <2>4, <4>1
      <4> QED BY <4>1, <4>2
    <3> QED BY <1>4, <1>5, <2>6, <3>1, <3>2
  <2> QED BY <2>1, <2>2, <2>3, <2>5, <2>6
<1>7. transit' \in Seq(Texts) /\ Ahead' \in Seq(Texts)
  <2>1. transit' \in Seq(Texts)
    BY <1>1 DEF Hasty
  <2> QED BY <1>6, <2>1, JoinOf DEF Ahead
<1>8. DOMAIN Ahead = 1..L /\ DOMAIN Ahead' = 1..(L - n)
  BY <1>5, <1>6, <1>7
<1>9. /\ IsSeq(replies') /\ R \in Nat /\ DOMAIN replies = 1..R
      /\ DOMAIN replies' = 1..(R + 1) /\ replies'[R + 1] = reply
      /\ \A i \in 1..R : replies'[i] = replies[i]
  <2>1. PICK S : replies \in Seq(S)
    BY <1>1 DEF Hasty, IsSeq
  <2>2. replies \in Seq(S \cup {reply}) /\ reply \in S \cup {reply}
    BY <2>1
  <2>3. replies' \in Seq(S \cup {reply})
    BY <1>3, <2>2
  <2> QED BY <1>3, <2>2, <2>3 DEF IsSeq
<1> HIDE DEF L, M, R
<1>10. SUFFICES ASSUME Unmistakable'
                PROVE  \E f \in [Good' -> DOMAIN asked'], g \in [Begins' -> DOMAIN asked'] : Stamped(f, g)'
  <2>1. asked' \in Seq(Requests)
    BY <1>1 DEF Hasty
  <2> QED BY <1>6, <1>7, <1>9, <2>1 DEF Hasty
<1>11. Good' \subseteq Good \cup {R + 1} /\ Good \subseteq 1..R
       /\ (R + 1 \in Good' => reply.code # 400) /\ \A i \in Good : i # R + 1
  BY <1>9 DEF Good
\* The command that is read.
<1>12. reply.code # 400 => 1 \in Begins /\ Cmd(read) = "GET"
  <2> SUFFICES ASSUME reply.code # 400 PROVE 1 \in Begins /\ Cmd(read) = "GET"
    OBVIOUS
  <2>1. Cmd(read) = "GET"
    BY BadAnswer
  <2>2. read[1].text = "GET"
    BY <2>1 DEF Cmd
  <2>3. 1 \in 1..M /\ 1 \in 1..L /\ 1 \in 1..n
    BY <1>4, <1>5
  <2>4. Ahead[1] = read[1]
    BY <1>4, <1>5, <2>3
  <2> QED BY <1>8, <2>1, <2>2, <2>3, <2>4 DEF Begins
<1>13. \A k \in Begins' : k \in 1..(L - n) /\ n + k \in Begins
  <2> TAKE k \in Begins'
  <2>1. k \in 1..(L - n) /\ Ahead'[k].text = "GET"
    BY <1>8 DEF Begins
  <2>2. n + k \in 1..L
    BY <1>4, <1>5, <2>1
  <2> QED BY <1>6, <1>8, <2>1, <2>2 DEF Begins
<1>plain. Unmistakable
  BY <1>1, <1>10 DEF Unmistakable
<1>14. PICK of \in [Good -> DOMAIN asked], by \in [Begins -> DOMAIN asked] : Stamped(of, by)
  BY <1>1, <1>plain DEF Hasty
<1>15. DOMAIN asked \subseteq Nat /\ \A i \in Good : i \in Nat
  BY <1>1, <1>9, <1>11 DEF Hasty
<1>16. PICK f \in [Good' -> DOMAIN asked'] : \A i \in Good' :
         \/ i \in Good /\ f[i] = of[i]
         \/ i = R + 1 /\ reply.code # 400 /\ f[i] = by[1]
  <2> DEFINE g == [i \in Good' |-> IF i = R + 1 THEN by[1] ELSE of[i]]
  <2>1. \A i \in Good' : g[i] = IF i = R + 1 THEN by[1] ELSE of[i]
    OBVIOUS
  <2>2. \A i \in Good' : \/ i \in Good /\ g[i] = of[i] /\ of[i] \in DOMAIN asked
                         \/ i = R + 1 /\ reply.code # 400 /\ g[i] = by[1]
                            /\ by[1] \in DOMAIN asked
    BY <1>11, <1>12, <1>14, <2>1
  <2>3. g \in [Good' -> DOMAIN asked']
    BY <1>1, <2>2
  <2> HIDE DEF g
  <2> QED BY <2>2, <2>3
<1>17. PICK h \in [Begins' -> DOMAIN asked'] : \A k \in Begins' : h[k] = by[n + k]
  <2> DEFINE g == [k \in Begins' |-> by[n + k]]
  <2>1. g \in [Begins' -> DOMAIN asked']
    BY <1>1, <1>13, <1>14
  <2> QED BY <2>1
<1>18. Rising(f)
  <2>1. ASSUME NEW i \in Good', NEW j \in Good', i < j PROVE f[i] < f[j]
    <3>1. i \in Good /\ f[i] = of[i]
      <4>1. i \in 1..(R + 1) /\ j \in 1..(R + 1)
        BY <1>9 DEF Good
      <4>2. i # R + 1
        BY <1>9, <2>1, <4>1
      <4> QED BY <1>16, <4>2
    <3>2. CASE j \in Good /\ f[j] = of[j]
      BY <1>14, <2>1, <3>1, <3>2 DEF Stamped, Rising
    <3>3. CASE j = R + 1 /\ reply.code # 400 /\ f[j] = by[1]
      BY <1>12, <1>14, <3>1, <3>3 DEF Stamped
    <3> QED BY <1>16, <3>2, <3>3
  <2> QED BY <1>16, <2>1 DEF Rising
<1>19. Rising(h)
  <2>1. ASSUME NEW i \in Begins', NEW j \in Begins', i < j PROVE h[i] < h[j]
    <3>1. n + i \in Begins /\ n + j \in Begins /\ n + i < n + j
      BY <1>4, <1>13, <2>1
    <3> QED BY <1>14, <1>17, <3>1 DEF Stamped, Rising
  <2> QED BY <1>17, <2>1 DEF Rising
\* The answer is to the request that begins what was ahead, whose name is read whole
\* if there are enough words.
<1>20. \A i \in Good' : replies'[i] \in Right(asked[f[i]])'
  <2> TAKE i \in Good'
  <2>1. CASE i \in Good /\ f[i] = of[i]
    <3>1. i \in 1..R /\ replies[i] \in Right(asked[of[i]])
      BY <1>11, <1>14, <2>1 DEF Stamped
    <3> QED BY <1>1, <1>9, <2>1, <3>1, RightStays
  <2>2. CASE i = R + 1 /\ reply.code # 400 /\ f[i] = by[1]
    <3>1. 1 \in Begins /\ Cmd(read) = "GET"
      BY <1>12, <2>2
    <3>2. asked[by[1]].cmd = "GET" /\ Heads(Ahead, 1, asked[by[1]].name)
      BY <1>14, <3>1 DEF Stamped
    <3>3. asked[by[1]] \in Requests
      BY <1>1, <1>14, <3>1 DEF Hasty
    <3>4. asked[by[1]].name \in Seq(STRING) /\ asked[by[1]].name # <<>>
      BY <3>3, RequestsAssumption DEF RequestsAssumption
    <3>5. /\ Len(read) <= Len(Ahead) /\ \A k \in 1..Len(read) : read[k] = Ahead[k]
      <4>1. \A k \in 1..n : k \in 1..M
        BY <1>4
      <4>2. Len(read) = n /\ n <= Len(Ahead)
        BY <1>4, <1>5 DEF L
      <4>3. \A k \in 1..n : read[k] = Ahead[k]
        BY <1>4, <1>5, <4>1
      <4> QED BY <4>2, <4>3
    <3>6. Name(read) = asked[by[1]].name
      BY <1>4, <1>5, <1>enough, <3>2, <3>4, <3>5, ReadOf
    <3>7. reply \in Right(asked[by[1]])
      BY <3>1, <3>2, <3>6 DEF Right
    <3> QED BY <1>1, <1>9, <2>2, <3>7, RightStays
  <2> QED BY <1>16, <2>1, <2>2
<1>21. \A i \in Good', k \in Begins' : f[i] < h[k]
  <2> TAKE i \in Good', k \in Begins'
  <2>1. n + k \in Begins /\ h[k] = by[n + k] /\ 1 < n + k
    BY <1>4, <1>13, <1>17
  <2>2. CASE i \in Good /\ f[i] = of[i]
    BY <1>14, <2>1, <2>2 DEF Stamped
  <2>3. CASE i = R + 1 /\ reply.code # 400 /\ f[i] = by[1]
    BY <1>12, <1>14, <2>1, <2>3 DEF Stamped, Rising
  <2> QED BY <1>16, <2>2, <2>3
<1>22. \A k \in Begins' : asked'[h[k]].cmd = "GET" /\ Heads(Ahead', k, asked'[h[k]].name)
  <2> TAKE k \in Begins'
  <2>1. n + k \in Begins /\ h[k] = by[n + k] /\ k \in 1..(L - n)
    BY <1>13, <1>17
  <2>2. asked[by[n + k]].cmd = "GET" /\ Heads(Ahead, n + k, asked[by[n + k]].name)
    BY <1>14, <2>1 DEF Stamped
  <2>3. asked[by[n + k]] \in Requests
    BY <1>1, <1>14, <2>1 DEF Hasty
  <2>4. asked[by[n + k]].name \in Seq(STRING)
    BY <2>3, RequestsAssumption DEF RequestsAssumption
  <2>5. \A j \in DOMAIN Ahead : j > n + k => j + (-n) \in DOMAIN Ahead' /\ Ahead'[j + (-n)] = Ahead[j]
    <3> SUFFICES ASSUME NEW j \in DOMAIN Ahead, j > n + k
                 PROVE  j + (-n) \in DOMAIN Ahead' /\ Ahead'[j + (-n)] = Ahead[j]
      OBVIOUS
    <3>1. j \in 1..L
      BY <1>8
    <3>2. j + (-n) \in 1..(L - n) /\ n + (j + (-n)) = j
      BY <1>4, <1>5, <2>1, <3>1
    <3>3. Ahead'[j + (-n)] = Ahead[n + (j + (-n))]
      BY <1>6, <3>2
    <3> QED BY <1>8, <3>2, <3>3
  <2>6. n + k \in Nat /\ -n \in Int /\ (n + k) + (-n) = k
    BY <1>4, <2>1
  <2>7. Heads(Ahead', (n + k) + (-n), asked[by[n + k]].name)
    <3>1. Ahead \in Seq(Texts) /\ Ahead' \in Seq(Texts)
      BY <1>5, <1>7
    <3> QED BY ONLY <2>2, <2>4, <2>5, <2>6, <3>1, HeadsAlong
  <2> QED BY <1>1, <2>1, <2>2, <2>6, <2>7
<1>23. Stamped(f, h)'
  BY <1>16, <1>17, <1>18, <1>19, <1>20, <1>21, <1>22 DEF Stamped, Rising
<1> QED BY <1>16, <1>17, <1>23

\* Every step keeps the order.
THEOREM OrderInductive == OInv /\ [Next]_vars => OInv'
<1> SUFFICES ASSUME OInv, [Next]_vars PROVE OInv'
  OBVIOUS
<1>1. CASE Damage
  BY <1>1, OthersKeepOrder DEF Damage
<1>2. CASE Open \/ StartWithout
  BY <1>2, OthersKeepOrder DEF Open, StartWithout, OInv, Connected
<1>3. CASE SetMember \/ DelMember \/ Save
  BY <1>3, OthersKeepOrder DEF SetMember, DelMember, Save, Editable, Connected
<1>4. CASE Close
  BY <1>4, OthersKeepOrder DEF Close, Connected
<1>5. CASE Accept \/ Ask \/ Arrive \/ Serve \/ Sent
  BY <1>5, AcceptKeepsOrder, AskKeepsOrder, ArriveKeepsOrder, ServeKeepsOrder, SentKeepsOrder
<1>6. CASE Idle
  BY <1>6 DEF Idle, OInv, Connected
<1>7. CASE UNCHANGED vars
  BY <1>7, OthersKeepOrder DEF vars
<1> QED BY <1>1, <1>2, <1>3, <1>4, <1>5, <1>6, <1>7 DEF Next

\* The good answers to unmistakable requests are in their order, for every archive
\* and every size of the buffer, with any headers and bodies, and however the
\* requests arrive, joined, in pieces or parted in a word.
THEOREM AnswersKeepOrder == Spec => []AnswersInOrder
<1>1. Init => OInv
  BY DEF Init, OInv, Untouched, Connected
<1>2. OInv => AnswersInOrder
  BY DEF OInv, Hasty, Stamped, AnswersInOrder
<1> QED BY <1>1, <1>2, OrderInductive, PTL DEF Spec

-----------------------------------------------------------------------------
(* An archive that is edited: what [hide] lists stays out of sight. *)

\* What .config lists under [hide], if it can be read and all its lines end.
ConfigOf(s, behind) ==
  LET body == s.rootfs[CONFIG].body
  IN OpenMemory([i \in DOMAIN body |-> ConfigLine(body[i], behind)])
Ended(s) ==
  \A i \in DOMAIN s.rootfs[CONFIG].body : "unended" \notin DOMAIN s.rootfs[CONFIG].body[i]
Secrets(s) ==
  IF CONFIG \in DOMAIN s.rootfs /\ Ended(s) /\ ConfigOf(s, <<>>).okay
  THEN ToSet(Entries(ConfigOf(s, <<>>).settings, "hide")) ELSE {}

\* A site has members, a member is visible or not.
Stocked(s) ==
  /\ "rootfs" \in DOMAIN s
  /\ \A p \in DOMAIN s.rootfs : /\ {"visible", "mode", "body"} \subseteq DOMAIN s.rootfs[p]
                                /\ s.rootfs[p].visible \in BOOLEAN
Concealed(s) ==
  \A p \in Secrets(s) : p \in DOMAIN s.rootfs => ~s.rootfs[p].visible

\* The path p is an index page.
Index(s, p) == \E i \in 1..Len(s.index) : s.index[i] = p

EInv == Stocked(site) /\ Concealed(site)

\* Between the sites s and t member p stayed, its content and mode with it.
Same(s, t, p) ==
  /\ p \in DOMAIN s.rootfs <=> p \in DOMAIN t.rootfs
  /\ p \in DOMAIN s.rootfs => /\ s.rootfs[p].body = t.rootfs[p].body
                              /\ s.rootfs[p].mode = t.rootfs[p].mode
NoneUncovered(s, t) ==
  \A p \in DOMAIN s.rootfs \cap DOMAIN t.rootfs : t.rootfs[p].visible => s.rootfs[p].visible
LocalEdit(s, t) ==
  /\ NoneUncovered(s, t)
  /\ \E path \in ({<<>>} \cup DOMAIN s.rootfs \cup DOMAIN t.rootfs) \ {CONFIG} :
       \A p \in (DOMAIN s.rootfs \cup DOMAIN t.rootfs) \ {path} : Same(s, t, p)

\* While an archive is open a step changes, adds or takes away one member at most,
\* which is not .config, and shows none that was hidden.  (setfile(), delfile(),
\* updateinfo())
EditsAreLocal == [][phase = "open" /\ phase' = "open" => LocalEdit(site, site')]_vars

\* Every page and every redirection is a member that .config does not hide, and is
\* .config itself only if [index] names it.  (getcontent(), getfile())
SecretsStay ==
  phase = "open" /\ ~norootfs =>
    \A name \in Names, behind \in Heap :
      LET answer == Request(site, "GET", name, behind)
      IN answer.code \in {200, 301} =>
           \E p \in DOMAIN site.rootfs \ Secrets(site) :
             /\ p = CONFIG => Index(site, CONFIG)
             /\ \/ answer.code = 200 /\ answer.body = site.rootfs[p].body
                \/ answer.code = 301 /\ answer.location = site.rootfs[p].body \o behind

\* What lies behind the content of .config makes no difference when its lines end.
LEMMA EndedIsRead ==
  ASSUME NEW s, NEW behind, Ended(s)
  PROVE  ConfigOf(s, behind) = ConfigOf(s, <<>>)
<1> DEFINE body == s.rootfs[CONFIG].body
<1>1. \A i \in DOMAIN body : ConfigLine(body[i], behind) = ConfigLine(body[i], <<>>)
  BY DEF Ended, ConfigLine
<1>2. [i \in DOMAIN body |-> ConfigLine(body[i], behind)]
        = [i \in DOMAIN body |-> ConfigLine(body[i], <<>>)]
  BY <1>1
<1> QED BY <1>2 DEF ConfigOf

\* updateinfo() hides what is listed and changes nothing else of a member.
LEMMA UpdateConceals ==
  ASSUME NEW s, Stocked(s), NEW behind, NEW u, u = UpdateInfo(s, behind)
  PROVE  /\ Stocked(u) /\ Concealed(u)
         /\ NoneUncovered(s, u) /\ \A p \in DOMAIN s.rootfs \cup DOMAIN u.rootfs : Same(s, u, p)
<1> DEFINE conf == ConfigOf(s, behind)
           hide == Entries(conf.settings, "hide")
           read == CONFIG \in DOMAIN s.rootfs /\ conf.okay
<1>1. CASE ~read
  <2>1. u = s
    BY <1>1 DEF UpdateInfo, ConfigOf
  <2>2. Secrets(s) = {}
    BY <1>1, EndedIsRead DEF Secrets
  <2> QED BY <2>1, <2>2 DEF Concealed, NoneUncovered, Same
<1>2. CASE read
  <2>1. u.rootfs = [path \in DOMAIN s.rootfs |->
                      [s.rootfs[path] EXCEPT !.visible = @ /\ path \notin ToSet(hide)]]
        /\ "rootfs" \in DOMAIN u
    BY <1>2 DEF UpdateInfo, ConfigOf
  <2>2. \A p \in DOMAIN s.rootfs :
          /\ u.rootfs[p].visible = (s.rootfs[p].visible /\ p \notin ToSet(hide))
          /\ u.rootfs[p].body = s.rootfs[p].body /\ u.rootfs[p].mode = s.rootfs[p].mode
          /\ DOMAIN u.rootfs[p] = DOMAIN s.rootfs[p]
    BY <2>1 DEF Stocked
  <2>3. DOMAIN u.rootfs = DOMAIN s.rootfs
    BY <2>1
  <2>4. Stocked(u)
    BY <2>1, <2>2, <2>3 DEF Stocked
  <2>5. u.rootfs[CONFIG].body = s.rootfs[CONFIG].body
    BY <1>2, <2>2
  <2>6. Secrets(u) \subseteq ToSet(hide)
    <3>1. CASE Ended(u)
      <4>1. Ended(s) /\ ConfigOf(u, <<>>) = ConfigOf(s, <<>>)
        BY <2>5, <3>1 DEF Ended, ConfigOf
      <4> QED BY <4>1, EndedIsRead DEF Secrets
    <3>2. CASE ~Ended(u)
      BY <3>2 DEF Secrets
    <3> QED BY <3>1, <3>2
  <2>7. Concealed(u)
    BY <2>2, <2>3, <2>6 DEF Concealed
  <2> QED BY <2>2, <2>3, <2>4, <2>7 DEF NoneUncovered, Same
<1> QED BY <1>1, <1>2

\* input() makes members that are visible, updateinfo() hides what is listed.
LEMMA OpenConceals ==
  ASSUME NEW s, "rootfs" \in DOMAIN s, NEW cells, NEW behind, NEW u, u = OpenCpio(s, cells, behind)
  PROVE  Stocked(u) /\ Concealed(u)
<1> DEFINE rootfs == Input(Members(cells))
           t == [s EXCEPT !.rootfs = rootfs]
<1>1. \A p \in DOMAIN rootfs :
        {"visible", "mode", "body"} \subseteq DOMAIN rootfs[p] /\ rootfs[p].visible \in BOOLEAN
  BY DEF Input, File
<1>2. "rootfs" \in DOMAIN t /\ t.rootfs = rootfs
  OBVIOUS
<1>3. Stocked(t)
  BY <1>1, <1>2 DEF Stocked
<1>4. u = UpdateInfo(t, behind)
  BY DEF OpenCpio
<1> QED BY <1>3, <1>4, UpdateConceals

\* Members other than .config say nothing of what is listed.
LEMMA SecretsOfConfig ==
  ASSUME NEW s, NEW u, (CONFIG \in DOMAIN s.rootfs) <=> (CONFIG \in DOMAIN u.rootfs),
         CONFIG \in DOMAIN s.rootfs => s.rootfs[CONFIG].body = u.rootfs[CONFIG].body
  PROVE  Secrets(u) = Secrets(s)
<1>1. CASE CONFIG \in DOMAIN s.rootfs
  BY <1>1 DEF Secrets, Ended, ConfigOf
<1>2. CASE CONFIG \notin DOMAIN s.rootfs
  BY <1>2 DEF Secrets
<1> QED BY <1>1, <1>2

\* A member that is there is changed and not shown; a new one may be listed, and
\* updateinfo() sees to that.
LEMMA SetConceals ==
  ASSUME NEW s, Stocked(s), Concealed(s), NEW name, NEW mode, NEW body, NEW behind,
         NEW u, u = SetFile(s, name, mode, body, behind)
  PROVE  Stocked(u) /\ Concealed(u) /\ LocalEdit(s, u)
<1> DEFINE path == FilePath(name)
           changed == [s EXCEPT !.rootfs[path].mode = mode, !.rootfs[path].body = body]
           added == Added(s, path, File(mode, body))
<1>1. CASE path = CONFIG
  <2>1. u = s
    BY <1>1 DEF SetFile, Protected
  <2>2. <<>> # CONFIG
    BY DEF CONFIG
  <2> QED BY <2>1, <2>2 DEF LocalEdit, NoneUncovered, Same
<1>2. CASE path # CONFIG /\ path \in DOMAIN s.rootfs
  <2>1. u = changed
    BY <1>2 DEF SetFile, Protected
  <2>2. /\ DOMAIN u.rootfs = DOMAIN s.rootfs /\ "rootfs" \in DOMAIN u
        /\ \A p \in DOMAIN s.rootfs \ {path} : u.rootfs[p] = s.rootfs[p]
        /\ DOMAIN u.rootfs[path] = DOMAIN s.rootfs[path]
        /\ u.rootfs[path].visible = s.rootfs[path].visible
    <3> DEFINE m == [s.rootfs EXCEPT ![path].mode = mode]
               n == [m EXCEPT ![path].body = body]
    <3>1. /\ DOMAIN m = DOMAIN s.rootfs /\ \A p \in DOMAIN s.rootfs \ {path} : m[p] = s.rootfs[p]
          /\ m[path] = [s.rootfs[path] EXCEPT !.mode = mode]
      BY <1>2
    <3>2. /\ DOMAIN n = DOMAIN m /\ \A p \in DOMAIN m \ {path} : n[p] = m[p]
          /\ n[path] = [m[path] EXCEPT !.body = body]
      BY <1>2, <3>1
    <3>3. DOMAIN u = DOMAIN s /\ u.rootfs = n
      BY <1>2, <2>1 DEF Stocked
    <3>4. /\ DOMAIN n[path] = DOMAIN s.rootfs[path]
          /\ n[path].visible = s.rootfs[path].visible
      BY <1>2, <3>1, <3>2 DEF Stocked
    <3> HIDE DEF m, n
    <3> QED BY <3>1, <3>2, <3>3, <3>4 DEF Stocked
  <2>3. Stocked(u)
    BY <1>2, <2>2 DEF Stocked
  <2>4. Secrets(u) = Secrets(s)
    BY <1>2, <2>2, SecretsOfConfig
  <2>5. Concealed(u)
    BY <2>2, <2>4 DEF Concealed
  <2>6. NoneUncovered(s, u) /\ \A p \in (DOMAIN s.rootfs \cup DOMAIN u.rootfs) \ {path} : Same(s, u, p)
    BY <2>2 DEF NoneUncovered, Same
  <2> QED BY <1>2, <2>3, <2>5, <2>6 DEF LocalEdit
<1>3. CASE path # CONFIG /\ path \notin DOMAIN s.rootfs
  <2>1. u = UpdateInfo(added, behind)
    BY <1>3 DEF SetFile, Protected
  <2>2. /\ DOMAIN added.rootfs = DOMAIN s.rootfs \cup {path} /\ "rootfs" \in DOMAIN added
        /\ \A p \in DOMAIN s.rootfs : added.rootfs[p] = s.rootfs[p]
        /\ added.rootfs[path] = File(mode, body)
    BY <1>3 DEF Added, Insert, Stocked
  <2>3. Stocked(added)
    <3> HIDE DEF path, added
    <3>1. /\ {"visible", "mode", "body"} \subseteq DOMAIN added.rootfs[path]
          /\ added.rootfs[path].visible \in BOOLEAN
      BY <2>2 DEF File
    <3> QED BY <2>2, <3>1 DEF Stocked
  <2>4. /\ Stocked(u) /\ Concealed(u) /\ NoneUncovered(added, u)
        /\ \A p \in DOMAIN added.rootfs \cup DOMAIN u.rootfs : Same(added, u, p)
    BY <2>1, <2>3, UpdateConceals
  <2>5. DOMAIN u.rootfs = DOMAIN added.rootfs
    BY <2>4 DEF Same
  <2>6. NoneUncovered(s, u)
    BY <2>2, <2>4, <2>5 DEF NoneUncovered
  <2>7. \A p \in (DOMAIN s.rootfs \cup DOMAIN u.rootfs) \ {path} : Same(s, u, p)
    BY <2>2, <2>4, <2>5 DEF Same
  <2> QED BY <1>3, <2>2, <2>4, <2>5, <2>6, <2>7 DEF LocalEdit
<1> QED BY <1>1, <1>2, <1>3

LEMMA DelConceals ==
  ASSUME NEW s, Stocked(s), Concealed(s), NEW name, NEW u, u = DelFile(s, name)
  PROVE  Stocked(u) /\ Concealed(u) /\ LocalEdit(s, u)
<1> DEFINE path == FilePath(name)
<1>1. CASE path = CONFIG
  <2>1. u = s
    BY <1>1 DEF DelFile, Protected
  <2>2. <<>> # CONFIG
    BY DEF CONFIG
  <2> QED BY <2>1, <2>2 DEF LocalEdit, NoneUncovered, Same
<1>2. CASE path # CONFIG
  <2>1. u = [s EXCEPT !.rootfs = Restrict(@, DOMAIN @ \ {path})]
    BY <1>2 DEF DelFile, Protected
  <2>2. /\ DOMAIN u.rootfs = DOMAIN s.rootfs \ {path} /\ "rootfs" \in DOMAIN u
        /\ \A p \in DOMAIN u.rootfs : u.rootfs[p] = s.rootfs[p]
    BY <2>1 DEF Stocked, Restrict
  <2>3. Stocked(u)
    BY <2>2 DEF Stocked
  <2>4. Secrets(u) = Secrets(s)
    BY <1>2, <2>2, SecretsOfConfig
  <2>5. Concealed(u)
    BY <2>2, <2>4 DEF Concealed
  <2>6. NoneUncovered(s, u) /\ \A p \in (DOMAIN s.rootfs \cup DOMAIN u.rootfs) \ {path} : Same(s, u, p)
    BY <2>2 DEF NoneUncovered, Same
  <2>7. CASE path \in DOMAIN s.rootfs
    BY <1>2, <2>3, <2>5, <2>6, <2>7 DEF LocalEdit
  <2>8. CASE path \notin DOMAIN s.rootfs
    <3>1. <<>> # CONFIG
      BY DEF CONFIG
    <3>2. \A p \in (DOMAIN s.rootfs \cup DOMAIN u.rootfs) : Same(s, u, p)
      BY <2>2, <2>6, <2>8
    <3> QED BY <2>3, <2>5, <2>6, <3>1, <3>2 DEF LocalEdit
  <2> QED BY <2>7, <2>8
<1> QED BY <1>1, <1>2

LEMMA EditSteps ==
  ASSUME EInv, [Next]_vars
  PROVE  EInv' /\ (phase = "open" /\ phase' = "open" => LocalEdit(site, site'))
<1>1. CASE site' = site
  <2>1. <<>> # CONFIG
    BY DEF CONFIG
  <2>2. LocalEdit(site, site')
    BY <1>1, <2>1 DEF LocalEdit, NoneUncovered, Same
  <2> QED BY <1>1, <2>2 DEF EInv
<1>2. CASE Open
  <2>1. PICK behind \in Heap : site' = OpenCpio(site, file, behind)
    BY <1>2 DEF Open
  <2>2. phase # "open"
    BY <1>2 DEF Open
  <2> QED BY <2>1, <2>2, OpenConceals DEF EInv, Stocked
<1>3. CASE SetMember
  <2>1. PICK e \in Edits, behind \in Heap : site' = SetFile(site, e.name, e.mode, e.body, behind)
    BY <1>3 DEF SetMember
  <2> QED BY <2>1, SetConceals DEF EInv
<1>4. CASE DelMember
  <2>1. PICK e \in Edits : site' = DelFile(site, e.name)
    BY <1>4 DEF DelMember
  <2> QED BY <2>1, DelConceals DEF EInv
<1>5. CASE site' = [site EXCEPT !.rootfs = <<>>] /\ phase' # "open"
  <2>1. DOMAIN site'.rootfs = {} /\ "rootfs" \in DOMAIN site'
    BY <1>5 DEF EInv, Stocked
  <2> QED BY <1>5, <2>1 DEF EInv, Stocked, Concealed
<1> QED
  BY <1>1, <1>2, <1>3, <1>4, <1>5
  DEF Next, vars, server, Damage, StartWithout, Save, Close, Accept, Ask, Arrive, Serve, Sent, Idle

THEOREM EditsInductive == Spec => []EInv
<1>1. Init => EInv
  <2> SUFFICES ASSUME Init PROVE EInv
    OBVIOUS
  <2>1. DOMAIN site.rootfs = {} /\ "rootfs" \in DOMAIN site
    BY DEF Init, NoSite
  <2> QED BY <2>1 DEF EInv, Stocked, Concealed
<1>2. EInv /\ [Next]_vars => EInv'
  BY EditSteps
<1> QED BY <1>1, <1>2, PTL DEF Spec

\* No sequence of edits changes .config, changes two members at once or shows what
\* was hidden, in any archive.
THEOREM EditsStayLocal == Spec => EditsAreLocal
<1>1. EInv /\ [Next]_vars => [phase = "open" /\ phase' = "open" => LocalEdit(site, site')]_vars
  BY EditSteps
<1> QED BY <1>1, EditsInductive, PTL DEF Spec, EditsAreLocal

LEMMA LeastIsIn ==
  ASSUME NEW n, NEW I, I \subseteq 1..n, I # {}
  PROVE  Min(I) \in I
<1>1. I \subseteq Nat
  OBVIOUS
<1>2. \E x \in I : \A y \in I : x <= y
  BY <1>1, LeastNumber
<1> QED BY <1>2 DEF Min

\* What FirstIn() finds in a sequence is in the set.
LEMMA FirstIsIn ==
  ASSUME NEW seq, NEW S, NEW else
  PROVE  LET r == FirstIn(seq, S, else)
         IN r = else \/ (r \in S /\ \E i \in 1..Len(seq) : seq[i] = r)
<1> DEFINE I == {i \in 1..Len(seq) : seq[i] \in S}
<1>1. FirstIn(seq, S, else) = IF I # {} THEN IF Min(I) = 0 THEN else ELSE seq[Min(I)] ELSE else
  BY DEF FirstIn, SelectInSeq
<1>2. I # {} => Min(I) \in I
  BY LeastIsIn
<1> QED BY <1>1, <1>2

\* A member that is found may be shown.
LEMMA FoundIsShown ==
  ASSUME NEW s, Concealed(s), NEW name, Found(s, name), NEW p, p = Path(s, name)
  PROVE  p \in DOMAIN s.rootfs \ Secrets(s) /\ (p = CONFIG => Index(s, CONFIG))
<1>1. p \in DOMAIN s.rootfs /\ s.rootfs[p].visible /\ FilePath(name) # CONFIG
  BY DEF Found, Protected
<1>2. p \notin Secrets(s)
  BY <1>1 DEF Concealed
<1>3. p = FilePath(name) \/ Index(s, p)
  BY FirstIsIn DEF Path, IndexFor, Index
<1> QED BY <1>1, <1>2, <1>3

\* A page is the content of such a member.
LEMMA PageIsShown ==
  ASSUME NEW s, Concealed(s), NEW name, NEW a, a = Page(s, name), a.code = 200
  PROVE  \E p \in DOMAIN s.rootfs \ Secrets(s) :
           (p = CONFIG => Index(s, CONFIG)) /\ a.body = s.rootfs[p].body
<1>1. Failure(s, 404).code # 200
  BY DEF Failure, Answered
<1>2. Found(s, name) /\ a = Success(s, name, s.rootfs[Path(s, name)].body)
  BY <1>1 DEF Page
<1>3. a.body = s.rootfs[Path(s, name)].body
  BY <1>2 DEF Success, Answered
<1> QED BY <1>2, <1>3, FoundIsShown

LEMMA AnswerFields ==
  \A s, c, t, b, l, a :
    a = Answered(s, c, t, b, l) => a.code = c /\ a.body = b /\ a.location = l
BY DEF Answered

\* So is every answer but 404.
LEMMA AnswerIsShown ==
  ASSUME NEW s, Concealed(s), NEW name, NEW behind, NEW a, a = Request(s, "GET", name, behind),
         a.code \in {200, 301}
  PROVE  \E p \in DOMAIN s.rootfs \ Secrets(s) :
           /\ p = CONFIG => Index(s, CONFIG)
           /\ \/ a.code = 200 /\ a.body = s.rootfs[p].body
              \/ a.code = 301 /\ a.location = s.rootfs[p].body \o behind
<1> DEFINE f == s.rootfs[Path(s, name)]
<1>1. Failure(s, 404).code = 404
  BY DEF Failure, Answered
<1>2. Found(s, name) /\ a = Content(s, name, f, behind)
  BY <1>1 DEF Request, GetContent
<1> HIDE DEF f
<1>3. \/ a = Success(s, name, f.body)
      \/ a = Answered(s, 301, "", <<>>, f.body \o behind)
      \/ a = Directory(s, name)
  <2>1. \/ a = Success(s, name, f.body) \/ a = Directory(s, name) \/ a = Failure(s, 404)
        \/ a = Answered(s, 301, "", <<>>, f.body \o behind)
    <3>1. CASE Kind(f.mode) = C_ISREG
      BY <1>2, <3>1 DEF Content, C_ISREG, C_ISLNK, C_ISDIR
    <3>2. CASE Kind(f.mode) = C_ISLNK /\ f.body # <<>>
      BY <1>2, <3>2 DEF Content, C_ISREG, C_ISLNK, C_ISDIR
    <3>3. CASE Kind(f.mode) = C_ISDIR
      BY <1>2, <3>3 DEF Content, C_ISREG, C_ISLNK, C_ISDIR
    <3>4. CASE /\ Kind(f.mode) # C_ISREG /\ Kind(f.mode) # C_ISDIR
               /\ ~(Kind(f.mode) = C_ISLNK /\ f.body # <<>>)
      BY <1>2, <3>4 DEF Content
    <3> QED BY <3>1, <3>2, <3>3, <3>4
  <2>2. a # Failure(s, 404)
    BY <1>1
  <2> QED BY <2>1, <2>2
<1>4. CASE a = Success(s, name, f.body)
  <2>1. a.code = 200 /\ a.body = f.body
    BY <1>4 DEF Success, Answered
  <2> QED BY <1>2, <2>1, FoundIsShown DEF f
<1>5. CASE a = Answered(s, 301, "", <<>>, f.body \o behind)
  <2>1. \E t, l : l = f.body \o behind /\ a = Answered(s, 301, t, <<>>, l)
    BY <1>5, Zenon
  <2>2. PICK t, l : l = f.body \o behind /\ a = Answered(s, 301, t, <<>>, l)
    BY <2>1
  <2>3. a = Answered(s, 301, t, <<>>, l)
    BY <2>2
  <2>4. a.code = 301 /\ a.location = l
    BY <2>3, AnswerFields
  <2> QED BY <1>2, <2>2, <2>4, FoundIsShown DEF f
<1>6. CASE a = Directory(s, name)
  <2> DEFINE page(i) == Page(s, name \o s.index[i])
             there == {i \in 1..Len(s.index) : page(i).code = 200}
  <2>1. there # {} /\ a = page(Min(there))
    <3>1. Directory(s, name) = IF there = {} THEN Failure(s, 404) ELSE page(Min(there))
      BY DEF Directory
    <3> HIDE DEF there, page
    <3> QED BY <1>1, <1>6, <3>1
  <2>2. there \subseteq 1..Len(s.index)
    OBVIOUS
  <2>3. Min(there) \in there
    <3> HIDE DEF there
    <3> QED BY <2>1, <2>2, LeastIsIn
  <2>4. page(Min(there)).code = 200
    BY <2>3
  <2> DEFINE named == name \o s.index[Min(there)]
  <2>5. a = Page(s, named) /\ a.code = 200
    BY <2>1, <2>4
  <2> HIDE DEF named
  <2> QED BY <2>5, PageIsShown
<1> QED BY <1>3, <1>4, <1>5, <1>6

\* Whatever is asked, and after any edits, what is sent is a member that is not hidden.
THEOREM SecretsAreKept == Spec => []SecretsStay
<1>1. EInv => SecretsStay
  BY AnswerIsShown DEF EInv, SecretsStay
<1> QED BY <1>1, EditsInductive, PTL

----------------------------------------------------------------------------
(* However a name is spelled. *)

\* Names with one path behind them, that is none of the root's, are looked up and
\* answered alike, if what lies below them is.
LEMMA AlikeFound ==
  ASSUME NEW s, NEW a, NEW b, FilePath(a) = FilePath(b)
  PROVE  /\ Path(s, a) = Path(s, b) /\ (Found(s, a) <=> Found(s, b))
         /\ \A body : Success(s, a, body) = Success(s, b, body)
         /\ Page(s, a) = Page(s, b)
<1>1. Path(s, a) = Path(s, b) /\ Protected(a) = Protected(b) /\ MimeType(s, a) = MimeType(s, b)
  BY DEF Path, Protected, MimeType
<1>2. Found(s, a) <=> Found(s, b)
  BY <1>1 DEF Found
<1>3. \A body : Success(s, a, body) = Success(s, b, body)
  BY <1>1 DEF Success
<1> QED BY <1>1, <1>2, <1>3 DEF Page

LEMMA AlikeBelow ==
  ASSUME NEW s, NEW a, NEW b,
         \A i \in 1..Len(s.index) : FilePath(a \o s.index[i]) = FilePath(b \o s.index[i])
  PROVE  Directory(s, a) = Directory(s, b)
<1> DEFINE I == 1..Len(s.index)
           pa(i) == Page(s, a \o s.index[i])
           pb(i) == Page(s, b \o s.index[i])
           ta == {i \in I : pa(i).code = 200}
           tb == {i \in I : pb(i).code = 200}
<1>1. \A i \in I : pa(i) = pb(i)
  <2> TAKE i \in I
  <2> DEFINE u == a \o s.index[i]
             v == b \o s.index[i]
  <2>1. FilePath(u) = FilePath(v)
    OBVIOUS
  <2> HIDE DEF u, v
  <2>2. Page(s, u) = Page(s, v)
    BY <2>1, AlikeFound
  <2> QED BY <2>2 DEF u, v
<1>2. Directory(s, a) = IF ta = {} THEN Failure(s, 404) ELSE pa(Min(ta))
  BY DEF Directory
<1>3. Directory(s, b) = IF tb = {} THEN Failure(s, 404) ELSE pb(Min(tb))
  BY DEF Directory
<1> HIDE DEF pa, pb
<1>4. ta = tb /\ ta \subseteq I
  BY <1>1
<1>5. ta # {} => Min(ta) \in I
  <2> HIDE DEF ta
  <2> QED BY <1>4, LeastIsIn
<1> HIDE DEF ta, tb, I
<1> QED BY <1>1, <1>2, <1>3, <1>4, <1>5

\* In every state of every site the answer to a name is the answer to the path that
\* the name stands for.
LEMMA AlikeAnswered == SpellingIrrelevant
<1> SUFFICES ASSUME NEW name \in Names, NEW behind \in Heap, NEW path, path = Intended(name),
                    path # Root,
                    path \in DOMAIN site.rootfs /\ Kind(site.rootfs[path].mode) = C_ISDIR =>
                      /\ \A i \in 1..Len(site.index) : Absolute(site.index[i])
                      /\ ~HasQuery(name)
             PROVE  Request(site, "GET", name, behind) = Request(site, "GET", path, behind)
  BY DEF SpellingIrrelevant
<1> DEFINE C == STRING \cup {"/"}
           f == site.rootfs[path]
<1>1. name \in Seq(STRING \ {NUL}) /\ name \in Seq(C) /\ "/" \in C
  <2>1. name \in Seq(STRING \ {NUL})
    BY NamesAssumption DEF NamesAssumption, IsName
  <2> QED BY <2>1
<1>2. FilePath(name) = path /\ FilePath(path) = path /\ path # <<"/">> /\ path # <<>>
  <2> HIDE DEF C
  <2>1. Intended(name) # Root
    OBVIOUS
  <2> QED BY <1>1, <2>1, FilePathIsIntended, PathAgain DEF Root
<1>3. /\ Found(site, name) <=> Found(site, path)
      /\ Path(site, name) = path /\ Path(site, path) = path
      /\ \A body : Success(site, name, body) = Success(site, path, body)
  <2>1. Path(site, name) = path
    BY <1>2 DEF Path, IndexFor
  <2> QED BY <1>2, <2>1, AlikeFound
<1>4. /\ Request(site, "GET", name, behind)
           = IF Found(site, name) THEN Content(site, name, f, behind) ELSE Failure(site, 404)
      /\ Request(site, "GET", path, behind)
           = IF Found(site, path) THEN Content(site, path, f, behind) ELSE Failure(site, 404)
  BY <1>3 DEF Request, GetContent
<1>5. ASSUME Found(site, name) PROVE Content(site, name, f, behind) = Content(site, path, f, behind)
  <2>1. path \in DOMAIN site.rootfs
    BY <1>3, <1>5 DEF Found
  <2>2. Kind(f.mode) = C_ISDIR => Directory(site, name) = Directory(site, path)
    <3> SUFFICES ASSUME Kind(f.mode) = C_ISDIR PROVE Directory(site, name) = Directory(site, path)
      OBVIOUS
    <3>1. (\A i \in 1..Len(site.index) : Absolute(site.index[i])) /\ ~HasQuery(name)
      BY <2>1
    <3>2. ASSUME NEW i \in 1..Len(site.index)
          PROVE  FilePath(name \o site.index[i]) = FilePath(path \o site.index[i])
      <4> DEFINE x == site.index[i]
      <4>1. Absolute(x) /\ name \in Seq(STRING \ {NUL}) /\ Intended(name) # Root /\ ~HasQuery(name)
        BY <1>1, <3>1
      <4> HIDE DEF x
      <4>2. FilePath(name \o x) = FilePath(Intended(name) \o x)
        BY <4>1, BelowAgain
      <4> QED BY <4>2 DEF x
    <3> QED BY <3>2, AlikeBelow
  <2> HIDE DEF f
  <2>3. Success(site, name, f.body) = Success(site, path, f.body)
    BY <1>3
  <2>4. CASE Kind(f.mode) = C_ISREG
    BY <2>3, <2>4 DEF Content, C_ISREG, C_ISLNK, C_ISDIR
  <2>5. CASE Kind(f.mode) = C_ISLNK /\ f.body # <<>>
    BY <2>5 DEF Content, C_ISREG, C_ISLNK, C_ISDIR
  <2>6. CASE Kind(f.mode) = C_ISDIR
    BY <2>2, <2>6 DEF Content, C_ISREG, C_ISLNK, C_ISDIR
  <2>7. CASE /\ Kind(f.mode) # C_ISREG /\ Kind(f.mode) # C_ISDIR
             /\ ~(Kind(f.mode) = C_ISLNK /\ f.body # <<>>)
    BY <2>7 DEF Content
  <2> QED BY <2>4, <2>5, <2>6, <2>7
<1> QED BY <1>3, <1>4, <1>5

\* Of every archive and in every state: a name is answered as the path it stands for,
\* for names of any length and with any dots, slashes and query.
THEOREM SpellingDoesNotMatter == Spec => []SpellingIrrelevant
BY AlikeAnswered, PTL

----------------------------------------------------------------------------
(* What the server holds, whatever was done to the file and to the site. *)

\* A site whose members can be written, each under a path.
SiteOK(raw, s) ==
  /\ Stocked(s) /\ RootOK(raw, s.rootfs)
  /\ \A p \in DOMAIN s.rootfs : PathOK(p)
Raw == archive.format = "bin"
Codes == {200, 301, 400, 404}

TInv ==
  /\ archive \in Archives /\ Cells(Raw, file)
  /\ type \in {"none"} \cup Formats /\ (type \in Formats => (type = "bin" <=> Raw))
  /\ SiteOK(Raw, site)
  /\ phase \in {"made", "open", "saved", "closed"} /\ conn \in {"none", "open", "sending", "over"}
  /\ norootfs \in BOOLEAN /\ careful \in BOOLEAN /\ whole \in BOOLEAN
  /\ edits \in 0..MaxEdits /\ asked \in Seq(Requests) /\ Len(asked) <= MaxRequests /\ Len(saved) <= 1
  /\ IsSeq(replies) /\ \A i \in 1..Len(replies) : replies[i].code \in Codes

LEMMA MadeMembers ==
  ASSUME NEW a \in Archives, NEW raw, a.format = "bin" <=> raw
  PROVE  a.format \in Formats /\ Pieces(raw, a.members)
<1>1. /\ a.format \in Formats /\ a.members \in Seq(ToSet(a.members))
      /\ \A m \in ToSet(a.members) : IsMember(m)
  BY ArchivesAssumption DEF ArchivesAssumption
<1>2. ASSUME NEW i \in 1..Len(a.members) PROVE MemberOK(raw, a.members[i])
  <2>1. a.members[i] \in ToSet(a.members)
    BY <1>1
  <2> QED BY <1>1, <2>1, MemberIsOK
<1>3. IsSeq(a.members)
  BY <1>1 DEF IsSeq
<1> QED BY <1>1, <1>2, <1>3 DEF Pieces

LEMMA EmptyIsOK ==
  ASSUME NEW raw, NEW s, "rootfs" \in DOMAIN s, DOMAIN s.rootfs = {}
  PROVE  SiteOK(raw, s)
<1>1. IsFiniteSet(DOMAIN s.rootfs)
  BY FS_EmptySet
<1> QED BY <1>1 DEF SiteOK, Stocked, RootOK

LEMMA UpdateKeeps ==
  ASSUME NEW raw, NEW s, SiteOK(raw, s), NEW behind, NEW u, u = UpdateInfo(s, behind)
  PROVE  SiteOK(raw, u)
<1>1. Stocked(u) /\ \A p \in DOMAIN s.rootfs \cup DOMAIN u.rootfs : Same(s, u, p)
  BY UpdateConceals DEF SiteOK
<1>2. DOMAIN u.rootfs = DOMAIN s.rootfs
  BY <1>1 DEF Same
<1>3. \A p \in DOMAIN s.rootfs : s.rootfs[p].body = u.rootfs[p].body /\ s.rootfs[p].mode = u.rootfs[p].mode
  BY <1>1 DEF Same
<1> QED BY <1>1, <1>2, <1>3 DEF SiteOK, RootOK

LEMMA OpenKeeps ==
  ASSUME NEW raw, NEW s, "rootfs" \in DOMAIN s, NEW cells, Cells(raw, cells), NEW behind,
         NEW u, u = OpenCpio(s, cells, behind)
  PROVE  SiteOK(raw, u)
<1> DEFINE ms == Members(cells)
           rootfs == Input(ms)
           t == [s EXCEPT !.rootfs = rootfs]
<1>1. ms \in Seq(Parsed(cells)) /\ \A m \in Parsed(cells) : MemberOK(raw, m)
  BY MembersOK
<1> HIDE DEF ms
<1>2. IsSeq(ms) /\ \A i \in 1..Len(ms) : MemberOK(raw, ms[i])
  BY <1>1 DEF IsSeq
<1>3. /\ DOMAIN rootfs = {FilePath(ms[i].name) : i \in 1..Len(ms)} /\ IsFiniteSet(DOMAIN rootfs)
      /\ \A path \in DOMAIN rootfs : \E i \in 1..Len(ms) : rootfs[path] = File(ms[i].mode, ms[i].body)
  BY <1>2, InputIs
<1>4. "rootfs" \in DOMAIN t /\ t.rootfs = rootfs /\ u = UpdateInfo(t, behind)
  BY DEF OpenCpio, ms
<1> HIDE DEF t, rootfs
<1>5. \A p \in DOMAIN rootfs : PathOK(p)
  <2> TAKE p \in DOMAIN rootfs
  <2>1. PICK i \in 1..Len(ms) : p = FilePath(ms[i].name)
    BY <1>3
  <2> QED BY <1>2, <2>1, FilePathOK DEF MemberOK
<1>6. \A p \in DOMAIN rootfs : /\ {"visible", "mode", "body"} \subseteq DOMAIN rootfs[p]
                               /\ rootfs[p].visible \in BOOLEAN
                               /\ rootfs[p].mode \in Nat /\ Cells(raw, rootfs[p].body)
  <2> TAKE p \in DOMAIN rootfs
  <2>1. PICK i \in 1..Len(ms) : rootfs[p] = File(ms[i].mode, ms[i].body)
    BY <1>3
  <2> QED BY <1>2, <2>1 DEF File, MemberOK
<1>7. SiteOK(raw, t)
  BY <1>3, <1>4, <1>5, <1>6 DEF SiteOK, Stocked, RootOK, PathOK
<1> QED BY <1>4, <1>7, UpdateKeeps

LEMMA SetKeeps ==
  ASSUME NEW raw, NEW s, SiteOK(raw, s), NEW name, IsSeq(name), NEW mode \in Nat,
         NEW body, Cells(raw, body), NEW behind, NEW u, u = SetFile(s, name, mode, body, behind)
  PROVE  SiteOK(raw, u)
<1> DEFINE path == FilePath(name)
           changed == [s EXCEPT !.rootfs[path].mode = mode, !.rootfs[path].body = body]
           added == Added(s, path, File(mode, body))
<1>1. CASE path = CONFIG
  BY <1>1 DEF SetFile, Protected
<1>2. CASE path # CONFIG /\ path \in DOMAIN s.rootfs
  <2>1. u = changed
    BY <1>2 DEF SetFile, Protected
  <2>2. /\ DOMAIN u.rootfs = DOMAIN s.rootfs /\ "rootfs" \in DOMAIN u
        /\ \A p \in DOMAIN s.rootfs \ {path} : u.rootfs[p] = s.rootfs[p]
        /\ DOMAIN u.rootfs[path] = DOMAIN s.rootfs[path]
        /\ u.rootfs[path].visible = s.rootfs[path].visible
        /\ u.rootfs[path].mode = mode /\ u.rootfs[path].body = body
    <3> DEFINE m == [s.rootfs EXCEPT ![path].mode = mode]
               n == [m EXCEPT ![path].body = body]
    <3>0. Stocked(s)
      BY DEF SiteOK
    <3>1. /\ DOMAIN m = DOMAIN s.rootfs /\ \A p \in DOMAIN s.rootfs \ {path} : m[p] = s.rootfs[p]
          /\ m[path] = [s.rootfs[path] EXCEPT !.mode = mode]
      BY <1>2
    <3>2. /\ DOMAIN n = DOMAIN m /\ \A p \in DOMAIN m \ {path} : n[p] = m[p]
          /\ n[path] = [m[path] EXCEPT !.body = body]
      BY <1>2, <3>1
    <3>3. DOMAIN u = DOMAIN s /\ u.rootfs = n
      BY <1>2, <2>1, <3>0 DEF Stocked
    <3>4. /\ DOMAIN n[path] = DOMAIN s.rootfs[path]
          /\ n[path].visible = s.rootfs[path].visible
          /\ n[path].mode = mode /\ n[path].body = body
      BY <1>2, <3>0, <3>1, <3>2 DEF Stocked
    <3> HIDE DEF m, n
    <3> QED BY <3>0, <3>1, <3>2, <3>3, <3>4 DEF Stocked
  <2> HIDE DEF changed, path
  <2>3. Stocked(u)
    BY <1>2, <2>2 DEF Stocked, SiteOK
  <2>4. RootOK(raw, u.rootfs)
    BY <1>2, <2>2 DEF SiteOK, RootOK
  <2> QED BY <2>2, <2>3, <2>4 DEF SiteOK
<1>3. CASE path # CONFIG /\ path \notin DOMAIN s.rootfs
  <2>1. u = UpdateInfo(added, behind)
    BY <1>3 DEF SetFile, Protected
  <2>2. /\ DOMAIN added.rootfs = DOMAIN s.rootfs \cup {path} /\ "rootfs" \in DOMAIN added
        /\ \A p \in DOMAIN s.rootfs : added.rootfs[p] = s.rootfs[p]
        /\ added.rootfs[path] = File(mode, body)
    BY <1>3 DEF Added, Insert, Stocked, SiteOK
  <2>3. PathOK(path)
    BY FilePathOK
  <2>4. IsFiniteSet(DOMAIN added.rootfs)
    BY <2>2, FS_AddElement DEF SiteOK, RootOK
  <2> HIDE DEF path, added
  <2>5. /\ {"visible", "mode", "body"} \subseteq DOMAIN added.rootfs[path]
        /\ added.rootfs[path].visible \in BOOLEAN
        /\ added.rootfs[path].mode \in Nat /\ Cells(raw, added.rootfs[path].body)
    BY <2>2 DEF File
  <2>6. Stocked(added)
    BY <2>2, <2>5 DEF Stocked, SiteOK
  <2>7. RootOK(raw, added.rootfs)
    BY <2>2, <2>3, <2>4, <2>5 DEF RootOK, SiteOK, PathOK
  <2>8. SiteOK(raw, added)
    BY <2>2, <2>3, <2>6, <2>7 DEF SiteOK
  <2> QED BY <2>1, <2>8, UpdateKeeps
<1> QED BY <1>1, <1>2, <1>3

LEMMA DelKeeps ==
  ASSUME NEW raw, NEW s, SiteOK(raw, s), NEW name, NEW u, u = DelFile(s, name)
  PROVE  SiteOK(raw, u)
<1> DEFINE path == FilePath(name)
<1>1. CASE path = CONFIG
  BY <1>1 DEF DelFile, Protected
<1>2. CASE path # CONFIG
  <2>1. u = [s EXCEPT !.rootfs = Restrict(@, DOMAIN @ \ {path})]
    BY <1>2 DEF DelFile, Protected
  <2>2. /\ DOMAIN u.rootfs = DOMAIN s.rootfs \ {path} /\ "rootfs" \in DOMAIN u
        /\ \A p \in DOMAIN u.rootfs : u.rootfs[p] = s.rootfs[p]
    BY <2>1 DEF Stocked, SiteOK, Restrict
  <2> HIDE DEF path
  <2>3. IsFiniteSet(DOMAIN u.rootfs)
    BY <2>2, FS_Subset DEF SiteOK, RootOK
  <2> QED BY <2>2, <2>3 DEF SiteOK, Stocked, RootOK
<1> QED BY <1>1, <1>2

LEMMA CodesOf ==
  \A s, cmd, name, behind :
    Request(s, cmd, name, behind).code \in Codes /\ DefaultAnswer(cmd, name).code \in Codes
<1> TAKE s, cmd, name, behind
<1>1. \A t, c : Failure(t, c).code = c
  BY DEF Failure, Answered
<1>2. \A t, n, b : Success(t, n, b).code = 200
  BY DEF Success, Answered
<1>3. \A t, n : Page(t, n).code \in Codes
  BY <1>1, <1>2 DEF Page, Codes
<1>4. Directory(s, name).code \in Codes
  BY <1>1, <1>3 DEF Directory, Codes
<1>5. \A f : Content(s, name, f, behind).code \in Codes
  BY <1>1, <1>2, <1>4 DEF Content, Codes, Answered
<1>6. GetContent(s, name, behind).code \in Codes
  BY <1>1, <1>5 DEF GetContent, Codes
<1>7. Request(s, cmd, name, behind).code \in Codes
  BY <1>1, <1>6 DEF Request, Codes
<1>8. DefaultAnswer(cmd, name).code \in Codes
  BY <1>1 DEF DefaultAnswer, Codes, Answered
<1> QED BY <1>7, <1>8

LEMMA TypeStart == Init => TInv
<1> SUFFICES ASSUME Init PROVE TInv
  OBVIOUS
<1>1. archive \in Archives /\ archive.format \in Formats /\ Pieces(Raw, archive.members)
  BY MadeMembers DEF Init, Raw
<1>2. Cells(Raw, file)
  BY <1>1, MadeOK DEF Init, Raw
<1>3. SiteOK(Raw, site)
  <2>1. "rootfs" \in DOMAIN site /\ DOMAIN site.rootfs = {}
    BY DEF Init, NoSite
  <2> QED BY <2>1, EmptyIsOK
<1>4. type = "none" /\ "none" \notin Formats
  BY DEF Init, Formats
<1>5. asked \in Seq(Requests) /\ Len(asked) = 0 /\ Len(saved) = 0
  BY DEF Init
<1>6. IsSeq(replies) /\ Len(replies) = 0
  <2>1. replies \in Seq({0}) /\ Len(replies) = 0
    BY DEF Init
  <2> QED BY <2>1 DEF IsSeq
<1>7. edits = 0 /\ MaxEdits \in Nat /\ MaxRequests \in Nat
  BY SiteAssumption DEF Init, SiteAssumption
<1> QED BY <1>1, <1>2, <1>3, <1>4, <1>5, <1>6, <1>7 DEF TInv, Init

\* What a step may do to the archive and to the site.
LEMMA TypeOfSite ==
  ASSUME TInv, [Next]_vars
  PROVE  /\ archive' = archive /\ Cells(Raw, file')
         /\ type' \in {"none"} \cup Formats /\ (type' \in Formats => (type' = "bin" <=> Raw))
         /\ SiteOK(Raw, site')
<1> USE DEF disk, server, connection
<1>0. /\ archive \in Archives /\ Cells(Raw, file) /\ SiteOK(Raw, site)
      /\ type \in {"none"} \cup Formats /\ (type \in Formats => (type = "bin" <=> Raw))
  BY DEF TInv
<1>1. CASE Damage
  <2>1. PICK n \in 0..(Len(file) - 1) : file' = SubSeq(file, 1, n)
    BY <1>1 DEF Damage
  <2>2. n \in 0..Len(file)
    BY <1>0, CellsIn
  <2>3. Cells(Raw, file')
    BY <1>0, <2>1, <2>2, CellsIn
  <2> QED BY <1>0, <1>1, <2>3 DEF Damage
<1>2. CASE Open
  <2>1. PICK behind \in Heap : site' = OpenCpio(site, file, behind)
    BY <1>2 DEF Open
  <2>2. SiteOK(Raw, site')
    BY <1>0, <2>1, OpenKeeps DEF SiteOK, Stocked
  <2>3. type' = TypeOf(file, type) /\ archive' = archive /\ file' = file
    BY <1>2 DEF Open
  <2>4. CASE file # <<>> /\ "magic" \in DOMAIN file[1]
    <3>1. CellOK(Raw, file[1])
      <4>1. Len(file) \in Nat /\ IsSeq(file) /\ \A i \in 1..Len(file) : CellOK(Raw, file[i])
        BY <1>0, CellsIn
      <4>2. 1 \in 1..Len(file)
        BY <2>4, <4>1 DEF IsSeq
      <4> QED BY <4>1, <4>2
    <3>2. type' = file[1].magic
      BY <2>3, <2>4 DEF TypeOf
    <3> QED BY <1>0, <2>2, <2>3, <2>4, <3>1, <3>2 DEF CellOK
  <2>5. CASE ~(file # <<>> /\ "magic" \in DOMAIN file[1])
    BY <1>0, <2>2, <2>3, <2>5 DEF TypeOf
  <2> QED BY <2>4, <2>5
<1>3. CASE SetMember
  <2>1. PICK e \in Edits, behind \in Heap : site' = SetFile(site, e.name, e.mode, e.body, behind)
    BY <1>3 DEF SetMember
  <2>2. MemberOK(Raw, e)
    BY EditsAssumption, MemberIsOK DEF EditsAssumption
  <2>3. SiteOK(Raw, site')
    BY <1>0, <2>1, <2>2, SetKeeps DEF MemberOK
  <2> QED BY <1>0, <1>3, <2>3 DEF SetMember
<1>4. CASE DelMember
  <2>1. PICK e \in Edits : site' = DelFile(site, e.name)
    BY <1>4 DEF DelMember
  <2>2. SiteOK(Raw, site')
    BY <1>0, <2>1, DelKeeps
  <2> QED BY <1>0, <1>4, <2>2 DEF DelMember
<1>5. CASE Save
  <2>1. file' = Update(type, site) /\ site' = [site EXCEPT !.rootfs = <<>>]
        /\ archive' = archive /\ type' = type
    BY <1>5 DEF Save
  <2>2. Cells(Raw, file')
    BY <1>0, <2>1, UpdateOK DEF SiteOK
  <2>3. SiteOK(Raw, site')
    <3>1. "rootfs" \in DOMAIN site' /\ DOMAIN site'.rootfs = {}
      BY <1>0, <2>1 DEF SiteOK, Stocked
    <3> QED BY <3>1, EmptyIsOK
  <2> QED BY <1>0, <2>1, <2>2, <2>3
<1>6. CASE Close
  <2>1. site' = [site EXCEPT !.rootfs = <<>>] /\ archive' = archive /\ type' = type /\ file' = file
    BY <1>6 DEF Close
  <2>2. SiteOK(Raw, site')
    <3>1. "rootfs" \in DOMAIN site' /\ DOMAIN site'.rootfs = {}
      BY <1>0, <2>1 DEF SiteOK, Stocked
    <3> QED BY <3>1, EmptyIsOK
  <2> QED BY <1>0, <2>1, <2>2
<1>7. CASE UNCHANGED <<archive, file, type, site>>
  BY <1>0, <1>7
<1> QED
  BY <1>1, <1>2, <1>3, <1>4, <1>5, <1>6, <1>7
  DEF Next, vars, StartWithout, Accept, Ask, Arrive, Serve, Sent, Idle

\* What a step may do to the counters and to the connection.
LEMMA TypeOfRest ==
  ASSUME TInv, [Next]_vars
  PROVE  /\ phase' \in {"made", "open", "saved", "closed"} /\ conn' \in {"none", "open", "sending", "over"}
         /\ norootfs' \in BOOLEAN /\ careful' \in BOOLEAN /\ whole' \in BOOLEAN
         /\ edits' \in 0..MaxEdits /\ asked' \in Seq(Requests) /\ Len(asked') <= MaxRequests
         /\ Len(saved') <= 1
         /\ IsSeq(replies') /\ \A i \in 1..Len(replies') : replies'[i].code \in Codes
<1> USE DEF disk, server, connection
<1>0. /\ phase \in {"made", "open", "saved", "closed"} /\ conn \in {"none", "open", "sending", "over"}
      /\ norootfs \in BOOLEAN /\ careful \in BOOLEAN /\ whole \in BOOLEAN
      /\ edits \in 0..MaxEdits /\ asked \in Seq(Requests) /\ Len(asked) <= MaxRequests /\ Len(saved) <= 1
      /\ IsSeq(replies) /\ \A i \in 1..Len(replies) : replies[i].code \in Codes
      /\ MaxEdits \in Nat /\ MaxRequests \in Nat
  BY SiteAssumption DEF TInv, SiteAssumption
<1>1. CASE Damage \/ Open \/ StartWithout \/ Close \/ Arrive \/ Sent \/ Idle
  BY <1>0, <1>1 DEF Damage, Open, StartWithout, Close, Arrive, Sent, Idle
<1>2. CASE SetMember \/ DelMember \/ Save
  <2>1. edits' \in 0..MaxEdits
    BY <1>0, <1>2 DEF SetMember, DelMember, Save
  <2>2. Len(saved') <= 1
    <3>1. saved' = <<>> \/ saved' = <<site>>
      BY <1>2 DEF SetMember, DelMember, Save
    <3>2. ASSUME NEW s, s = <<>> \/ \E t : s = <<t>> PROVE Len(s) <= 1
      <4>1. CASE s = <<>>
        BY <4>1
      <4>2. ASSUME NEW t, s = <<t>> PROVE Len(s) <= 1
        <5>1. s \in Seq({t}) /\ Len(s) = 1
          BY <4>2
        <5> QED BY <5>1
      <4> QED BY <3>2, <4>1, <4>2
    <3> QED BY <3>1, <3>2
  <2>3. whole' \in BOOLEAN
    BY <1>0, <1>2 DEF SetMember, DelMember, Save
  <2>4. phase' \in {"made", "open", "saved", "closed"}
    BY <1>0, <1>2 DEF SetMember, DelMember, Save
  <2>5. UNCHANGED <<norootfs, connection>>
    BY <1>2 DEF SetMember, DelMember, Save
  <2> QED BY <1>0, <2>1, <2>2, <2>3, <2>4, <2>5
<1>3. CASE Accept
  BY <1>0, <1>3 DEF Accept
<1>4. CASE Ask
  <2>1. PICK r \in Requests : asked' = Append(asked, r)
    BY <1>4 DEF Ask
  <2>2. Len(asked) < MaxRequests
    BY <1>4 DEF Ask
  <2>3. asked' \in Seq(Requests) /\ Len(asked') <= MaxRequests
    BY <1>0, <2>1, <2>2
  <2> QED BY <1>0, <1>4, <2>3 DEF Ask
<1>5. CASE Serve
  <2>1. UNCHANGED <<disk, server, careful, asked, transit>> /\ conn' \in {"none", "open", "sending", "over"}
    BY <1>0, <1>5 DEF Serve
  <2>2. replies' = replies \/ \E reply : reply.code \in Codes /\ replies' = Append(replies, reply)
    <3>1. ASSUME NEW cmd, NEW name, NEW reply \in Replies(cmd, name) PROVE reply.code \in Codes
      BY CodesOf DEF Replies, Reply
    <3>2. PICK n : LET read == SubSeq(wire, 1, n)
                   IN \/ UNCHANGED replies
                      \/ \E reply \in Replies(Cmd(read), Name(read)) : replies' = Append(replies, reply)
      BY <1>5 DEF Serve
    <3> QED BY <3>1, <3>2
  <2>3. IsSeq(replies') /\ \A i \in 1..Len(replies') : replies'[i].code \in Codes
    <3>1. CASE replies' = replies
      BY <1>0, <3>1
    <3>2. ASSUME NEW reply, reply.code \in Codes, replies' = Append(replies, reply)
          PROVE  IsSeq(replies') /\ \A i \in 1..Len(replies') : replies'[i].code \in Codes
      <4>1. PICK S : replies \in Seq(S)
        BY <1>0 DEF IsSeq
      <4> DEFINE R == S \cup {reply}
      <4>2. replies \in Seq(R) /\ reply \in R
        BY <4>1
      <4> HIDE DEF R
      <4>3. replies' \in Seq(R) /\ Len(replies') = Len(replies) + 1
            /\ \A i \in 1..Len(replies') : replies'[i] = IF i \in 1..Len(replies) THEN replies[i] ELSE reply
        BY <3>2, <4>2
      <4> QED BY <1>0, <3>2, <4>3 DEF IsSeq
    <3> QED BY <2>2, <3>1, <3>2
  <2> QED BY <1>0, <2>1, <2>3
<1>6. CASE UNCHANGED vars
  BY <1>0, <1>6 DEF vars
<1> QED BY <1>1, <1>2, <1>3, <1>4, <1>5, <1>6 DEF Next

LEMMA TypesInductive == TInv /\ [Next]_vars => TInv'
<1> SUFFICES ASSUME TInv, [Next]_vars PROVE TInv'
  OBVIOUS
<1>1. archive' = archive /\ archive \in Archives /\ Raw' = Raw
  BY TypeOfSite DEF TInv, Raw
<1> QED BY <1>1, TypeOfSite, TypeOfRest DEF TInv

\* The program keeps to its types: whatever breaks off, is edited, saved and read
\* again, the paths of members begin with a slash and the answers have their codes.
THEOREM SiteTypes == Spec => []TypeOK
<1>1. TInv /\ [Next]_vars => TInv'
  BY TypesInductive
<1>2. TInv => TypeOK
  <2> SUFFICES ASSUME TInv PROVE TypeOK
    OBVIOUS
  <2>1. DOMAIN replies = 1..Len(replies)
    BY DEF TInv, IsSeq
  <2>2. \A path \in DOMAIN site.rootfs : path # <<>> => path[1] = "/"
    BY DEF TInv, SiteOK, PathOK
  <2> QED BY <2>1, <2>2 DEF TInv, TypeOK, Codes
<1> QED BY <1>1, <1>2, TypeStart, PTL DEF Spec

----------------------------------------------------------------------------
(* What is left of an archive whose file breaks off. *)

AsIn(f, g) ==
  /\ DOMAIN f = DOMAIN g
  /\ \A path \in DOMAIN g : f[path].mode = g[path].mode /\ f[path].body = g[path].body
\* Nobody has edited the site, which is what was read of the file, of which the end
\* may be missing.
DInv ==
  /\ phase = "made" => norootfs
  /\ phase = "saved" => edits # 0
  /\ edits = 0 =>
       /\ PartOf(file, Made(archive.format, archive.members))
       /\ whole => Len(file) = Len(Made(archive.format, archive.members))
       /\ phase = "open" /\ ~norootfs => AsIn(site.rootfs, Input(Members(file)))

LEMMA PartsOfMade ==
  ASSUME NEW m1, IsSeq(m1)
  PROVE  /\ PartOf(m1, m1)
         /\ \A n \in 0..Len(m1) : PartOf(SubSeq(m1, 1, n), m1)
<1>1. PICK S : m1 \in Seq(S)
  BY DEF IsSeq
<1>2. ASSUME NEW n \in 0..Len(m1) PROVE PartOf(SubSeq(m1, 1, n), m1)
  <2> DEFINE s == SubSeq(m1, 1, n)
  <2>1. Len(s) = n /\ n <= Len(m1) /\ \A i \in 1..n : s[i] = m1[i]
    BY <1>1, <1>2
  <2> HIDE DEF s
  <2> QED BY <2>1 DEF PartOf, s
<1>3. PartOf(m1, m1)
  BY <1>1 DEF PartOf
<1> QED BY <1>2, <1>3

LEMMA DamageStart == Init => DInv
<1> SUFFICES ASSUME Init PROVE DInv
  OBVIOUS
<1>1. archive \in Archives /\ archive.format \in Formats /\ Pieces(Raw, archive.members)
  BY MadeMembers DEF Init, Raw
<1> DEFINE M == Made(archive.format, archive.members)
<1>2. IsSeq(M)
  <2>1. Cells(Raw, M)
    BY <1>1, MadeOK DEF Raw
  <2> QED BY <2>1, CellsIn
<1>3. file = M /\ phase = "made" /\ norootfs
  BY DEF Init
<1> HIDE DEF M
<1>4. PartOf(file, M)
  BY <1>2, <1>3, PartsOfMade
<1> QED BY <1>3, <1>4 DEF DInv, M

LEMMA AsRead ==
  ASSUME NEW raw, NEW s, "rootfs" \in DOMAIN s, NEW cells, Cells(raw, cells), NEW behind,
         NEW u, u = OpenCpio(s, cells, behind)
  PROVE  AsIn(u.rootfs, Input(Members(cells)))
<1> DEFINE ms == Members(cells)
           rootfs == Input(ms)
           t == [s EXCEPT !.rootfs = rootfs]
<1>1. ms \in Seq(Parsed(cells)) /\ \A m \in Parsed(cells) : MemberOK(raw, m)
  BY MembersOK
<1> HIDE DEF ms
<1>2. IsSeq(ms)
  BY <1>1 DEF IsSeq
<1>3. \A path \in DOMAIN rootfs : \E i \in 1..Len(ms) : rootfs[path] = File(ms[i].mode, ms[i].body)
  BY <1>2, InputIs
<1>4. "rootfs" \in DOMAIN t /\ t.rootfs = rootfs /\ u = UpdateInfo(t, behind)
  BY DEF OpenCpio, ms
<1> HIDE DEF t, rootfs
<1>5. Stocked(t)
  <2>1. ASSUME NEW p \in DOMAIN rootfs
        PROVE  {"visible", "mode", "body"} \subseteq DOMAIN rootfs[p] /\ rootfs[p].visible \in BOOLEAN
    <3>1. PICK i \in 1..Len(ms) : rootfs[p] = File(ms[i].mode, ms[i].body)
      BY <1>3
    <3> QED BY <3>1 DEF File
  <2> QED BY <1>4, <2>1 DEF Stocked
<1>6. \A p \in DOMAIN t.rootfs \cup DOMAIN u.rootfs : Same(t, u, p)
  BY <1>4, <1>5, UpdateConceals
<1>7. AsIn(u.rootfs, rootfs)
  BY <1>4, <1>6 DEF AsIn, Same
<1> QED BY <1>7 DEF rootfs, ms

LEMMA DamageStep == TInv /\ TInv' /\ DInv /\ [Next]_vars => DInv'
<1> SUFFICES ASSUME TInv, TInv', DInv, [Next]_vars PROVE DInv'
  OBVIOUS
<1> USE DEF disk, server, connection
<1> DEFINE M == Made(archive.format, archive.members)
           A(s, f) == AsIn(s.rootfs, Input(Members(f)))
<1>0. edits \in Nat /\ Cells(Raw, file) /\ "rootfs" \in DOMAIN site
  BY SiteAssumption DEF TInv, SiteAssumption, SiteOK, Stocked
<1>1. /\ phase = "made" => norootfs
      /\ phase = "saved" => edits # 0
      /\ edits = 0 => PartOf(file, M)
      /\ edits = 0 /\ whole => Len(file) = Len(M)
      /\ edits = 0 /\ phase = "open" /\ ~norootfs => A(site, file)
  BY DEF DInv
<1>2. archive' = archive
  BY TypeOfSite
<1>3. SUFFICES /\ phase' = "made" => norootfs'
               /\ phase' = "saved" => edits' # 0
               /\ edits' = 0 => PartOf(file', M)
               /\ edits' = 0 /\ whole' => Len(file') = Len(M)
               /\ edits' = 0 /\ phase' = "open" /\ ~norootfs' => A(site', file')
  BY <1>2 DEF DInv
<1>4. CASE Damage
  <2>1. PICK n \in 0..(Len(file) - 1) : file' = SubSeq(file, 1, n)
    BY <1>4 DEF Damage
  <2>2. file = M /\ phase = "made" /\ whole' = FALSE /\ UNCHANGED server
    BY <1>4 DEF Damage
  <2> HIDE DEF M, A
  <2>3. IsSeq(M) /\ n \in 0..Len(M)
    BY <1>0, <2>1, <2>2, CellsIn
  <2>4. PartOf(file', M)
    BY <2>1, <2>2, <2>3, PartsOfMade
  <2> QED BY <1>1, <2>2, <2>4
<1>5. CASE Open
  <2>1. PICK behind \in Heap : site' = OpenCpio(site, file, behind)
    BY <1>5 DEF Open
  <2>2. A(site', file)
    BY <1>0, <2>1, AsRead
  <2>3. phase' = "open" /\ norootfs' = FALSE /\ UNCHANGED <<disk, edits>>
    BY <1>5 DEF Open
  <2> HIDE DEF M, A
  <2> QED BY <1>1, <2>2, <2>3
<1>6. CASE StartWithout
  <2>1. phase = "made" /\ phase' = "open" /\ UNCHANGED <<disk, site, norootfs, edits>>
    BY <1>6 DEF StartWithout
  <2> HIDE DEF M, A
  <2> QED BY <1>1, <2>1
<1>7. CASE SetMember \/ DelMember \/ Save
  <2>1. /\ edits' = edits + 1
        /\ \/ phase' = phase /\ norootfs' = norootfs /\ phase = "open"
           \/ phase' = "saved"
    BY <1>7 DEF SetMember, DelMember, Save, Editable
  <2>2. edits' # 0
    BY <1>0, <2>1
  <2> HIDE DEF M, A
  <2> QED BY <2>1, <2>2
<1>8. CASE Close
  <2>1. phase' = "closed" /\ UNCHANGED <<disk, edits>>
    BY <1>8 DEF Close
  <2> HIDE DEF M, A
  <2> QED BY <1>1, <2>1
<1>9. CASE UNCHANGED <<disk, server>>
  <2>1. UNCHANGED <<file, whole, site, phase, norootfs, edits>>
    BY <1>9
  <2> HIDE DEF M, A
  <2> QED BY <1>1, <2>1
<1> QED
  BY <1>4, <1>5, <1>6, <1>7, <1>8, <1>9
  DEF Next, vars, Accept, Ask, Arrive, Serve, Sent, Idle

LEMMA NoNameParts == NameParts(<<>>) = <<>>
<1> DEFINE none == {}
           s == <<>>
           n == SelectInSeq(CString(s), LAMBDA c : c = "?")
<1>1. s \in Seq(none)
  OBVIOUS
<1>2. NameParts(s) = Token(IF n = 0 THEN s ELSE SubSeq(s, 1, n - 1))
  BY DEF NameParts
<1>3. n = SelectInSeq(CString(s), LAMBDA c : c = "?")
  OBVIOUS
<1> HIDE DEF n, s
<1>4. Bare(s) \in Seq(none \ {NUL, "?"}) /\ NameParts(s) = Token(Bare(s))
  BY <1>1, <1>2, <1>3, BareIs
<1>5. Bare(s) = <<>>
  BY <1>4
<1>6. NameParts(s) = <<>>
  BY <1>4, <1>5, TokenOfSlash
<1> QED BY <1>6 DEF s

\* The members of an archive can be told apart, and each is read under the path it is
\* meant for.
LEMMA ArchiveTellable ==
  ASSUME NEW a \in Archives
  PROVE  /\ AllTellable(a.format, a.members)
         /\ \A i \in 1..Len(a.members) :
              FilePath(Append(a.members[i].name, NUL)) = Intended(a.members[i].name)
<1>1. /\ a.members \in Seq(ToSet(a.members)) /\ \A m \in ToSet(a.members) : IsMember(m)
  BY ArchivesAssumption DEF ArchivesAssumption
<1>2. \A m \in ToSet(a.members) : Packable(a.format, m)
  BY PackedAssumption DEF PackedAssumption
<1>3. \A j \in 1..Len(a.members) : a.members[j] \in ToSet(a.members)
  BY <1>1
<1>4. ASSUME NEW j \in 1..Len(a.members) PROVE Tellable(a.format, a.members[j])
  <2> DEFINE x == a.members[j]
  <2>1. IsMember(x) /\ Packable(a.format, x)
    BY <1>1, <1>2, <1>3
  <2> HIDE DEF x
  <2>2. Roomy(a.format, x) /\ NameParts(x.name) # <<>> /\ x.name[1] # C_TRAILER
    BY <2>1 DEF Packable, Roomy
  <2>3. x.name # <<>>
    <3>1. CASE x.name = <<>>
      BY <2>2, <3>1, NoNameParts
    <3> QED BY <3>1
  <2>4. Tellable(a.format, x)
    BY <2>2, <2>3 DEF Tellable
  <2> QED BY <2>4 DEF x
<1>5. ASSUME NEW i \in 1..Len(a.members)
      PROVE  FilePath(Append(a.members[i].name, NUL)) = Intended(a.members[i].name)
  <2> DEFINE x == a.members[i]
  <2>1. IsMember(x) /\ Packable(a.format, x)
    BY <1>1, <1>2, <1>3
  <2> HIDE DEF x
  <2>2. FilePath(Append(x.name, NUL)) = Intended(x.name)
    BY <2>1, PathOfMember DEF IsMember, Packable
  <2> QED BY <2>2 DEF x
<1> QED BY <1>4, <1>5 DEF AllTellable

LEMMA MadeOf ==
  ASSUME archive \in Archives, NEW path, NEW i \in 1..Len(archive.members),
         Intended(archive.members[i].name) = path,
         \A j \in 1..(i - 1) : Intended(archive.members[j].name) # path
  PROVE  MadeAt(path) = {archive.members[i]}
<1> DEFINE ms == archive.members
           I == {j \in 1..Len(ms) : Intended(ms[j].name) = path}
           n == SelectInSeq(ms, LAMBDA m : Intended(m.name) = path)
<1>1. n = IF I # {} THEN Min(I) ELSE 0
  BY DEF SelectInSeq
<1>2. Len(ms) \in Nat
  BY ArchivesAssumption DEF ArchivesAssumption
<1>3. i \in I /\ I \subseteq Nat /\ \A j \in I : i <= j
  <2>1. ASSUME NEW j \in I PROVE i <= j
    <3>1. j \in 1..Len(ms) /\ Intended(ms[j].name) = path
      OBVIOUS
    <3>2. ~(j \in 1..(i - 1))
      BY <3>1
    <3> QED BY <1>2, <3>1, <3>2
  <2> QED BY <2>1
<1> HIDE DEF I
<1>4. Min(I) = i
  <2>1. \A x, y \in Nat : x <= y /\ y <= x => x = y
    OBVIOUS
  <2> QED BY <1>3, <2>1 DEF Min
<1>5. n = i /\ i # 0
  BY <1>1, <1>3, <1>4
<1>6. MadeAt(path) = IF n = 0 THEN {} ELSE {ms[n]}
  BY DEF MadeAt
<1> QED BY <1>5, <1>6

\* The site has each member that was made, under its path.
AllThere ==
  /\ DOMAIN site.rootfs = MadePaths
  /\ \A path \in MadePaths : \E m \in MadeAt(path) : /\ site.rootfs[path].mode = m.mode
                                                    /\ site.rootfs[path].body = m.body

LEMMA DamageSeen ==
  ASSUME TInv, DInv
  PROVE  DamageIsLocal /\ (phase = "open" /\ ~norootfs /\ edits = 0 /\ whole => AllThere)
<1> SUFFICES ASSUME phase = "open", ~norootfs, edits = 0
             PROVE  DamageIsLocal /\ (whole => AllThere)
  BY DEF DamageIsLocal
<1> DEFINE fmt == archive.format
           members == archive.members
           N == Len(members)
           ms == Members(file)
           K(k) == SizeOf(fmt, members, k)
           intended(n) == Intended(members[n].name)
           as(path, m) == /\ site.rootfs[path].mode = m.mode
                          /\ site.rootfs[path].body = m.body
           bad == {path \in DOMAIN site.rootfs : ~ \E m \in MadeAt(path) : as(path, m)}
           size(n) == Len(Made(archive.format, SubSeq(archive.members, 1, n)))
           read == {n \in DOMAIN archive.members : size(n) - size(0) <= Len(file)}
<1>1. archive \in Archives /\ fmt \in Formats /\ (fmt = "bin" <=> Raw) /\ Pieces(Raw, members)
  BY MadeMembers DEF TInv, Raw
<1>2. Cells(Raw, file) /\ Len(file) \in Nat /\ N \in Nat /\ DOMAIN members = 1..N
  <2>1. Cells(Raw, file)
    BY DEF TInv
  <2> QED BY <1>1, <2>1, CellsIn DEF Pieces, IsSeq
<1>3. PartOf(file, Made(fmt, members)) /\ (whole => Len(file) = Len(Made(fmt, members)))
  BY DEF DInv
<1>4. AsIn(site.rootfs, Input(ms))
  BY DEF DInv
<1>5. AllTellable(fmt, members) /\ \A i \in 1..N : FilePath(Append(members[i].name, NUL)) = intended(i)
  BY <1>1, ArchiveTellable
<1>6. PICK r : ReadAsMade(fmt, members, file, r)
  BY <1>1, <1>2, <1>3, <1>5, MembersRead
<1>7. /\ r \in 0..N /\ (Len(ms) = r \/ Len(ms) = r + 1)
      /\ \A k \in 0..N : K(k) <= Len(file) => k <= r
      /\ \A i \in 1..r : AsMade(ms[i], members[i])
      /\ whole => r = N /\ Len(ms) = N
  <2>1. \A k \in 0..N : K(k) <= Len(file) => k <= r
    BY <1>6 DEF ReadAsMade, Whole
  <2>2. r \in 0..N /\ (Len(ms) = r \/ Len(ms) = r + 1) /\ \A i \in 1..r : AsMade(ms[i], members[i])
    BY <1>6 DEF ReadAsMade, Whole
  <2>3. whole => Len(ms) = N
    BY <1>3, <1>6 DEF ReadAsMade
  <2>4. whole => r = N
    <3>1. N \in 0..N /\ K(N) <= Len(Made(fmt, members))
      BY <1>1, <1>2, PackedHeld
    <3> HIDE DEF K
    <3> QED BY <1>2, <1>3, <2>1, <2>2, <3>1
  <2> QED BY <2>1, <2>2, <2>3, <2>4
<1>8. IsSeq(ms)
  <2>1. Members(file) \in Seq(Parsed(file))
    BY <1>2, MembersOK
  <2> QED BY <2>1 DEF IsSeq
<1>9. \A n \in 1..N : size(n) - size(0) = K(n)
  <2> TAKE n \in 1..N
  <2> DEFINE c == Len(Piece(fmt, Closing))
  <2>1. n \in 0..N /\ 0 \in 0..N
    BY <1>2
  <2>2. size(n) = K(n) + c
    BY <1>1, <2>1, PrefixSize
  <2>3. size(0) = K(0) + c
    BY <1>1, <2>1, PrefixSize
  <2>4. K(0) = 0 /\ K(n) \in Nat
    BY <1>1, <2>1, PackedHeld
  <2>5. c \in Nat
    <3>1. HeldAt(Made(fmt, members), SizeOf(fmt, members, Len(members)), Piece(fmt, Closing))
      BY <1>1, PackedHeld
    <3> QED BY <3>1 DEF HeldAt
  <2> HIDE DEF c, K, size
  <2> QED BY <2>2, <2>3, <2>4, <2>5
<1>10. /\ DOMAIN site.rootfs = {FilePath(ms[i].name) : i \in 1..Len(ms)}
       /\ \A path \in DOMAIN site.rootfs : \E i \in 1..Len(ms) :
            First(ms, i, path) /\ site.rootfs[path].mode = ms[i].mode /\ site.rootfs[path].body = ms[i].body
  <2> DEFINE f == Input(ms)
  <2>1. /\ DOMAIN f = {FilePath(ms[i].name) : i \in 1..Len(ms)}
        /\ \A path \in DOMAIN f : \E i \in 1..Len(ms) :
              First(ms, i, path) /\ f[path] = File(ms[i].mode, ms[i].body)
    BY <1>8, InputIs
  <2>2. \A i : /\ File(ms[i].mode, ms[i].body).mode = ms[i].mode
               /\ File(ms[i].mode, ms[i].body).body = ms[i].body
    BY DEF File
  <2>3. /\ DOMAIN site.rootfs = DOMAIN f
        /\ \A path \in DOMAIN f : site.rootfs[path].mode = f[path].mode /\ site.rootfs[path].body = f[path].body
    BY <1>4 DEF AsIn
  <2> HIDE DEF f, ms
  <2> QED BY <2>1, <2>2, <2>3
<1> HIDE DEF fmt, members, N, ms, K, intended
<1>11. ASSUME NEW i \in 1..r PROVE FilePath(ms[i].name) = intended(i)
  <2>1. i \in 1..N /\ AsMade(ms[i], members[i])
    BY <1>2, <1>7
  <2> QED BY <1>5, <2>1 DEF AsMade
<1>12. ASSUME NEW path \in DOMAIN site.rootfs, NEW i \in 1..r, First(ms, i, path),
              site.rootfs[path].mode = ms[i].mode, site.rootfs[path].body = ms[i].body
       PROVE  path \notin bad
  <2>1. i \in 1..N /\ AsMade(ms[i], members[i]) /\ intended(i) = path
    BY <1>2, <1>7, <1>11, <1>12 DEF First
  <2>2. \A j \in 1..(i - 1) : intended(j) # path
    <3> TAKE j \in 1..(i - 1)
    <3>1. j \in 1..r
      BY <1>7
    <3> QED BY <1>11, <1>12, <3>1 DEF First
  <2>3. MadeAt(path) = {members[i]}
    BY <1>1, <2>1, <2>2, MadeOf DEF members, N, intended
  <2>4. as(path, members[i])
    BY <1>12, <2>1 DEF AsMade
  <2> QED BY <2>3, <2>4
<1>13. bad \subseteq {FilePath(ms[r + 1].name)} /\ (whole => bad = {})
  <2>1. ASSUME NEW path \in bad PROVE path = FilePath(ms[r + 1].name) /\ ~whole
    <3>1. path \in DOMAIN site.rootfs
      OBVIOUS
    <3>2. PICK i \in 1..Len(ms) : /\ First(ms, i, path) /\ site.rootfs[path].mode = ms[i].mode
                                  /\ site.rootfs[path].body = ms[i].body
      BY <1>10, <3>1
    <3>3. i \notin 1..r
      BY <1>12, <3>1, <3>2
    <3>4. i = r + 1 /\ ~whole
      BY <1>2, <1>7, <3>3
    <3> QED BY <3>2, <3>4 DEF First
  <2> HIDE DEF bad
  <2> QED BY <2>1
<1>14. Cardinality(bad) <= 1
  <2> DEFINE x == FilePath(ms[r + 1].name)
  <2>1. bad = {} \/ bad = {x}
    BY <1>13
  <2> HIDE DEF bad, x
  <2>2. Cardinality({}) = 0 /\ Cardinality({x}) = 1
    BY FS_EmptySet, FS_Singleton
  <2> QED BY <2>1, <2>2
<1>15. ASSUME NEW n \in read PROVE intended(n) \in DOMAIN site.rootfs \ bad
  <2>1. n \in 1..N /\ size(n) - size(0) <= Len(file)
    BY <1>2 DEF members
  <2>2. K(n) <= Len(file) /\ n \in 0..N
    BY <1>2, <1>9, <2>1
  <2>3. n <= r /\ n \in 1..r /\ n \in 1..Len(ms)
    BY <1>2, <1>7, <2>1, <2>2
  <2> DEFINE path == intended(n)
  <2>4. path = FilePath(ms[n].name) /\ path \in DOMAIN site.rootfs
    BY <1>10, <1>11, <2>3
  <2>5. PICK i \in 1..Len(ms) : /\ First(ms, i, path) /\ site.rootfs[path].mode = ms[i].mode
                                /\ site.rootfs[path].body = ms[i].body
    BY <1>10, <2>4
  <2>6. ~(n \in 1..(i - 1))
    BY <2>4, <2>5 DEF First
  <2>7. i \in 1..r
    BY <1>7, <2>3, <2>5, <2>6
  <2> HIDE DEF path, bad
  <2>8. path \notin bad
    BY <1>12, <2>4, <2>5, <2>7
  <2> QED BY <2>4, <2>8 DEF path
<1>16. whole => AllThere
  <2> SUFFICES ASSUME whole PROVE AllThere
    OBVIOUS
  <2>1. MadePaths = {intended(i) : i \in 1..N}
    <3>1. MadePaths = {Intended(archive.members[i].name) : i \in DOMAIN archive.members}
      BY DEF MadePaths, ToSet
    <3>2. DOMAIN archive.members = 1..N
      BY <1>2 DEF members
    <3> QED BY <3>1, <3>2 DEF intended, members
  <2>2. {intended(i) : i \in 1..N} = {FilePath(ms[i].name) : i \in 1..Len(ms)}
    BY <1>7, <1>11
  <2>3. DOMAIN site.rootfs = MadePaths
    BY <1>10, <2>1, <2>2
  <2>4. ASSUME NEW path \in DOMAIN site.rootfs PROVE \E m \in MadeAt(path) : as(path, m)
    BY <1>13
  <2> QED BY <2>3, <2>4 DEF AllThere
<1> HIDE DEF bad, read
<1>17. /\ Cardinality(bad) <= 1 /\ (whole => bad = {})
       /\ \A n \in read : Intended(archive.members[n].name) \in DOMAIN site.rootfs \ bad
  BY <1>13, <1>14, <1>15 DEF intended, members
<1> QED BY <1>16, <1>17 DEF DamageIsLocal, bad, read

\* Of an archive of any size and in every format: wherever its file breaks off, at most
\* one member is not what it was made, and what is in the file whole is in the site.
THEOREM DamageStaysLocal == Spec => []DamageIsLocal
<1>1. TInv /\ [Next]_vars => TInv'
  BY TypesInductive
<1>2. TInv /\ DInv => DamageIsLocal
  BY DamageSeen
<1> QED BY <1>1, <1>2, TypeStart, DamageStart, DamageStep, PTL DEF Spec

----------------------------------------------------------------------------
(* From the file to the browser. *)

\* Each entry is the value of a key of its section.
LEMMA EntriesAre ==
  ASSUME NEW settings, IsFiniteSet(DOMAIN settings), NEW sec,
         NEW e \in ToSet(Entries(settings, sec))
  PROVE  \E key : <<sec, key>> \in DOMAIN settings /\ e = settings[<<sec, key>>]
<1> DEFINE most == Cardinality(DOMAIN settings)
           has(s, n) == Has(settings, s, ToString(n))
           comes(n) == \E s \in {"index", "hide"} : \A i \in 0..(n - 1) : has(s, i)
           at(n) == settings[<<sec, ToString(n)>>]
           new(s, n) == IF comes(n - 1) /\ has(sec, n - 1) THEN Append(s, at(n - 1)) ELSE s
           Reads(f) == f = [n \in 0..most |-> IF n = 0 THEN <<>> ELSE new(f[n - 1], n)]
           list == CHOOSE f : Reads(f)
           V == {settings[a] : a \in {a \in DOMAIN settings : \E key : a = <<sec, key>>}}
           S == Seq(V)
           step == [x \in S \X (1..most) |-> new(x[1], x[2])]
<1>1. most \in Nat
  BY FS_CardinalityType
<1>2. Entries(settings, sec) = list[most]
  BY DEF Entries
<1>3. \A n : has(sec, n) => at(n) \in V
  BY DEF Has
<1>4. \A s \in S, n \in 1..most : new(s, n) \in S
  <2> HIDE DEF V, has, comes, at
  <2> QED BY <1>3
<1>5. <<>> \in S
  OBVIOUS
<1> HIDE DEF has, comes, at, most, V, S
<1>6. Keeps(step, S, most)
  <2>1. \A x \in S \X (1..most) : new(x[1], x[2]) \in S
    BY <1>4
  <2> QED BY <1>1, <2>1 DEF Keeps
<1>7. \A s \in S, n \in 1..most : step[<<s, n>>] = new(s, n)
  <2> HIDE DEF new
  <2> QED OBVIOUS
<1> HIDE DEF step, new
<1>8. \E f : Reads(f)
  <2>1. PICK f : Follows(f, step, S, <<>>, most)
    BY <1>5, <1>6, Recursion
  <2>2. \A k \in 1..most : f[k - 1] \in S /\ f[k] = step[<<f[k - 1], k>>] /\ k # 0
    BY <1>1, <2>1 DEF Follows
  <2>3. \A k \in 1..most : f[k] = new(f[k - 1], k)
    BY <1>7, <2>2
  <2>4. Reads(f)
    BY <2>1, <2>3 DEF Follows
  <2> HIDE DEF Reads
  <2> QED BY <2>4
<1>9. Reads(list)
  <2> HIDE DEF Reads
  <2> QED BY <1>8
<1> HIDE DEF list
<1>10. Follows(list, step, S, <<>>, most)
  <2>1. list = [k \in 0..most |-> list[k]] /\ list[0] = <<>>
    BY <1>1, <1>9
  <2>2. \A k \in 1..most : list[k - 1] \in S => list[k] = step[<<list[k - 1], k>>]
    <3>1. \A k \in 1..most : list[k] = new(list[k - 1], k)
      BY <1>1, <1>9
    <3> QED BY <1>7, <3>1
  <2> HIDE DEF Reads
  <2> QED BY <1>5, <1>6, <2>1, <2>2, Determined
<1>11. Entries(settings, sec) \in S
  BY <1>1, <1>2, <1>10 DEF Follows
<1>12. e \in V
  BY <1>11 DEF S, ToSet
<1> QED BY <1>12 DEF V

LEMMA MadeIsMember ==
  ASSUME archive \in Archives, NEW path, NEW m \in MadeAt(path)
  PROVE  /\ IsMember(m) /\ Intended(m.name) = path /\ m \in ToSet(archive.members)
         /\ MadeAt(path) = {m}
<1> DEFINE ms == archive.members
           I == {j \in 1..Len(ms) : Intended(ms[j].name) = path}
           n == SelectInSeq(ms, LAMBDA x : Intended(x.name) = path)
<1>1. n = IF I # {} THEN Min(I) ELSE 0
  BY DEF SelectInSeq
<1>2. MadeAt(path) = IF n = 0 THEN {} ELSE {ms[n]}
  BY DEF MadeAt
<1>3. n # 0 /\ m = ms[n] /\ MadeAt(path) = {m}
  <2> HIDE DEF n
  <2> QED BY <1>2
<1>4. I # {} /\ n = Min(I)
  <2> HIDE DEF n, I
  <2> QED BY <1>1, <1>3
<1>5. n \in I
  <2>1. I \subseteq 1..Len(ms)
    OBVIOUS
  <2> HIDE DEF n, I
  <2> QED BY <1>4, <2>1, LeastIsIn
<1>6. ms \in Seq(ToSet(ms)) /\ \A x \in ToSet(ms) : IsMember(x)
  BY ArchivesAssumption DEF ArchivesAssumption
<1>7. n \in 1..Len(ms) /\ Intended(ms[n].name) = path
  <2> HIDE DEF n
  <2> QED BY <1>5
<1>8. ms[n] \in ToSet(ms)
  <2> HIDE DEF n
  <2> QED BY <1>6, <1>7
<1> QED BY <1>3, <1>6, <1>7, <1>8

\* Whatever lies behind a .config that can be read, what updateinfo() hides is what
\* its author lists.
LEMMA HiddenAsListed ==
  ASSUME archive \in Archives, Sane, NEW m \in MadeAt(CONFIG), NEW behind,
         NEW conf, conf = OpenMemory([i \in DOMAIN m.body |-> ConfigLine(m.body[i], behind)]),
         NEW p \in ToSet(Entries(conf.settings, "hide"))
  PROVE  p \in Private
<1> DEFINE body == m.body
           lines == [i \in DOMAIN body |-> body[i].line]
           len == Len(lines)
<1>1. body \in Seq(ToSet(body)) /\ \A c \in ToSet(body) : "line" \in DOMAIN c => IsLine(c.line)
  BY MadeIsMember DEF IsMember
<1>2. \A c \in ToSet(body) : /\ "line" \in DOMAIN c
                             /\ c.line.kind # "other" /\ c.line = Seen(c.line)
  <2>1. ToSet(body) \subseteq Config
    BY DEF Config
  <2> QED BY <2>1 DEF Sane
<1>3. /\ Len(body) \in Nat /\ DOMAIN body = 1..Len(body)
      /\ \A i \in DOMAIN body : body[i] \in ToSet(body)
  BY <1>1
<1> HIDE DEF body
<1>4. /\ len = Len(body) /\ DOMAIN lines = 1..len /\ len \in Nat
      /\ \A i \in DOMAIN lines : lines[i] = body[i].line
  BY <1>3
<1>5. [i \in DOMAIN body |-> ConfigLine(body[i], behind)] = lines
  <2>1. \A i \in DOMAIN body : ConfigLine(body[i], behind) = body[i].line
    BY <1>2, <1>3 DEF ConfigLine
  <2> QED BY <2>1
<1> HIDE DEF lines
<1>6. OfLines(lines)
  BY <1>1, <1>2, <1>3, <1>4 DEF OfLines
<1>7. \A i \in DOMAIN lines : Seen(lines[i]) = lines[i] /\ lines[i].kind # "other"
  BY <1>2, <1>3, <1>4
<1>8. conf.settings \in {ReadUpTo(lines)[len].settings, Start.settings}
  <2> DEFINE st == OpenFile(lines)
             some == Len(lines) > 0 /\ lines[1].kind \notin {"empty", "other"}
  <2>1. conf = IF some THEN [st EXCEPT !.okay = TRUE] ELSE Start
    BY <1>5 DEF OpenMemory, body
  <2>2. st = ReadUpTo(lines)[len]
    BY DEF OpenFile
  <2>3. Shape(st)
    BY <1>4, <1>6, <2>2, EntriesAreFew
  <2> HIDE DEF st, some
  <2>4. [st EXCEPT !.okay = TRUE].settings = st.settings
    BY <2>3 DEF Shape
  <2> QED BY <2>1, <2>2, <2>4
<1>9. IsFiniteSet(DOMAIN conf.settings)
  <2>1. IsFiniteSet(DOMAIN ReadUpTo(lines)[len].settings)
    BY <1>4, <1>6, EntriesAreFew
  <2>2. DOMAIN Start.settings = {}
    BY DEF Start
  <2> QED BY <1>8, <2>1, <2>2, FS_EmptySet
<1>10. PICK key : <<"hide", key>> \in DOMAIN conf.settings /\ p = conf.settings[<<"hide", key>>]
  <2> DEFINE settings == conf.settings
             sec == "hide"
  <2>1. IsFiniteSet(DOMAIN settings) /\ p \in ToSet(Entries(settings, sec))
    BY <1>9
  <2> HIDE DEF settings, sec
  <2>2. \E key : <<sec, key>> \in DOMAIN settings /\ p = settings[<<sec, key>>]
    BY <2>1, EntriesAre
  <2> QED BY <2>2 DEF settings, sec
<1>11. conf.settings = ReadUpTo(lines)[len].settings
  <2>1. DOMAIN Start.settings = {}
    BY DEF Start
  <2> QED BY <1>8, <1>10, <2>1
<1>12. PICK i \in 1..len : Lists(lines, i, "hide") /\ p = lines[i].value
  <2>1. len \in 0..len /\ "hide" # ANONYMOUS_SECTION
    BY <1>4 DEF ANONYMOUS_SECTION
  <2>2. <<"hide", key>> \in DOMAIN ReadUpTo(lines)[len].settings
    BY <1>10, <1>11
  <2> QED BY <1>6, <1>7, <1>10, <1>11, <2>1, <2>2, ValuesAsListed
<1>13. PICK j \in 1..i : /\ lines[j].kind = "section" /\ lines[j] = Section("hide")
                         /\ \A k \in (j + 1)..i : lines[k].kind # "section"
  BY <1>12 DEF Lists, Within
<1> DEFINE before(x) == {k \in 1..x : body[k].line.kind = "section"}
           hides(x) == /\ body[x].line.kind = "pair" /\ before(x) # {}
                       /\ body[Max(before(x))].line = Section("hide")
<1>14. \A k \in 1..i : k \in DOMAIN lines /\ lines[k] = body[k].line
  BY <1>4
<1>15. j \in before(i) /\ \A k \in before(i) : k <= j
  <2>1. ASSUME NEW k \in before(i) PROVE k <= j
    <3>1. k \in 1..i /\ lines[k].kind = "section"
      BY <1>14
    <3> QED BY <1>13, <3>1
  <2> QED BY <1>13, <1>14, <2>1
<1>16. before(i) \subseteq Nat
  OBVIOUS
<1>17. Max(before(i)) = j
  <2> HIDE DEF before
  <2>1. \A x, y \in Nat : x >= y /\ y >= x => x = y
    OBVIOUS
  <2> QED BY <1>15, <1>16, <2>1 DEF Max
<1>18. hides(i) /\ i \in DOMAIN body /\ p = body[i].line.value
  <2> HIDE DEF before
  <2>1. i \in 1..i /\ j \in 1..i
    BY <1>4
  <2> QED BY <1>3, <1>4, <1>12, <1>13, <1>14, <1>15, <1>17, <2>1 DEF Lists
<1>19. p \in {body[x].line.value : x \in {x \in DOMAIN body : hides(x)}}
  <2> HIDE DEF hides
  <2> QED BY <1>18
<1> DEFINE above(y, x) == {k \in 1..x : y.body[k].line.kind = "section"}
           secret(y, x) == /\ y.body[x].line.kind = "pair" /\ above(y, x) # {}
                           /\ y.body[Max(above(y, x))].line = Section("hide")
           secrets(y) == {y.body[x].line.value : x \in {x \in DOMAIN y.body : secret(y, x)}}
<1>20. Private = {CONFIG} \cup UNION {secrets(y) : y \in MadeAt(CONFIG)}
  BY DEF Private
<1>21. p \in secrets(m)
  BY <1>19 DEF body, hides, before
<1> HIDE DEF secrets
<1> QED BY <1>20, <1>21

\* A member that is hidden when an archive is opened is hidden by its .config.
LEMMA HiddenByConfig ==
  ASSUME NEW s, "rootfs" \in DOMAIN s, NEW cells, NEW behind, NEW u, u = OpenCpio(s, cells, behind),
         NEW p \in DOMAIN u.rootfs, ~u.rootfs[p].visible
  PROVE  CONFIG \in DOMAIN u.rootfs /\ p \in ToSet(Entries(ConfigOf(u, behind).settings, "hide"))
<1> DEFINE rootfs == Input(Members(cells))
           t == [s EXCEPT !.rootfs = rootfs]
           conf == ConfigOf(t, behind)
           hide == Entries(conf.settings, "hide")
           read == CONFIG \in DOMAIN t.rootfs /\ conf.okay
<1>1. \A q \in DOMAIN rootfs :
        {"visible", "mode", "body"} \subseteq DOMAIN rootfs[q] /\ rootfs[q].visible = TRUE
  BY DEF Input, File
<1>2. "rootfs" \in DOMAIN t /\ t.rootfs = rootfs
  OBVIOUS
<1>3. u = UpdateInfo(t, behind)
  BY DEF OpenCpio
<1> HIDE DEF t, rootfs
<1>4. CASE ~read
  <2>1. u = t
    BY <1>3, <1>4 DEF UpdateInfo, ConfigOf
  <2> QED BY <1>1, <1>2, <2>1
<1>5. CASE read
  <2>1. u.rootfs = [path \in DOMAIN t.rootfs |->
                      [t.rootfs[path] EXCEPT !.visible = @ /\ path \notin ToSet(hide)]]
    BY <1>3, <1>5 DEF UpdateInfo, ConfigOf
  <2>2. \A q \in DOMAIN t.rootfs :
          /\ u.rootfs[q].visible = (t.rootfs[q].visible /\ q \notin ToSet(hide))
          /\ u.rootfs[q].body = t.rootfs[q].body
    BY <1>1, <1>2, <2>1
  <2>3. DOMAIN u.rootfs = DOMAIN t.rootfs
    BY <2>1
  <2>4. ConfigOf(u, behind) = conf
    <3>1. u.rootfs[CONFIG].body = t.rootfs[CONFIG].body
      BY <1>5, <2>2
    <3> QED BY <3>1 DEF ConfigOf
  <2>5. p \in ToSet(hide)
    BY <1>1, <1>2, <2>2, <2>3
  <2> QED BY <1>5, <2>3, <2>4, <2>5
<1> QED BY <1>4, <1>5

\* Until the first edit nothing is hidden but what the author lists.
VInv ==
  phase = "open" /\ ~norootfs /\ edits = 0 /\ whole /\ Sane =>
    \A p \in DOMAIN site.rootfs : ~site.rootfs[p].visible => p \in Private

LEMMA HiddenStart == Init => VInv
BY DEF Init, VInv

LEMMA AllIsThere ==
  TInv /\ DInv => (phase = "open" /\ ~norootfs /\ edits = 0 /\ whole => AllThere)
BY DamageSeen

LEMMA AllIsThereThen ==
  TInv' /\ DInv' => (phase = "open" /\ ~norootfs /\ edits = 0 /\ whole => AllThere)'
BY AllIsThere, PTL

\* Nothing that is done changes what was made.
LEMMA MadeStays ==
  ASSUME archive' = archive
  PROVE  /\ Private' = Private /\ MadePaths' = MadePaths /\ \A path : MadeAt(path)' = MadeAt(path)
         /\ Sane' <=> Sane
<1>1. \A path : MadeAt(path)' = MadeAt(path)
  BY DEF MadeAt, SelectInSeq
<1>2. MadePaths' = MadePaths
  BY DEF MadePaths
<1>3. Config' = Config
  BY <1>1 DEF Config
<1>4. Private' = Private
  BY <1>1 DEF Private
<1>5. Sane' <=> Sane
  BY <1>1, <1>3 DEF Sane
<1> QED BY <1>1, <1>2, <1>3, <1>4, <1>5

LEMMA HiddenStep == TInv /\ TInv' /\ DInv /\ DInv' /\ VInv /\ [Next]_vars => VInv'
<1> SUFFICES ASSUME TInv, TInv', DInv, DInv', VInv, [Next]_vars,
                    phase' = "open", ~norootfs', edits' = 0, whole', Sane',
                    NEW p \in DOMAIN site'.rootfs, ~site'.rootfs[p].visible
             PROVE  p \in Private'
  BY DEF VInv
<1>1. archive' = archive
  BY DEF Next, vars, disk, server, Damage, Open, StartWithout, SetMember, DelMember, Save, Close,
         Accept, Ask, Arrive, Serve, Sent, Idle
<1>2. /\ Private' = Private /\ MadePaths' = MadePaths /\ \A path : MadeAt(path)' = MadeAt(path)
      /\ Sane' <=> Sane
  BY <1>1, MadeStays
<1>3. CASE Open
  <2>1. PICK behind \in Heap : site' = OpenCpio(site, file, behind)
    BY <1>3 DEF Open
  <2>2. "rootfs" \in DOMAIN site /\ archive \in Archives
    BY DEF TInv, SiteOK, Stocked
  <2>3. AllThere'
    BY AllIsThereThen
  <2> DEFINE u == site'
  <2>4. u = OpenCpio(site, file, behind) /\ p \in DOMAIN u.rootfs /\ ~u.rootfs[p].visible
    BY <2>1
  <2>5. DOMAIN u.rootfs = MadePaths
        /\ \A path \in MadePaths : \E m \in MadeAt(path) : u.rootfs[path].body = m.body
    BY <1>2, <2>3 DEF AllThere
  <2> HIDE DEF u
  <2>6. CONFIG \in DOMAIN u.rootfs /\ p \in ToSet(Entries(ConfigOf(u, behind).settings, "hide"))
    BY <2>2, <2>4, HiddenByConfig
  <2>7. PICK m \in MadeAt(CONFIG) : u.rootfs[CONFIG].body = m.body
    BY <2>5, <2>6
  <2>8. ConfigOf(u, behind) = OpenMemory([i \in DOMAIN m.body |-> ConfigLine(m.body[i], behind)])
    BY <2>7 DEF ConfigOf
  <2>9. p \in Private
    BY <1>2, <2>2, <2>6, <2>8, HiddenAsListed
  <2> QED BY <1>2, <2>9
<1>4. CASE UNCHANGED <<site, phase, norootfs, edits, whole>>
  BY <1>2, <1>4 DEF VInv
<1>5. CASE Damage \/ StartWithout \/ Close
  BY <1>5 DEF Damage, StartWithout, Close, DInv, server
<1>6. CASE SetMember \/ DelMember \/ Save
  <2>1. edits' = edits + 1 /\ edits \in Nat
    BY <1>6 DEF SetMember, DelMember, Save, TInv
  <2> QED BY <2>1
<1> QED
  BY <1>3, <1>4, <1>5, <1>6 DEF Next, vars, disk, server, Accept, Ask, Arrive, Serve, Sent, Idle

LEMMA ContentIsNoFault ==
  \A s, name, behind : GetContent(s, name, behind).code # 400
<1> TAKE s, name, behind
<1>1. Failure(s, 404).code = 404 /\ \A n, b : Success(s, n, b).code = 200
  BY DEF Failure, Success, Answered
<1>2. \A n : Page(s, n).code # 400
  BY <1>1 DEF Page
<1>3. Directory(s, name).code # 400
  BY <1>1, <1>2 DEF Directory
<1>4. \A f : Content(s, name, f, behind).code # 400
  BY <1>1, <1>3 DEF Content, Answered
<1> QED BY <1>1, <1>4 DEF GetContent

LEMMA AnswersStart == Init => IInv
BY DEF Init, IInv, Untouched, Connected

\* What is promised of the answer a to the request r.
Served(r, a) ==
  LET path == Intended(r.name)
      plain == {m \in MadeAt(path) : Kind(m.mode) = C_ISREG}
  IN /\ r.cmd # "GET" <=> a.code = 400
     /\ r.cmd = "GET" /\ path \notin Private \cup {Root} =>
          /\ \A m \in plain : a.code = 200 /\ a.body = m.body
          /\ path \notin MadePaths => a.code = 404

LEMMA AnswerServes ==
  ASSUME TInv, DInv, VInv, phase = "open", ~norootfs, edits = 0, whole, Sane,
         NEW r \in Requests, NEW a \in Right(r)
  PROVE  Served(r, a)
<1> DEFINE path == Intended(r.name)
           C == STRING \cup {"/"}
           f == site.rootfs[path]
<1>1. PICK behind \in Heap : a = Request(site, r.cmd, r.name, behind)
  BY DEF Right, Replies, Reply
<1>2. Failure(site, 400).code = 400 /\ Failure(site, 404).code = 404
  BY DEF Failure, Answered
<1>3. r.cmd # "GET" <=> a.code = 400
  <2>1. CASE r.cmd # "GET"
    BY <1>1, <1>2, <2>1 DEF Request
  <2>2. CASE r.cmd = "GET"
    <3>1. a = GetContent(site, r.name, behind)
      BY <1>1, <2>2 DEF Request
    <3> QED BY <2>2, <3>1, ContentIsNoFault
  <2> QED BY <2>1, <2>2
<1> SUFFICES ASSUME r.cmd = "GET", path \notin Private \cup {Root}
             PROVE  /\ \A m \in MadeAt(path) : Kind(m.mode) = C_ISREG => a.code = 200 /\ a.body = m.body
                    /\ path \notin MadePaths => a.code = 404
  BY <1>3 DEF Served
<1>4. FilePath(r.name) = path /\ path # <<"/">> /\ path # <<>> /\ path # CONFIG
  <2>1. r.name \in Seq(C) /\ "/" \in C
    <3>1. r.name \in Seq(STRING)
      BY RequestsAssumption DEF RequestsAssumption
    <3> QED BY <3>1
  <2>2. Intended(r.name) # Root /\ path # CONFIG
    BY DEF Private
  <2> HIDE DEF C
  <2> QED BY <2>1, <2>2, FilePathIsIntended, PathAgain DEF Root
<1>5. AllThere /\ archive \in Archives /\ Stocked(site)
  BY DamageSeen DEF TInv, SiteOK
<1> HIDE DEF path
<1>6. Path(site, r.name) = path
  BY <1>4 DEF Path, IndexFor
<1>7. a = IF Found(site, r.name) THEN Content(site, r.name, f, behind) ELSE Failure(site, 404)
  BY <1>1, <1>6 DEF Request, GetContent
<1>8. path \notin MadePaths => a.code = 404
  BY <1>2, <1>5, <1>6, <1>7 DEF AllThere, Found
<1>9. ASSUME NEW m \in MadeAt(path), Kind(m.mode) = C_ISREG PROVE a.code = 200 /\ a.body = m.body
  <2>1. Intended(m.name) = path /\ m \in ToSet(archive.members) /\ MadeAt(path) = {m}
    BY <1>5, MadeIsMember
  <2>2. path \in MadePaths
    BY <2>1 DEF MadePaths
  <2>3. path \in DOMAIN site.rootfs /\ f.mode = m.mode /\ f.body = m.body
    BY <1>5, <2>1, <2>2 DEF AllThere
  <2>4. f.visible = TRUE
    BY <1>5, <2>3 DEF VInv, Stocked
  <2>5. Found(site, r.name)
    BY <1>4, <1>6, <2>3, <2>4 DEF Found, Protected
  <2>6. a = Success(site, r.name, f.body)
    <3>1. Kind(f.mode) = C_ISREG
      BY <1>9, <2>3
    <3> HIDE DEF f
    <3>2. a = Content(site, r.name, f, behind)
      BY <1>7, <2>5
    <3> QED BY <3>1, <3>2 DEF Content, C_ISREG, C_ISLNK, C_ISDIR
  <2> HIDE DEF f
  <2> QED BY <2>3, <2>6 DEF Success, Answered
<1> QED BY <1>8, <1>9

LEMMA ServesByRequest ==
  ServesWhatWasMade <=>
    (careful /\ whole /\ Sane /\ ~norootfs /\ edits = 0 =>
       Len(replies) <= Len(asked) /\ \A i \in DOMAIN replies : Served(asked[i], replies[i]))
BY DEF ServesWhatWasMade, Served

\* When a connection is over all that was answered on it is as it was promised.
SInv == /\ conn # "none" => phase \in {"open", "closed"}
        /\ conn = "over" => ServesWhatWasMade

LEMMA ServesNow ==
  TInv /\ DInv /\ VInv /\ IInv /\ SInv => ServesWhatWasMade
<1> SUFFICES ASSUME TInv, DInv, VInv, IInv, SInv, careful, whole, Sane, ~norootfs, edits = 0
             PROVE  /\ Len(replies) <= Len(asked)
                    /\ \A i \in DOMAIN replies : Served(asked[i], replies[i])
  BY ServesByRequest
<1>1. CASE conn = "over"
  BY <1>1, ServesByRequest DEF SInv
<1>2. CASE conn = "none"
  <2>1. asked = <<>> /\ replies = <<>>
    BY <1>2 DEF IInv, Untouched
  <2> QED BY <2>1
<1>3. CASE Connected
  <2>1. phase = "open" /\ Waiting
    BY <1>3 DEF IInv
  <2>2. /\ asked \in Seq(Requests) /\ replies \in Seq(Possible) /\ Len(replies) <= Len(asked)
        /\ \A i \in DOMAIN replies : replies[i] \in Right(asked[i])
    BY <2>1 DEF Waiting, Quiet, UnderWay
  <2>3. ASSUME NEW i \in DOMAIN replies PROVE Served(asked[i], replies[i])
    <3> DEFINE r == asked[i]
               a == replies[i]
    <3>1. r \in Requests /\ a \in Right(r)
      BY <2>2
    <3> HIDE DEF r, a
    <3>2. Served(r, a)
      BY <2>1, <3>1, AnswerServes
    <3> QED BY <3>2 DEF r, a
  <2> QED BY <2>2, <2>3
<1>4. conn \in {"none", "open", "sending", "over"}
  BY DEF TInv
<1> QED BY <1>1, <1>2, <1>3, <1>4 DEF Connected

LEMMA ServesStart == Init => SInv
BY DEF Init, SInv

LEMMA ServesStep == TInv /\ DInv /\ VInv /\ IInv /\ SInv /\ [Next]_vars => SInv'
<1> SUFFICES ASSUME TInv, DInv, VInv, IInv, SInv, [Next]_vars PROVE SInv'
  OBVIOUS
<1>1. ServesWhatWasMade
  BY ServesNow
<1>2. archive' = archive
  BY DEF Next, vars, disk, server, Damage, Open, StartWithout, SetMember, DelMember, Save, Close,
         Accept, Ask, Arrive, Serve, Sent, Idle
<1>3. /\ Private' = Private /\ MadePaths' = MadePaths /\ \A path : MadeAt(path)' = MadeAt(path)
      /\ Sane' <=> Sane
  BY <1>2, MadeStays
<1>4. ASSUME UNCHANGED <<asked, replies, careful, whole, norootfs, edits>> PROVE ServesWhatWasMade'
  BY <1>1, <1>3, <1>4 DEF ServesWhatWasMade
<1>5. CASE Accept \/ Ask \/ Arrive \/ Sent
  BY <1>5 DEF Accept, Ask, Arrive, Sent, server, IInv, SInv, Connected
<1>6. CASE Serve
  <2>1. CASE conn' = "over" /\ UNCHANGED replies
    BY <1>4, <1>6, <2>1 DEF Serve, server, disk, IInv, SInv
  <2>2. CASE conn' = "sending"
    BY <1>6, <2>2 DEF Serve, server, IInv, SInv
  <2> QED BY <1>6, <2>1, <2>2 DEF Serve
<1>7. CASE Idle
  BY <1>4, <1>7 DEF Idle, server, disk, IInv, SInv
<1>8. CASE Damage \/ Open \/ StartWithout \/ SetMember \/ DelMember \/ Save
  <2>1. conn = "none" /\ conn' = conn
    BY <1>8 DEF Damage, Open, StartWithout, SetMember, DelMember, Save, Editable, connection, SInv, TInv
  <2> QED BY <2>1 DEF SInv
<1>9. CASE Close
  BY <1>4, <1>9 DEF Close, disk, connection, SInv, TInv
<1>10. CASE UNCHANGED vars
  BY <1>4, <1>10 DEF vars, disk, server, connection, SInv
<1> QED BY <1>5, <1>6, <1>7, <1>8, <1>9, <1>10 DEF Next

\* Of archives of any size, whatever their .config lists, and requests for any names:
\* from the file to the browser, a careful one gets what was made.
THEOREM MadeIsServed == Spec => []ServesWhatWasMade
<1>1. TInv /\ [Next]_vars => TInv'
  BY TypesInductive
<1> QED
  BY <1>1, TypeStart, DamageStart, DamageStep, HiddenStart, HiddenStep, ServesStart, ServesStep, ServesNow,
     AnswersStart, Inductive, PTL DEF Spec
=============================================================================
