--------------------------- MODULE ArchiveProofs ---------------------------
(***************************************************************************)
(* What the operators of Archive and Cpio compute, for names, numbers and  *)
(* files of any length.  They are recursive functions, so each of these    *)
(* facts is an induction over the steps of one: filepath() leads where a   *)
(* name is meant to lead; a number that is written is the number that is   *)
(* read; what is read of a file, wherever it breaks off, are members.      *)
(***************************************************************************)
EXTENDS Site, ConfProofs, SequenceTheorems

\* A step on a set, and a function whose values follow each from the one before.
Keeps(step, S, n) == n \in Nat /\ step \in [S \X (1..n) -> S]
Follows(f, step, S, first, n) ==
  /\ f \in [0..n -> S] /\ f[0] = first
  /\ \A k \in 1..n : f[k] = step[<<f[k - 1], k>>]

\* There is such a function.
LEMMA Recursion ==
  ASSUME NEW S, NEW n, NEW first \in S, NEW step, Keeps(step, S, n)
  PROVE  \E f : Follows(f, step, S, first, n)
<1> n \in Nat /\ step \in [S \X (1..n) -> S]
  BY DEF Keeps
<1> DEFINE Reads(f, k) == /\ f \in [0..k -> S] /\ f[0] = first
                          /\ \A i \in 1..k : f[i] = step[<<f[i - 1], i>>]
           T == {k \in 0..n : \E f \in [0..k -> S] : Reads(f, k)}
<1>1. 0 \in T
  <2> DEFINE f == [i \in 0..0 |-> first]
  <2>1. f \in [0..0 -> S] /\ Reads(f, 0)
    OBVIOUS
  <2> HIDE DEF f, Reads
  <2> QED BY <2>1
<1>2. ASSUME NEW k \in 0..(n - 1), k \in T PROVE k + 1 \in T
  <2>1. PICK f \in [0..k -> S] : Reads(f, k)
    BY <1>2
  <2> DEFINE g == [i \in 0..(k + 1) |-> IF i = k + 1 THEN step[<<f[k], k + 1>>] ELSE f[i]]
  <2>2. step[<<f[k], k + 1>>] \in S
    OBVIOUS
  <2>3. g \in [0..(k + 1) -> S]
    BY <2>2
  <2>4. g[0] = first
    BY <2>1
  <2>5. ASSUME NEW i \in 1..(k + 1) PROVE g[i] = step[<<g[i - 1], i>>]
    <3>1. i - 1 \in 0..k /\ g[i - 1] = f[i - 1]
      OBVIOUS
    <3>2. CASE i = k + 1
      <4>1. g[i] = step[<<f[k], k + 1>>] /\ i - 1 = k
        BY <3>2
      <4> HIDE DEF g
      <4> QED BY <3>1, <3>2, <4>1
    <3>3. CASE i \in 1..k
      <4>1. g[i] = f[i] /\ f[i] = step[<<f[i - 1], i>>]
        BY <2>1, <3>3
      <4> QED BY <3>1, <4>1
    <3> QED BY <3>2, <3>3
  <2>6. Reads(g, k + 1)
    BY <2>3, <2>4, <2>5
  <2> HIDE DEF g, Reads
  <2> QED BY <2>3, <2>6
<1>3. n \in T
  <2> HIDE DEF T
  <2> QED BY <1>1, <1>2, UpTo
<1> QED BY <1>3 DEF Follows

\* Whatever follows the step is such a function, and there is no other.
LEMMA Determined ==
  ASSUME NEW S, NEW n, NEW first \in S, NEW step, Keeps(step, S, n),
         NEW g, g = [k \in 0..n |-> g[k]], g[0] = first,
         \A k \in 1..n : g[k - 1] \in S => g[k] = step[<<g[k - 1], k>>]
  PROVE  Follows(g, step, S, first, n)
<1> DEFINE T == {k \in 0..n : g[k] \in S}
<1>1. n \in Nat /\ step \in [S \X (1..n) -> S]
  BY DEF Keeps
<1>2. 0 \in T
  BY <1>1
<1>3. ASSUME NEW k \in 0..(n - 1), k \in T PROVE k + 1 \in T
  <2>1. k + 1 \in 1..n /\ (k + 1) - 1 = k
    BY <1>1
  <2>2. g[k + 1] = step[<<g[k], k + 1>>]
    BY <1>3, <2>1
  <2>3. <<g[k], k + 1>> \in S \X (1..n)
    BY <1>3, <2>1
  <2> QED BY <1>1, <2>1, <2>2, <2>3
<1>4. 0..n \subseteq T
  <2> HIDE DEF T
  <2> QED BY <1>1, <1>2, <1>3, UpTo
<1>5. \A k \in 1..n : k - 1 \in 0..n
  BY <1>1
<1>6. g \in [0..n -> S]
  BY <1>4
<1> HIDE DEF T
<1> QED BY <1>4, <1>5, <1>6 DEF Follows, T

LEMMA OnlyOne ==
  ASSUME NEW S, NEW n, NEW first, NEW step, n \in Nat,
         NEW f, Follows(f, step, S, first, n), NEW g, Follows(g, step, S, first, n)
  PROVE  f = g
<1> DEFINE T == {k \in 0..n : f[k] = g[k]}
<1>1. 0 \in T
  BY DEF Follows
<1>2. ASSUME NEW k \in 0..(n - 1), k \in T PROVE k + 1 \in T
  <2>1. k + 1 \in 1..n /\ (k + 1) - 1 = k
    OBVIOUS
  <2>2. /\ f[k + 1] = step[<<f[(k + 1) - 1], k + 1>>]
        /\ g[k + 1] = step[<<g[(k + 1) - 1], k + 1>>]
    BY <2>1 DEF Follows
  <2>3. f[k] = g[k] /\ k + 1 \in 0..n
    BY <1>2, <2>1
  <2> QED BY <2>1, <2>2, <2>3
<1>3. 0..n \subseteq T
  <2> HIDE DEF T
  <2> QED BY <1>1, <1>2, UpTo
<1>4. f = [k \in 0..n |-> f[k]] /\ g = [k \in 0..n |-> g[k]]
  BY DEF Follows
<1>5. \A k \in 0..n : f[k] = g[k]
  BY <1>3
<1> QED BY <1>4, <1>5

----------------------------------------------------------------------------
(* The parts of a path. *)

Cut(s, c) == Before(s, SelectInSeq(s, LAMBDA x : x = c))

\* What is cut off at a character does not hold it, and is a beginning.
LEMMA CutIs ==
  ASSUME NEW C, NEW s \in Seq(C), NEW c
  PROVE  /\ Cut(s, c) \in Seq(C \ {c}) /\ Len(Cut(s, c)) <= Len(s)
         /\ Cut(s, c) = SubSeq(s, 1, Len(Cut(s, c)))
         /\ Len(Cut(s, c)) < Len(s) => s[Len(Cut(s, c)) + 1] = c
<1> DEFINE t == Cut(s, c)
           I == {i \in 1..Len(s) : s[i] = c}
           n == IF I # {} THEN Min(I) ELSE 0
           m == IF n = 0 THEN Len(s) ELSE n - 1
<1>1. t = IF n = 0 THEN s ELSE SubSeq(s, 1, n - 1)
  BY DEF Cut, Before, SelectInSeq
<1>2. I # {} => n \in I /\ \A i \in I : n <= i
  <2> HIDE DEF I
  <2>1. I \subseteq Nat
    BY DEF I
  <2>2. I # {} => \E x \in I : \A y \in I : x <= y
    BY <2>1, LeastNumber
  <2> QED BY <2>2 DEF Min
<1>3. m \in 0..Len(s) /\ \A i \in 1..m : s[i] # c
  <2> HIDE DEF n
  <2>1. CASE I = {}
    BY <2>1 DEF n
  <2>2. CASE I # {}
    BY <1>2, <2>2
  <2> QED BY <2>1, <2>2
<1>4. m < Len(s) => s[m + 1] = c
  <2> HIDE DEF n
  <2>1. CASE I = {}
    BY <2>1 DEF n
  <2>2. CASE I # {}
    BY <1>2, <2>2
  <2> QED BY <2>1, <2>2
<1>5. s = SubSeq(s, 1, Len(s))
  OBVIOUS
<1>6. t = SubSeq(s, 1, m)
  <2> HIDE DEF n
  <2> QED BY <1>1, <1>5
<1> HIDE DEF m
<1> HIDE DEF t
<1>7. t \in Seq(C \ {c}) /\ Len(t) = m
  BY <1>3, <1>6
<1> QED BY <1>3, <1>4, <1>6, <1>7 DEF t

LEMMA CStringIs == \A s : CString(s) = Cut(s, NUL)
BY DEF CString, Cut

\* The scanner, character by character.
ScanStates(C) == [parts : Seq(Seq(C \ {"/"}) \ {<<>>}), part : Seq(C \ {"/"})]
ScanStep(C, c) == [x \in ScanStates(C) \X (1..Len(c)) |-> Scan(x[1], c[x[2]])]

LEMMA ScanKeeps ==
  ASSUME NEW C, NEW c \in Seq(C)
  PROVE  Unread \in ScanStates(C) /\ Keeps(ScanStep(C, c), ScanStates(C), Len(c))
<1> DEFINE P == Seq(C \ {"/"})
           S == ScanStates(C)
<1>1. Unread \in S
  BY DEF Unread, ScanStates
<1>2. ASSUME NEW st \in S, NEW x \in C PROVE Scan(st, x) \in S
  <2>1. Parts(st) \in Seq(P \ {<<>>})
    BY DEF Parts, ScanStates
  <2>2. CASE x = "/"
    <3>1. Scan(st, x) = [parts |-> Parts(st), part |-> <<>>]
      BY <2>2 DEF Scan
    <3> QED BY <2>1, <3>1 DEF ScanStates
  <2>3. CASE x # "/"
    <3> DEFINE w == Append(st.part, x)
    <3>1. Scan(st, x) = [st EXCEPT !.part = w]
      BY <2>3 DEF Scan
    <3>2. w \in P
      BY <2>3 DEF ScanStates
    <3> HIDE DEF w
    <3> QED BY <3>1, <3>2 DEF ScanStates
  <2> QED BY <2>2, <2>3
<1>3. ASSUME NEW x \in S \X (1..Len(c)) PROVE Scan(x[1], c[x[2]]) \in S
  BY <1>2
<1> QED BY <1>1, <1>3 DEF Keeps, ScanStep

LEMMA ScannedIs ==
  ASSUME NEW C, NEW c \in Seq(C)
  PROVE  Follows(Scanned(c), ScanStep(C, c), ScanStates(C), Unread, Len(c))
<1> DEFINE S == ScanStates(C)
           step == ScanStep(C, c)
           Reads(f) == f = [n \in 0..Len(c) |-> IF n = 0 THEN Unread ELSE Scan(f[n - 1], c[n])]
           g == Scanned(c)
<1>1. \A st \in S, k \in 1..Len(c) : step[<<st, k>>] = Scan(st, c[k])
  BY DEF ScanStep
<1>2. PICK f : Follows(f, step, S, Unread, Len(c))
  BY ScanKeeps, Recursion
<1>3. Reads(f)
  <2> HIDE DEF S, step
  <2>1. \A k \in 1..Len(c) : f[k] = Scan(f[k - 1], c[k])
    <3> TAKE k \in 1..Len(c)
    <3>1. f[k - 1] \in S
      BY <1>2 DEF Follows
    <3> QED BY <1>1, <1>2, <3>1 DEF Follows
  <2> QED BY <1>2, <2>1 DEF Follows
<1>4. Reads(g)
  <2>1. \E h : Reads(h)
    <3> HIDE DEF Reads
    <3> QED BY <1>3
  <2> QED BY <2>1 DEF Scanned
<1>5. /\ g = [k \in 0..Len(c) |-> g[k]] /\ g[0] = Unread
      /\ \A k \in 1..Len(c) : g[k - 1] \in S => g[k] = step[<<g[k - 1], k>>]
  <2> HIDE DEF S, step, g
  <2> QED BY <1>1, <1>4
<1> HIDE DEF S, step, g
<1> QED BY <1>5, ScanKeeps, Determined DEF S, step, g

\* What is read of a path is read in one way.
LEMMA ScanOf ==
  ASSUME NEW C, NEW c \in Seq(C), NEW g, g = [k \in 0..Len(c) |-> g[k]], g[0] = Unread,
         \A k \in 1..Len(c) : g[k] = Scan(g[k - 1], c[k])
  PROVE  Scanned(c) = g
<1>1. \A k \in 1..Len(c) : g[k - 1] \in ScanStates(C) => g[k] = ScanStep(C, c)[<<g[k - 1], k>>]
  BY DEF ScanStep
<1>2. Follows(g, ScanStep(C, c), ScanStates(C), Unread, Len(c))
  BY <1>1, ScanKeeps, Determined
<1> QED BY <1>2, ScannedIs, OnlyOne

LEMMA ScanSteps ==
  ASSUME NEW C, NEW c \in Seq(C)
  PROVE  /\ Scanned(c)[0] = Unread
         /\ \A k \in 0..Len(c) : Scanned(c)[k] \in ScanStates(C)
         /\ \A k \in 1..Len(c) : Scanned(c)[k] = Scan(Scanned(c)[k - 1], c[k])
<1>1. Follows(Scanned(c), ScanStep(C, c), ScanStates(C), Unread, Len(c))
  BY ScannedIs
<1>2. \A k \in 0..Len(c) : Scanned(c)[k] \in ScanStates(C)
  BY <1>1 DEF Follows
<1>3. \A k \in 1..Len(c) : ScanStep(C, c)[<<Scanned(c)[k - 1], k>>] = Scan(Scanned(c)[k - 1], c[k])
  BY <1>2 DEF ScanStep
<1> QED BY <1>1, <1>2, <1>3 DEF Follows

\* The state of the scanner behind the whole of c.
Last_(c) == Scanned(c)[Len(c)]

LEMMA ScanWord ==
  ASSUME NEW p, NEW u, NEW x
  PROVE  /\ x # "/" => Scan([parts |-> p, part |-> u], x) = [parts |-> p, part |-> Append(u, x)]
         /\ Scan([parts |-> p, part |-> u], "/")
              = [parts |-> Parts([parts |-> p, part |-> u]), part |-> <<>>]
BY DEF Scan

\* A part that follows a slash: what was before has ended.
LEMMA ScanPart ==
  ASSUME NEW C, NEW s \in Seq(C), NEW w \in Seq(C \ {"/"}), "/" \in C
  PROVE  Last_(s \o <<"/">> \o w) = [parts |-> Parts(Last_(s)), part |-> w]
<1> DEFINE n == Len(s)
           c == s \o <<"/">> \o w
           f == Scanned(s)
           g == [k \in 0..Len(c) |->
                   IF k <= n THEN f[k]
                   ELSE [parts |-> Parts(f[n]), part |-> SubSeq(w, 1, k - n - 1)]]
<1>1. /\ c \in Seq(C) /\ Len(c) = n + 1 + Len(w) /\ n \in Nat /\ Len(w) \in Nat
      /\ \A k \in 1..n : c[k] = s[k]
      /\ c[n + 1] = "/"
      /\ \A k \in (n + 2)..Len(c) : c[k] = w[k - n - 1]
  OBVIOUS
<1> HIDE DEF c
<1>2. g[0] = Unread
  BY <1>1, ScanSteps
<1>3. ASSUME NEW k \in 1..Len(c) PROVE g[k] = Scan(g[k - 1], c[k])
  <2>1. CASE k \in 1..n
    <3>1. g[k] = f[k] /\ g[k - 1] = f[k - 1] /\ c[k] = s[k]
      BY <1>1, <2>1
    <3> HIDE DEF f, g
    <3> QED BY <2>1, <3>1, ScanSteps DEF f
  <2>2. CASE k = n + 1
    <3>1. g[k - 1] = f[n] /\ c[k] = "/"
      BY <1>1, <2>2
    <3>2. g[k] = [parts |-> Parts(f[n]), part |-> <<>>]
      BY <1>1, <2>2
    <3> HIDE DEF g
    <3> QED BY <3>1, <3>2 DEF Scan
  <2>3. CASE k \in (n + 2)..Len(c)
    <3>1. c[k] = w[k - n - 1] /\ c[k] # "/"
      BY <1>1, <2>3
    <3>2. SubSeq(w, 1, k - n - 1) = Append(SubSeq(w, 1, (k - 1) - n - 1), w[k - n - 1])
      BY <1>1, <2>3
    <3> DEFINE u == SubSeq(w, 1, (k - 1) - n - 1)
               p == Parts(f[n])
    <3>3. /\ g[k - 1] = [parts |-> p, part |-> u]
          /\ g[k] = [parts |-> p, part |-> SubSeq(w, 1, k - n - 1)]
      BY <1>1, <2>3
    <3> HIDE DEF g, u, p
    <3>4. g[k] = [parts |-> p, part |-> Append(u, c[k])]
      BY <3>1, <3>2, <3>3 DEF u
    <3>5. Scan([parts |-> p, part |-> u], c[k]) = [parts |-> p, part |-> Append(u, c[k])]
      BY <3>1 DEF Scan
    <3> QED BY <3>3, <3>4, <3>5
  <2>4. k \in 1..n \/ k = n + 1 \/ k \in (n + 2)..Len(c)
    BY <1>1
  <2> HIDE DEF g, f, n
  <2> QED BY <2>1, <2>2, <2>3, <2>4
<1>4. g = [k \in 0..Len(c) |-> g[k]]
  OBVIOUS
<1>5. Scanned(c) = g
  <2> HIDE DEF g
  <2> QED BY <1>1, <1>2, <1>3, <1>4, ScanOf
<1>6. g[Len(c)] = [parts |-> Parts(f[n]), part |-> w]
  <2>1. SubSeq(w, 1, Len(c) - n - 1) = w
    BY <1>1
  <2> QED BY <1>1, <2>1
<1> HIDE DEF g
<1> QED BY <1>5, <1>6 DEF Last_, c

----------------------------------------------------------------------------
(* A path and its parts. *)

LEMMA JoinSteps ==
  ASSUME NEW C, "/" \in C, NEW path \in Seq(Seq(C))
  PROVE  /\ Joins(path)[0] = <<>>
         /\ \A k \in 0..Len(path) : Joins(path)[k] \in Seq(C)
         /\ \A k \in 1..Len(path) : Joins(path)[k] = Join(Joins(path)[k - 1], path[k])
<1> DEFINE S == Seq(C)
           len == Len(path)
           step == [x \in S \X (1..len) |-> Join(x[1], path[x[2]])]
           Reads(f) == f = [n \in 0..len |-> IF n = 0 THEN <<>> ELSE Join(f[n - 1], path[n])]
           g == Joins(path)
<1>1. <<>> \in S /\ Keeps(step, S, len) /\ len \in Nat
  <2>1. \A x \in S \X (1..len) : x[1] \o <<"/">> \o path[x[2]] \in S
    OBVIOUS
  <2> QED BY <2>1 DEF Keeps, Join
<1>2. \A s \in S, k \in 1..len : step[<<s, k>>] = Join(s, path[k])
  OBVIOUS
<1> HIDE DEF len, S, step
<1>3. PICK f : Follows(f, step, S, <<>>, len)
  BY <1>1, Recursion
<1>4. Reads(f)
  <2>1. ASSUME NEW k \in 1..len PROVE f[k] = Join(f[k - 1], path[k])
    <3>1. f[k - 1] \in S
      BY <1>1, <1>3 DEF Follows
    <3> QED BY <1>2, <1>3, <3>1 DEF Follows
  <2> QED BY <1>3, <2>1 DEF Follows
<1>5. Reads(g)
  <2>1. \E h : Reads(h)
    <3> HIDE DEF Reads
    <3> QED BY <1>4
  <2> QED BY <2>1 DEF Joins, len
<1> HIDE DEF g
<1>6. /\ g = [k \in 0..len |-> g[k]] /\ g[0] = <<>>
      /\ \A k \in 1..len : g[k] = Join(g[k - 1], path[k])
  <2>1. g = [k \in 0..len |-> g[k]]
    BY <1>5
  <2>2. g[0] = <<>>
    BY <1>1, <1>5
  <2>3. ASSUME NEW k \in 1..len PROVE g[k] = Join(g[k - 1], path[k])
    BY <1>1, <1>5
  <2> QED BY <2>1, <2>2, <2>3
<1>7. Follows(g, step, S, <<>>, len)
  <2>1. \A k \in 1..len : g[k - 1] \in S => g[k] = step[<<g[k - 1], k>>]
    BY <1>2, <1>6
  <2> QED BY <1>1, <1>6, <2>1, Determined
<1>8. \A k \in 0..len : g[k] \in S
  BY <1>7 DEF Follows
<1> QED BY <1>6, <1>8 DEF S, len, g

\* A path that is put together of parts has these parts.
LEMMA PartsOfJoined ==
  ASSUME NEW C, "/" \in C, NEW path \in Seq(Seq(C \ {"/", NUL}) \ {<<>>})
  PROVE  /\ Joined(path) \in Seq(C \ {NUL})
         /\ Token(Joined(path)) = path
         /\ path # <<>> => Joined(path) # <<>> /\ Joined(path)[1] = "/"
         /\ path = <<>> => Joined(path) = <<>>
<1> DEFINE P == Seq(C \ {"/", NUL}) \ {<<>>}
           D == C \ {NUL}
           J == Joins(path)
           len == Len(path)
           T == {k \in 0..len : /\ Parts(Last_(J[k])) = SubSeq(path, 1, k)
                                /\ k > 0 => J[k] # <<>> /\ J[k][1] = "/"}
<1>1. "/" \in D /\ path \in Seq(Seq(D)) /\ len \in Nat
  <2>1. P \subseteq Seq(D)
    OBVIOUS
  <2> QED BY <2>1 DEF NUL
<1>2. /\ J[0] = <<>>
      /\ \A k \in 0..len : J[k] \in Seq(D)
      /\ \A k \in 1..len : J[k] = Join(J[k - 1], path[k])
  <2> HIDE DEF D
  <2> QED BY <1>1, JoinSteps
<1> HIDE DEF J
<1>3. 0 \in T
  <2>1. Last_(<<>>) = Unread
    <3>1. <<>> \in Seq(C) /\ Len(<<>>) = 0
      OBVIOUS
    <3> QED BY <3>1, ScanSteps DEF Last_
  <2> QED BY <1>1, <1>2, <2>1 DEF Parts, Unread
<1>4. ASSUME NEW k \in 0..(len - 1), k \in T PROVE k + 1 \in T
  <2> DEFINE w == path[k + 1]
             s == J[k]
  <2>1. k + 1 \in 1..len /\ (k + 1) - 1 = k /\ w \in Seq(D \ {"/"}) /\ w # <<>>
    <3>1. w \in P
      BY <1>1
    <3>2. P \subseteq Seq(D \ {"/"})
      OBVIOUS
    <3> QED BY <1>1, <3>1, <3>2
  <2>2. J[k + 1] = s \o <<"/">> \o w /\ s \in Seq(D)
    <3>1. J[k + 1] = Join(J[(k + 1) - 1], path[k + 1]) /\ k \in 0..len
      BY <1>2, <2>1
    <3>2. J[k + 1] = Join(s, w) /\ s \in Seq(D)
      BY <1>2, <2>1, <3>1
    <3> QED BY <3>2 DEF Join
  <2>3. Last_(J[k + 1]) = [parts |-> Parts(Last_(s)), part |-> w]
    <3> HIDE DEF D, w, s
    <3> QED BY <1>1, <2>1, <2>2, ScanPart
  <2>4. Parts(Last_(J[k + 1])) = Append(SubSeq(path, 1, k), w)
    <3>1. Parts(Last_(s)) = SubSeq(path, 1, k)
      BY <1>4
    <3> DEFINE st == Last_(J[k + 1])
    <3>2. st.parts = SubSeq(path, 1, k) /\ st.part = w
      BY <2>3, <3>1
    <3> HIDE DEF w, s, st
    <3>3. Parts(st) = Append(SubSeq(path, 1, k), w)
      BY <2>1, <3>2 DEF Parts
    <3> QED BY <3>3 DEF st
  <2>5. SubSeq(path, 1, k + 1) = Append(SubSeq(path, 1, k), w)
    BY <1>1
  <2>6. J[k + 1] # <<>> /\ J[k + 1][1] = "/"
    <3>1. CASE k = 0
      <4>1. s = <<>>
        BY <1>2, <3>1
      <4> HIDE DEF s, w
      <4> QED BY <2>1, <2>2, <4>1
    <3>2. CASE k > 0
      <4>1. s # <<>> /\ s[1] = "/"
        BY <1>4, <3>2
      <4> HIDE DEF s, w
      <4> QED BY <2>1, <2>2, <4>1
    <3> QED BY <3>1, <3>2
  <2> HIDE DEF w, s
  <2>7. k + 1 \in 0..len /\ Parts(Last_(J[k + 1])) = SubSeq(path, 1, k + 1)
    BY <2>1, <2>4, <2>5
  <2> QED BY <2>6, <2>7
<1>5. 0..len \subseteq T
  <2> HIDE DEF T
  <2> QED BY <1>1, <1>3, <1>4, UpTo
<1>6. len \in T
  BY <1>1, <1>5
<1>7. Joined(path) = J[len]
  BY DEF Joined, J
<1>8. Joined(path) \in Seq(D)
  BY <1>1, <1>2, <1>7
<1>9. Cut(Joined(path), NUL) = Joined(path)
  <2> DEFINE s == Joined(path)
             t == Cut(s, NUL)
  <2> HIDE DEF s
  <2>1. t = SubSeq(s, 1, Len(t)) /\ Len(t) <= Len(s) /\ (Len(t) < Len(s) => s[Len(t) + 1] = NUL) /\ Len(t) \in Nat
    <3>1. s \in Seq(D)
      BY <1>8 DEF s
    <3>2. t \in Seq(D \ {NUL})
      BY <3>1, CutIs
    <3> HIDE DEF t
    <3> QED BY <3>1, <3>2, CutIs DEF t
  <2> HIDE DEF t
  <2>2. s \in Seq(D)
    BY <1>8 DEF s
  <2>3. Len(t) = Len(s)
    BY <2>1, <2>2
  <2> QED BY <2>1, <2>2, <2>3 DEF s, t
<1>10. Token(Joined(path)) = Parts(Last_(Joined(path)))
  BY <1>9 DEF Token, CString, Cut, Last_
<1>11. SubSeq(path, 1, len) = path
  BY <1>1
<1> QED BY <1>1, <1>2, <1>6, <1>7, <1>8, <1>10, <1>11

\* The parts of a name have no slash in them and are not empty.
LEMMA PartsOf ==
  ASSUME NEW D, NEW s, CString(s) \in Seq(D)
  PROVE  Token(s) \in Seq(Seq(D \ {"/"}) \ {<<>>})
<1> DEFINE c == CString(s)
           P == Seq(D \ {"/"})
           st == Last_(c)
<1>1. st \in ScanStates(D)
  <2>1. Len(c) \in 0..Len(c)
    OBVIOUS
  <2> QED BY <2>1, ScanSteps DEF Last_
<1>2. Token(s) = Parts(st)
  BY DEF Token, Last_
<1> HIDE DEF st
<1>3. st.parts \in Seq(P \ {<<>>}) /\ st.part \in P
  BY <1>1 DEF ScanStates
<1> QED BY <1>2, <1>3 DEF Parts

----------------------------------------------------------------------------
(* Where the parts lead. *)

Dots == {<<".">>, <<"..">>}

LEMMA WalkSteps ==
  ASSUME NEW P, NEW parts \in Seq(P)
  PROVE  /\ Walk(parts)[0] = <<>>
         /\ \A k \in 0..Len(parts) : Walk(parts)[k] \in Seq(P \ Dots)
         /\ \A k \in 1..Len(parts) : Walk(parts)[k] = Step(Walk(parts)[k - 1], parts[k])
<1> DEFINE S == Seq(P \ Dots)
           len == Len(parts)
           step == [x \in S \X (1..len) |-> Step(x[1], parts[x[2]])]
           Reads(f) == f = [n \in 0..len |-> IF n = 0 THEN <<>> ELSE Step(f[n - 1], parts[n])]
           g == Walk(parts)
<1>1. <<>> \in S /\ Keeps(step, S, len) /\ len \in Nat
  <2>1. ASSUME NEW s \in S, NEW p \in P PROVE Step(s, p) \in S
    <3>1. p = <<"..">> => Step(s, p) = IF s = <<>> THEN s ELSE SubSeq(s, 1, Len(s) - 1)
      BY DEF Step, Front
    <3>2. p = <<".">> => Step(s, p) = s
      BY DEF Step
    <3>3. p \notin Dots => Step(s, p) = Append(s, p)
      BY DEF Step, Dots
    <3>4. p \in Dots => p = <<".">> \/ p = <<"..">>
      BY DEF Dots
    <3>5. CASE p \notin Dots
      BY <3>3, <3>5
    <3>6. CASE p = <<".">>
      BY <3>2, <3>6
    <3>7. CASE p = <<"..">>
      <4>1. s # <<>> => SubSeq(s, 1, Len(s) - 1) \in S
        OBVIOUS
      <4> HIDE DEF S
      <4> QED BY <3>1, <3>7, <4>1
    <3> QED BY <3>4, <3>5, <3>6, <3>7
  <2>2. \A k \in 1..len : parts[k] \in P
    OBVIOUS
  <2>3. \A x \in S \X (1..len) : Step(x[1], parts[x[2]]) \in S
    <3> HIDE DEF S
    <3> QED BY <2>1, <2>2
  <2> QED BY <2>3 DEF Keeps
<1>2. \A s \in S, k \in 1..len : step[<<s, k>>] = Step(s, parts[k])
  OBVIOUS
<1> HIDE DEF len, S, step
<1>3. PICK f : Follows(f, step, S, <<>>, len)
  BY <1>1, Recursion
<1>4. Reads(f)
  <2>1. ASSUME NEW k \in 1..len PROVE f[k] = Step(f[k - 1], parts[k])
    <3>1. f[k - 1] \in S
      BY <1>1, <1>3 DEF Follows
    <3> QED BY <1>2, <1>3, <3>1 DEF Follows
  <2> QED BY <1>3, <2>1 DEF Follows
<1>5. Reads(g)
  <2>1. \E h : Reads(h)
    <3> HIDE DEF Reads
    <3> QED BY <1>4
  <2> QED BY <2>1 DEF Walk, len
<1> HIDE DEF g
<1>6. /\ g = [k \in 0..len |-> g[k]] /\ g[0] = <<>>
      /\ \A k \in 1..len : g[k] = Step(g[k - 1], parts[k])
  <2>1. g = [k \in 0..len |-> g[k]]
    BY <1>5
  <2>2. g[0] = <<>>
    BY <1>1, <1>5
  <2>3. ASSUME NEW k \in 1..len PROVE g[k] = Step(g[k - 1], parts[k])
    BY <1>1, <1>5
  <2> QED BY <2>1, <2>2, <2>3
<1>7. Follows(g, step, S, <<>>, len)
  <2>1. \A k \in 1..len : g[k - 1] \in S => g[k] = step[<<g[k - 1], k>>]
    BY <1>2, <1>6
  <2> QED BY <1>1, <1>6, <2>1, Determined
<1>8. \A k \in 0..len : g[k] \in S
  BY <1>7 DEF Follows
<1> QED BY <1>6, <1>8 DEF S, len, g

LEMMA DepthSteps ==
  ASSUME NEW parts, Len(parts) \in Nat
  PROVE  /\ Depths(parts)[0] = 0
         /\ \A k \in 0..Len(parts) : Depths(parts)[k] \in Nat
         /\ \A k \in 1..Len(parts) : Depths(parts)[k] = Level(Depths(parts)[k - 1], parts[k])
<1> DEFINE S == Nat
           len == Len(parts)
           step == [x \in S \X (1..len) |-> Level(x[1], parts[x[2]])]
           Reads(f) == f = [n \in 0..len |-> IF n = 0 THEN 0 ELSE Level(f[n - 1], parts[n])]
           g == Depths(parts)
<1>1. 0 \in S /\ Keeps(step, S, len) /\ len \in Nat
  <2>1. ASSUME NEW s \in S, NEW p PROVE Level(s, p) \in S
    <3>1. p = <<"..">> => Level(s, p) = IF s = 0 THEN 0 ELSE s - 1
      BY DEF Level
    <3>2. p = <<".">> => Level(s, p) = s
      BY DEF Level
    <3>3. p \notin Dots => Level(s, p) = s + 1
      BY DEF Level, Dots
    <3>4. p \in Dots => p = <<".">> \/ p = <<"..">>
      BY DEF Dots
    <3> QED BY <3>1, <3>2, <3>3, <3>4
  <2>2. \A x \in S \X (1..len) : Level(x[1], parts[x[2]]) \in S
    <3> HIDE DEF S
    <3> QED BY <2>1
  <2> QED BY <2>2 DEF Keeps
<1>2. \A s \in S, k \in 1..len : step[<<s, k>>] = Level(s, parts[k])
  OBVIOUS
<1> HIDE DEF len, S, step
<1>3. PICK f : Follows(f, step, S, 0, len)
  BY <1>1, Recursion
<1>4. Reads(f)
  <2>1. ASSUME NEW k \in 1..len PROVE f[k] = Level(f[k - 1], parts[k])
    <3>1. f[k - 1] \in S
      BY <1>1, <1>3 DEF Follows
    <3> QED BY <1>2, <1>3, <3>1 DEF Follows
  <2> QED BY <1>3, <2>1 DEF Follows
<1>5. Reads(g)
  <2>1. \E h : Reads(h)
    <3> HIDE DEF Reads
    <3> QED BY <1>4
  <2> QED BY <2>1 DEF Depths, len
<1> HIDE DEF g
<1>6. /\ g = [k \in 0..len |-> g[k]] /\ g[0] = 0
      /\ \A k \in 1..len : g[k] = Level(g[k - 1], parts[k])
  <2>1. g = [k \in 0..len |-> g[k]]
    BY <1>5
  <2>2. g[0] = 0
    BY <1>1, <1>5
  <2>3. ASSUME NEW k \in 1..len PROVE g[k] = Level(g[k - 1], parts[k])
    BY <1>1, <1>5
  <2> QED BY <2>1, <2>2, <2>3
<1>7. Follows(g, step, S, 0, len)
  <2>1. \A k \in 1..len : g[k - 1] \in S => g[k] = step[<<g[k - 1], k>>]
    BY <1>2, <1>6
  <2> QED BY <1>1, <1>6, <2>1, Determined
<1>8. \A k \in 0..len : g[k] \in S
  BY <1>7 DEF Follows
<1> QED BY <1>6, <1>8 DEF S, len, g

\* On each level of the walk is the part that was entered there last.
Stands(parts, k, level) ==
  \E m \in 1..k : /\ parts[m] \notin Dots /\ Depths(parts)[m] = level
                  /\ Walk(parts)[k][level] = parts[m]
                  /\ \A i \in (m + 1)..k : parts[i] \in Dots \/ Depths(parts)[i] # level

LEMMA WalkStands ==
  ASSUME NEW P, NEW parts \in Seq(P)
  PROVE  \A k \in 0..Len(parts) :
           /\ Len(Walk(parts)[k]) = Depths(parts)[k]
           /\ \A level \in 1..Depths(parts)[k] : Stands(parts, k, level)
<1> DEFINE len == Len(parts)
           W == Walk(parts)
           D == Depths(parts)
           T == {k \in 0..len : /\ Len(W[k]) = D[k]
                                /\ \A level \in 1..D[k] : Stands(parts, k, level)}
<1>1. len \in Nat
  OBVIOUS
<1>2. /\ W[0] = <<>> /\ \A k \in 0..len : W[k] \in Seq(P)
      /\ \A k \in 1..len : W[k] = Step(W[k - 1], parts[k])
  <2>1. \A k \in 0..len : W[k] \in Seq(P \ Dots)
    BY WalkSteps
  <2>2. Seq(P \ Dots) \subseteq Seq(P)
    OBVIOUS
  <2> QED BY <2>1, <2>2, WalkSteps
<1>3. /\ D[0] = 0 /\ \A k \in 0..len : D[k] \in Nat
      /\ \A k \in 1..len : D[k] = Level(D[k - 1], parts[k])
  BY <1>1, DepthSteps
<1> HIDE DEF len, W, D
<1>4. 0 \in T
  BY <1>1, <1>2, <1>3
<1>5. ASSUME NEW k \in 0..(len - 1), k \in T PROVE k + 1 \in T
  <2> DEFINE p == parts[k + 1]
             w == W[k]
             d == D[k]
  <2>1. k + 1 \in 1..len /\ k + 1 \in 0..len /\ (k + 1) - 1 = k /\ k \in 0..len /\ k \in Nat
    BY <1>1
  <2>2. W[k + 1] = Step(w, p) /\ D[k + 1] = Level(d, p) /\ w \in Seq(P) /\ d \in Nat /\ Len(w) = d
    <3>1. W[k + 1] = Step(W[(k + 1) - 1], p) /\ D[k + 1] = Level(D[(k + 1) - 1], p)
      BY <1>2, <1>3, <2>1
    <3> QED BY <1>2, <1>3, <1>5, <2>1, <3>1
  <2>3. p \in P
    <3>1. \A i \in 1..len : parts[i] \in P
      BY DEF len
    <3> QED BY <2>1, <3>1
  <2>4. \A level \in 1..d : Stands(parts, k, level)
    BY <1>5
  <2> HIDE DEF w, d, p
  <2>5. ASSUME NEW level \in 1..d, p \in Dots \/ D[k + 1] # level, W[k + 1][level] = w[level]
        PROVE  Stands(parts, k + 1, level)
    <3>1. PICK m \in 1..k : /\ parts[m] \notin Dots /\ D[m] = level /\ w[level] = parts[m]
                            /\ \A i \in (m + 1)..k : parts[i] \in Dots \/ D[i] # level
      BY <2>4 DEF Stands, w, D, W
    <3>2. m \in 1..(k + 1)
      BY <2>1
    <3>3. \A i \in (m + 1)..(k + 1) : parts[i] \in Dots \/ D[i] # level
      <4> TAKE i \in (m + 1)..(k + 1)
      <4>1. CASE i = k + 1
        BY <2>5, <4>1 DEF p
      <4>2. CASE i # k + 1
        <5>1. i \in (m + 1)..k
          BY <2>1, <4>2
        <5> QED BY <3>1, <5>1
      <4> QED BY <4>1, <4>2
    <3> QED BY <2>5, <3>1, <3>2, <3>3 DEF Stands, D, W
  <2>6. CASE p = <<"..">>
    <3>1. Step(w, p) = IF w = <<>> THEN w ELSE SubSeq(w, 1, Len(w) - 1)
      BY <2>6 DEF Step, Front
    <3>2. Level(d, p) = IF d = 0 THEN 0 ELSE d - 1
      BY <2>6 DEF Level
    <3>3. Len(W[k + 1]) = D[k + 1] /\ D[k + 1] <= d
      BY <2>2, <3>1, <3>2
    <3>4. ASSUME NEW level \in 1..D[k + 1] PROVE level \in 1..d /\ W[k + 1][level] = w[level]
      BY <2>2, <3>1, <3>2
    <3>5. p \in Dots
      BY <2>6 DEF Dots
    <3>6. \A level \in 1..D[k + 1] : Stands(parts, k + 1, level)
      BY <2>5, <3>4, <3>5
    <3> QED BY <2>1, <3>3, <3>6
  <2>7. CASE p = <<".">>
    <3>1. Step(w, p) = w /\ Level(d, p) = d
      BY <2>7 DEF Step, Level
    <3>2. p \in Dots
      BY <2>7 DEF Dots
    <3>3. \A level \in 1..D[k + 1] : Stands(parts, k + 1, level)
      BY <2>2, <2>5, <3>1, <3>2
    <3> QED BY <2>1, <2>2, <3>1, <3>3
  <2>8. CASE p \notin Dots
    <3>1. Step(w, p) = Append(w, p) /\ Level(d, p) = d + 1
      BY <2>8 DEF Step, Level, Dots
    <3>2. /\ Len(W[k + 1]) = D[k + 1] /\ D[k + 1] = d + 1 /\ W[k + 1][d + 1] = p
          /\ \A level \in 1..d : W[k + 1][level] = w[level]
      BY <2>2, <2>3, <3>1
    <3>3. \A level \in 1..d : Stands(parts, k + 1, level)
      <4>1. \A level \in 1..d : D[k + 1] # level
        BY <2>2, <3>2
      <4> QED BY <2>5, <3>2, <4>1
    <3>4. Stands(parts, k + 1, d + 1)
      <4>1. k + 1 \in 1..(k + 1) /\ parts[k + 1] \notin Dots /\ D[k + 1] = d + 1
            /\ W[k + 1][d + 1] = parts[k + 1]
        BY <2>1, <2>8, <3>2 DEF p
      <4>2. \A i \in ((k + 1) + 1)..(k + 1) : FALSE
        BY <2>1
      <4> QED BY <4>1, <4>2 DEF Stands, D, W
    <3>5. \A level \in 1..D[k + 1] : level \in 1..d \/ level = d + 1
      BY <2>2, <3>2
    <3>6. \A level \in 1..D[k + 1] : Stands(parts, k + 1, level)
      BY <3>3, <3>4, <3>5
    <3> QED BY <2>1, <3>2, <3>6
  <2> QED BY <2>6, <2>7, <2>8 DEF Dots
<1>6. 0..len \subseteq T
  <2> HIDE DEF T
  <2> QED BY <1>1, <1>4, <1>5, UpTo
<1> QED BY <1>6 DEF len, W, D

\* So the walk leads where it is meant to.
LEMMA WalkAsIntended ==
  ASSUME NEW P, NEW parts \in Seq(P)
  PROVE  Walk(parts)[Len(parts)] = [level \in 1..Depths(parts)[Len(parts)] |->
                                      parts[Max(Entered(parts, level))]]
<1> DEFINE len == Len(parts)
           w == Walk(parts)[len]
           d == Depths(parts)[len]
           E(level) == Entered(parts, level)
<1>1. len \in Nat /\ len \in 0..len
  OBVIOUS
<1>2. w \in Seq(P \ Dots) /\ Len(w) = d /\ d \in Nat
  BY <1>1, WalkSteps, WalkStands, DepthSteps
<1>3. ASSUME NEW level \in 1..d PROVE w[level] = parts[Max(E(level))]
  <2>1. Stands(parts, len, level)
    BY <1>1, <1>3, WalkStands
  <2>2. PICK m \in 1..len : /\ parts[m] \notin Dots /\ Depths(parts)[m] = level /\ w[level] = parts[m]
                            /\ \A i \in (m + 1)..len : parts[i] \in Dots \/ Depths(parts)[i] # level
    BY <2>1 DEF Stands
  <2>3. m \in E(level)
    BY <2>2 DEF Entered, Dots
  <2>4. \A i \in E(level) : m >= i
    <3> TAKE i \in E(level)
    <3>1. i \in 1..len /\ parts[i] \notin Dots /\ Depths(parts)[i] = level
      BY DEF Entered, Dots
    <3> QED BY <1>1, <2>2, <3>1
  <2>5. E(level) \subseteq Nat
    BY DEF Entered
  <2>6. Max(E(level)) = m
    <3>1. \A x, y \in Nat : x >= y /\ y >= x => x = y
      OBVIOUS
    <3> HIDE DEF E
    <3> QED BY <2>3, <2>4, <2>5, <3>1 DEF Max
  <2> QED BY <2>2, <2>6
<1>4. w = [level \in 1..d |-> w[level]]
  <2> HIDE DEF w, d
  <2> QED BY <1>2
<1> HIDE DEF w, d, E
<1>5. w = [level \in 1..d |-> parts[Max(E(level))]]
  BY <1>3, <1>4
<1> QED BY <1>5 DEF w, d, E

----------------------------------------------------------------------------
(* Names and the paths they stand for. *)

\* A name without its query, up to a NUL.
Bare(name) == Cut(CString(name), "?")
Leads(parts) == Walk(parts)[Len(parts)]

LEMMA CutNone ==
  ASSUME NEW C, NEW s \in Seq(C), NEW c, c \notin C
  PROVE  Cut(s, c) = s
<1> DEFINE t == Cut(s, c)
<1>1. /\ t \in Seq(C \ {c}) /\ Len(t) <= Len(s) /\ t = SubSeq(s, 1, Len(t))
      /\ Len(t) < Len(s) => s[Len(t) + 1] = c
  <2> HIDE DEF t
  <2> QED BY CutIs DEF t
<1> HIDE DEF t
<1>2. Len(t) = Len(s)
  BY <1>1
<1>3. SubSeq(s, 1, Len(s)) = s
  OBVIOUS
<1> QED BY <1>1, <1>2, <1>3 DEF t

LEMMA CutJoin ==
  ASSUME NEW C, NEW a \in Seq(C), NEW c, c \notin C, NEW D, C \subseteq D, NEW b \in Seq(D)
  PROVE  Cut(a \o b, c) = a \o Cut(b, c)
<1> DEFINE t == Cut(a \o b, c)
           u == Cut(b, c)
<1>1. /\ t \in Seq(D \ {c}) /\ Len(t) <= Len(a \o b) /\ t = SubSeq(a \o b, 1, Len(t))
      /\ Len(t) < Len(a \o b) => (a \o b)[Len(t) + 1] = c
  <2>1. a \o b \in Seq(D)
    <3>1. a \in Seq(D)
      OBVIOUS
    <3> QED BY <3>1
  <2> HIDE DEF t
  <2> QED BY <2>1, CutIs DEF t
<1>2. /\ u \in Seq(D \ {c}) /\ Len(u) <= Len(b) /\ u = SubSeq(b, 1, Len(u))
      /\ Len(u) < Len(b) => b[Len(u) + 1] = c
  <2> HIDE DEF u
  <2> QED BY CutIs DEF u
<1> HIDE DEF t, u
<1>3. /\ a \in Seq(D) /\ Len(a) \in Nat /\ Len(b) \in Nat /\ Len(a \o b) = Len(a) + Len(b)
      /\ \A i \in 1..Len(a) : (a \o b)[i] = a[i] /\ a[i] # c
      /\ \A i \in 1..Len(b) : (a \o b)[Len(a) + i] = b[i]
  OBVIOUS
<1>4. Len(t) \in Nat /\ Len(u) \in Nat /\ \A i \in 1..Len(t) : t[i] = (a \o b)[i] /\ t[i] # c
  BY <1>1
<1>5. \A i \in 1..Len(u) : u[i] = b[i] /\ u[i] # c
  BY <1>2
<1>6. Len(t) >= Len(a)
  BY <1>1, <1>3, <1>4
<1>7. Len(t) = Len(a) + Len(u)
  <2>1. ASSUME Len(t) < Len(a) + Len(u) PROVE FALSE
    <3> DEFINE i == Len(t) + 1 - Len(a)
    <3>1. i \in 1..Len(u) /\ i \in 1..Len(b) /\ Len(a) + i = Len(t) + 1 /\ Len(t) < Len(a \o b)
      BY <1>2, <1>3, <1>4, <1>6, <2>1
    <3> HIDE DEF i
    <3> QED BY <1>1, <1>3, <1>5, <3>1
  <2>2. ASSUME Len(t) > Len(a) + Len(u) PROVE FALSE
    <3>1. /\ Len(a) + (Len(u) + 1) \in 1..Len(t) /\ Len(u) + 1 \in 1..Len(b)
          /\ Len(u) < Len(b)
      BY <1>1, <1>3, <1>4, <2>2
    <3>2. t[Len(a) + (Len(u) + 1)] = b[Len(u) + 1]
      BY <1>3, <1>4, <3>1
    <3> QED BY <1>2, <1>4, <3>1, <3>2
  <2> QED BY <1>3, <1>4, <2>1, <2>2
<1>8. SubSeq(a \o b, 1, Len(a) + Len(u)) = a \o SubSeq(b, 1, Len(u))
  BY <1>2, <1>3, <1>4
<1> QED BY <1>1, <1>2, <1>7, <1>8 DEF t, u

\* The first character stays, unless it is where the cut is.
LEMMA CutStays ==
  ASSUME NEW C, NEW s \in Seq(C), s # <<>>, NEW c, s[1] # c
  PROVE  Cut(s, c) \in Seq(C) /\ Cut(s, c) # <<>> /\ Cut(s, c)[1] = s[1]
<1> DEFINE t == Cut(s, c)
<1>1. /\ t \in Seq(C \ {c}) /\ Len(t) <= Len(s) /\ t = SubSeq(s, 1, Len(t))
      /\ Len(t) < Len(s) => s[Len(t) + 1] = c
  <2> HIDE DEF t
  <2> QED BY CutIs DEF t
<1> HIDE DEF t
<1>2. t # <<>>
  <2>1. Len(t) # 0
    BY <1>1
  <2> QED BY <1>1, <2>1
<1>3. t \in Seq(C) /\ t[1] = s[1]
  BY <1>1, <1>2
<1> QED BY <1>2, <1>3 DEF t

\* What is read of a name is what it is without its query.
LEMMA BareIs ==
  ASSUME NEW C, NEW name \in Seq(C), NEW n,
         n = SelectInSeq(CString(name), LAMBDA c : c = "?")
  PROVE  /\ Bare(name) \in Seq(C \ {NUL, "?"}) /\ CString(Bare(name)) = Bare(name)
         /\ Token(IF n = 0 THEN name ELSE SubSeq(name, 1, n - 1)) = Token(Bare(name))
<1> DEFINE c == CString(name)
           t == Bare(name)
           s == IF n = 0 THEN name ELSE SubSeq(name, 1, n - 1)
<1>1. c = Cut(name, NUL) /\ t = Cut(c, "?")
  BY CStringIs DEF Bare
<1> HIDE DEF c
<1>2. c \in Seq(C \ {NUL}) /\ Len(c) <= Len(name) /\ c = SubSeq(name, 1, Len(c))
  BY <1>1, CutIs
<1>3. t = IF n = 0 THEN c ELSE SubSeq(c, 1, n - 1)
  BY <1>1 DEF Cut, Before, c
<1> HIDE DEF t
<1>4. t \in Seq((C \ {NUL}) \ {"?"}) /\ Len(t) <= Len(c) /\ t = SubSeq(c, 1, Len(t))
  <2> DEFINE D == C \ {NUL}
  <2>1. c \in Seq(D)
    BY <1>2
  <2> HIDE DEF D
  <2>2. \A q : /\ Cut(c, q) \in Seq(D \ {q}) /\ Len(Cut(c, q)) <= Len(c)
               /\ Cut(c, q) = SubSeq(c, 1, Len(Cut(c, q)))
    BY <2>1, CutIs
  <2>3. t \in Seq(D \ {"?"}) /\ Len(t) <= Len(c) /\ t = SubSeq(c, 1, Len(t))
    BY <1>1, <2>2
  <2> QED BY <2>3 DEF D
<1>5. t \in Seq(C \ {NUL, "?"}) /\ CString(t) = t
  <2>1. (C \ {NUL}) \ {"?"} = C \ {NUL, "?"}
    OBVIOUS
  <2>2. t \in Seq(C \ {NUL, "?"})
    BY <1>4, <2>1
  <2>3. NUL \notin C \ {NUL, "?"}
    OBVIOUS
  <2> QED BY <2>2, <2>3, CutNone, CStringIs
<1>6. CASE n = 0
  <2>1. s = name /\ t = c
    BY <1>3, <1>6
  <2> HIDE DEF s
  <2>2. CString(s) = c
    BY <2>1 DEF c
  <2>3. CString(s) = CString(t)
    BY <1>5, <2>1, <2>2
  <2> QED BY <1>5, <2>3 DEF Token, s, t
<1>7. CASE n # 0
  <2>1. n \in 1..Len(c)
    <3> DEFINE I == {i \in 1..Len(c) : c[i] = "?"}
    <3>1. n = IF I # {} THEN Min(I) ELSE 0
      BY DEF SelectInSeq, c
    <3>2. I \subseteq Nat /\ I \subseteq 1..Len(c)
      OBVIOUS
    <3> HIDE DEF I
    <3>3. I # {} => Min(I) \in I
      BY <3>2, LeastNumber DEF Min
    <3> QED BY <1>7, <3>1, <3>2, <3>3
  <2>2. s = SubSeq(name, 1, n - 1) /\ t = SubSeq(c, 1, n - 1)
    BY <1>3, <1>7
  <2> HIDE DEF s
  <2>3. SubSeq(name, 1, n - 1) = SubSeq(c, 1, n - 1)
    <3> DEFINE m == Len(c)
    <3>1. m \in Nat /\ m <= Len(name) /\ c = SubSeq(name, 1, m) /\ n \in 1..m
      BY <1>2, <2>1
    <3> HIDE DEF m
    <3>2. SubSeq(SubSeq(name, 1, m), 1, n - 1) = SubSeq(name, 1, n - 1)
      BY <3>1
    <3> QED BY <3>1, <3>2
  <2>4. s = t
    BY <2>2, <2>3
  <2> QED BY <1>5, <2>4 DEF s, t
<1> QED BY <1>5, <1>6, <1>7 DEF t, s

\* The path of a name, by the parts of what is left of it.
LEMMA IntendedIs ==
  ASSUME NEW C, NEW name \in Seq(C)
  PROVE  /\ Token(Bare(name)) \in Seq(Seq(C \ {"/", NUL, "?"}) \ {<<>>})
         /\ Leads(Token(Bare(name))) \in Seq((Seq(C \ {"/", NUL, "?"}) \ {<<>>}) \ Dots)
         /\ Intended(name) = Joined(Leads(Token(Bare(name))))
<1> DEFINE n == SelectInSeq(CString(name), LAMBDA c : c = "?")
           parts == Token(Bare(name))
           P == Seq(C \ {"/", NUL, "?"}) \ {<<>>}
<1>1. parts \in Seq(P)
  <2> DEFINE D == C \ {NUL, "?"}
  <2>0. CString(Bare(name)) \in Seq(D)
    <3>1. n = SelectInSeq(CString(name), LAMBDA c : c = "?")
      OBVIOUS
    <3> HIDE DEF n
    <3> QED BY <3>1, BareIs
  <2>1. parts \in Seq(Seq(D \ {"/"}) \ {<<>>})
    <3> HIDE DEF D
    <3> QED BY <2>0, PartsOf
  <2>2. (C \ {NUL, "?"}) \ {"/"} = C \ {"/", NUL, "?"}
    OBVIOUS
  <2> QED BY <2>1, <2>2
<1>2. parts = Token(IF n = 0 THEN name ELSE SubSeq(name, 1, n - 1))
  <2> HIDE DEF n
  <2>1. n = SelectInSeq(CString(name), LAMBDA c : c = "?")
    BY DEF n
  <2> QED BY <2>1, BareIs
<1>3. Intended(name) = Joined([level \in 1..Depths(parts)[Len(parts)] |->
                                 parts[Max(Entered(parts, level))]])
  BY <1>2 DEF Intended, NameParts
<1> HIDE DEF parts, P
<1>4. Leads(parts) \in Seq(P \ Dots)
  <2>1. Len(parts) \in 0..Len(parts)
    BY <1>1
  <2> QED BY <1>1, <2>1, WalkSteps DEF Leads
<1>5. Intended(name) = Joined(Leads(parts))
  BY <1>1, <1>3, WalkAsIntended DEF Leads
<1> QED BY <1>1, <1>4, <1>5 DEF parts, P

\* No parts lead nowhere, and a slash has none.
LEMMA LeadsOfNone == Leads(<<>>) = <<>> /\ Joined(<<>>) = <<>>
<1> DEFINE none == {}
<1>1. <<>> \in Seq(none) /\ <<>> \in Seq(Seq({"/"})) /\ Len(<<>>) = 0
  OBVIOUS
<1> HIDE DEF none
<1>2. Walk(<<>>)[0] = <<>>
  BY <1>1, WalkSteps
<1>3. Joins(<<>>)[0] = <<>>
  BY <1>1, JoinSteps
<1> QED BY <1>1, <1>2, <1>3 DEF Leads, Joined

LEMMA TokenOfSlash == Token(<<>>) = <<>> /\ Token(<<"/">>) = <<>>
<1> DEFINE none == {}
           s == <<"/">>
           C == {"/"}
<1>1. <<>> \in Seq(none) /\ NUL \notin none /\ s \in Seq(C) /\ NUL \notin C
      /\ Len(<<>>) = 0 /\ Len(s) = 1 /\ s[1] = "/"
  BY DEF NUL
<1>2. Parts(Unread) = <<>>
  BY DEF Parts, Unread
<1>3. Scan(Unread, "/") = [parts |-> <<>>, part |-> <<>>]
  BY <1>2 DEF Scan
<1>4. Parts(Scan(Unread, "/")) = <<>>
  BY <1>3 DEF Parts
<1> HIDE DEF none, s, C
<1>5. CString(<<>>) = <<>> /\ CString(s) = s
  BY <1>1, CutNone, CStringIs
<1>6. Scanned(<<>>)[0] = Unread
  BY <1>1, ScanSteps
<1>7. Scanned(s)[1] = Scan(Unread, "/")
  <2>1. 1 \in 1..1 /\ 1 - 1 = 0
    OBVIOUS
  <2>2. Scanned(s)[0] = Unread /\ Scanned(s)[1] = Scan(Scanned(s)[1 - 1], s[1])
    BY <1>1, <2>1, ScanSteps
  <2> QED BY <1>1, <2>1, <2>2
<1> QED BY <1>1, <1>2, <1>4, <1>5, <1>6, <1>7 DEF Token, s

\* filepath(), of a name with parts.
LEMMA FilePathOf ==
  ASSUME NEW C, "/" \in C, NEW name \in Seq(C), Token(Bare(name)) # <<>>
  PROVE  FilePath(name) = Joined(Leads(Token(Bare(name))))
<1> DEFINE n == SelectInSeq(CString(name), LAMBDA c : c = "?")
           parts == Token(Bare(name))
<1>1. n = SelectInSeq(CString(name), LAMBDA c : c = "?")
  OBVIOUS
<1> HIDE DEF n
<1>2. parts = Token(IF n = 0 THEN name ELSE SubSeq(name, 1, n - 1))
  BY <1>1, BareIs
<1>3. n # 1
  <2> SUFFICES ASSUME n = 1 PROVE FALSE
    OBVIOUS
  <2>1. SubSeq(name, 1, 1 - 1) = <<>>
    OBVIOUS
  <2>2. (IF n = 0 THEN name ELSE SubSeq(name, 1, n - 1)) = <<>>
    BY <2>1
  <2> HIDE DEF parts
  <2>3. parts = <<>>
    BY <1>2, <2>2, TokenOfSlash
  <2> QED BY <2>3 DEF parts
<1>4. WithoutQuery(name) = IF n = 0 THEN name ELSE SubSeq(name, 1, n - 1)
  BY <1>3 DEF WithoutQuery, Before, n
<1> HIDE DEF parts
<1>5. Token(WithoutQuery(name)) = parts
  BY <1>2, <1>4
<1> QED BY <1>5 DEF FilePath, Normalised, Leads, parts

\* filepath() finds the path that is meant, for every name that stands for more
\* than the root.
THEOREM FilePathIsIntended ==
  ASSUME NEW C, "/" \in C, NEW name \in Seq(C), Intended(name) # Root
  PROVE  FilePath(name) = Intended(name)
<1> DEFINE parts == Token(Bare(name))
<1>1. Intended(name) = Joined(Leads(parts))
  BY IntendedIs
<1> HIDE DEF parts
<1>2. parts # <<>>
  BY <1>1, LeadsOfNone DEF Root
<1> QED BY <1>1, <1>2, FilePathOf DEF parts

\* Parts without dots lead where they say.
LEMMA WalkPlain ==
  ASSUME NEW P, NEW path \in Seq(P \ Dots)
  PROVE  Leads(path) = path
<1> DEFINE len == Len(path)
           W == Walk(path)
           T == {k \in 0..len : W[k] = SubSeq(path, 1, k)}
<1>1. /\ len \in Nat /\ W[0] = <<>> /\ \A k \in 1..len : W[k] = Step(W[k - 1], path[k])
      /\ \A k \in 1..len : path[k] \notin Dots
  <2>1. path \in Seq(P)
    OBVIOUS
  <2>2. W[0] = <<>> /\ \A k \in 1..len : W[k] = Step(W[k - 1], path[k])
    <3> HIDE DEF W
    <3> QED BY <2>1, WalkSteps DEF W
  <2>3. \A k \in 1..len : path[k] \in P \ Dots
    OBVIOUS
  <2> HIDE DEF W
  <2> QED BY <2>2, <2>3
<1> HIDE DEF W
<1>2. 0 \in T
  <2>1. path \in Seq(P) /\ SubSeq(path, 1, 0) = <<>>
    OBVIOUS
  <2>2. 0 \in 0..len
    BY <1>1
  <2> QED BY <1>1, <2>1, <2>2
<1>3. ASSUME NEW k \in 0..(len - 1), k \in T PROVE k + 1 \in T
  <2>1. k + 1 \in 1..len /\ k + 1 \in 0..len /\ (k + 1) - 1 = k /\ path[k + 1] \notin Dots
    BY <1>1
  <2>2. W[k + 1] = Step(W[(k + 1) - 1], path[k + 1])
    BY <1>1, <2>1
  <2>3. W[k + 1] = Append(W[k], path[k + 1])
    BY <2>1, <2>2 DEF Step, Dots
  <2>4. SubSeq(path, 1, k + 1) = Append(SubSeq(path, 1, k), path[k + 1])
    BY <1>1
  <2>5. W[k] = SubSeq(path, 1, k)
    BY <1>3
  <2> QED BY <2>1, <2>3, <2>4, <2>5
<1>4. 0..len \subseteq T
  <2> HIDE DEF T
  <2> QED BY <1>1, <1>2, <1>3, UpTo
<1>5. W[len] = SubSeq(path, 1, len) /\ SubSeq(path, 1, len) = path
  BY <1>1, <1>4
<1> QED BY <1>5 DEF Leads, W

\* What leads to one place leads to one place with the same parts behind it.
LEMMA WalkOn ==
  ASSUME NEW P, NEW a \in Seq(P), NEW b \in Seq(P), NEW c \in Seq(P), Leads(a) = Leads(b)
  PROVE  Leads(a \o c) = Leads(b \o c)
<1> DEFINE V == Walk(a \o c)
           W == Walk(b \o c)
           T == {k \in 0..Len(c) : V[Len(a) + k] = W[Len(b) + k]}
<1>1. ASSUME NEW s \in Seq(P) PROVE Walk(s \o c)[Len(s)] = Leads(s)
  <2> DEFINE U == Walk(s \o c)
             R == Walk(s)
             I == {k \in 0..Len(s) : U[k] = R[k]}
  <2>1. /\ Len(s) \in Nat /\ s \o c \in Seq(P) /\ Len(s \o c) = Len(s) + Len(c) /\ Len(c) \in Nat
        /\ \A k \in 1..Len(s) : (s \o c)[k] = s[k]
    OBVIOUS
  <2>2. /\ U[0] = <<>> /\ R[0] = <<>>
        /\ \A k \in 1..Len(s) : R[k] = Step(R[k - 1], s[k])
        /\ \A k \in 1..(Len(s) + Len(c)) : U[k] = Step(U[k - 1], (s \o c)[k])
    <3> DEFINE sc == s \o c
    <3>1. sc \in Seq(P) /\ Len(sc) = Len(s) + Len(c)
      BY <2>1
    <3> HIDE DEF sc
    <3>2. Walk(sc)[0] = <<>> /\ \A k \in 1..Len(sc) : Walk(sc)[k] = Step(Walk(sc)[k - 1], sc[k])
      BY <3>1, WalkSteps
    <3>3. U[0] = <<>> /\ \A k \in 1..(Len(s) + Len(c)) : U[k] = Step(U[k - 1], (s \o c)[k])
      BY <3>1, <3>2 DEF sc
    <3> QED BY <3>3, WalkSteps
  <2> HIDE DEF U, R
  <2>3. 0 \in I
    BY <2>1, <2>2
  <2>4. ASSUME NEW k \in 0..(Len(s) - 1), k \in I PROVE k + 1 \in I
    <3>1. k + 1 \in 1..Len(s) /\ k + 1 \in 1..(Len(s) + Len(c)) /\ (k + 1) - 1 = k
      BY <2>1
    <3>2. R[k + 1] = Step(R[(k + 1) - 1], s[k + 1]) /\ U[k + 1] = Step(U[(k + 1) - 1], (s \o c)[k + 1])
      BY <2>2, <3>1
    <3>3. (s \o c)[k + 1] = s[k + 1] /\ U[k] = R[k]
      BY <2>1, <2>4, <3>1
    <3> QED BY <3>1, <3>2, <3>3
  <2>5. 0..Len(s) \subseteq I
    <3> HIDE DEF I
    <3> QED BY <2>1, <2>3, <2>4, UpTo
  <2> QED BY <2>1, <2>5 DEF Leads, U, R
<1>2. ASSUME NEW s \in Seq(P), NEW k \in 0..(Len(c) - 1)
      PROVE  Walk(s \o c)[Len(s) + (k + 1)] = Step(Walk(s \o c)[Len(s) + k], c[k + 1])
  <2> DEFINE sc == s \o c
             n == Len(s) + (k + 1)
  <2>1. /\ sc \in Seq(P) /\ n \in 1..Len(sc) /\ n - 1 = Len(s) + k /\ sc[n] = c[k + 1]
    OBVIOUS
  <2> HIDE DEF sc, n
  <2>2. Walk(sc)[n] = Step(Walk(sc)[n - 1], sc[n])
    BY <2>1, WalkSteps
  <2> QED BY <2>1, <2>2 DEF sc, n
<1>3. Len(a) \in Nat /\ Len(b) \in Nat /\ Len(c) \in Nat
  OBVIOUS
<1>4. V[Len(a)] = W[Len(b)]
  BY <1>1
<1>5. \A k \in 0..(Len(c) - 1) : /\ V[Len(a) + (k + 1)] = Step(V[Len(a) + k], c[k + 1])
                                /\ W[Len(b) + (k + 1)] = Step(W[Len(b) + k], c[k + 1])
  BY <1>2
<1> HIDE DEF V, W
<1>6. 0 \in T
  BY <1>3, <1>4
<1>7. ASSUME NEW k \in 0..(Len(c) - 1), k \in T PROVE k + 1 \in T
  BY <1>3, <1>5, <1>7
<1>8. 0..Len(c) \subseteq T
  <2> HIDE DEF T
  <2> QED BY <1>3, <1>6, <1>7, UpTo
<1>9. V[Len(a) + Len(c)] = W[Len(b) + Len(c)]
  BY <1>3, <1>8
<1>10. Len(a \o c) = Len(a) + Len(c) /\ Len(b \o c) = Len(b) + Len(c)
  OBVIOUS
<1> QED BY <1>9, <1>10 DEF Leads, V, W

\* The parts of a name that goes on with a slash.
LEMMA PartsGoOn ==
  ASSUME NEW C, NEW a \in Seq(C), NEW b \in Seq(C), b # <<>>, b[1] = "/", NUL \notin C
  PROVE  Token(a \o b) = Token(a) \o Token(b)
<1> DEFINE n == Len(a)
           m == Len(b)
           c == a \o b
           f == Scanned(a)
           h == Scanned(b)
           p == Parts(f[n])
           on(k) == [parts |-> p \o h[k].parts, part |-> h[k].part]
           g == [k \in 0..(n + m) |-> IF k <= n THEN f[k] ELSE on(k - n)]
           Q == Seq(C \ {"/"})
<1>1. /\ c \in Seq(C) /\ Len(c) = n + m /\ n \in Nat /\ m \in Nat /\ m > 0
      /\ \A k \in 1..n : c[k] = a[k]
      /\ \A k \in 1..m : c[n + k] = b[k]
  OBVIOUS
<1>2. /\ \A k \in 0..n : f[k] \in ScanStates(C)
      /\ f[0] = Unread /\ \A k \in 1..n : f[k] = Scan(f[k - 1], a[k])
  BY ScanSteps
<1>3. /\ \A k \in 0..m : h[k] \in ScanStates(C)
      /\ h[0] = Unread /\ \A k \in 1..m : h[k] = Scan(h[k - 1], b[k])
  BY ScanSteps
<1>4. h[1] = Unread
  <2>1. h[1] = Scan(h[1 - 1], b[1]) /\ h[1 - 1] = Unread
    BY <1>1, <1>3
  <2>2. Scan(Unread, "/") = [parts |-> Parts(Unread), part |-> <<>>]
    BY DEF Scan
  <2>3. Parts(Unread) = <<>>
    BY DEF Parts, Unread
  <2> QED BY <2>1, <2>2, <2>3 DEF Unread
<1> HIDE DEF c, f, h
<1>5. p \in Seq(Q \ {<<>>})
  <2>1. f[n] \in ScanStates(C)
    BY <1>1, <1>2
  <2>2. f[n].parts \in Seq(Q \ {<<>>}) /\ f[n].part \in Q
    BY <2>1 DEF ScanStates
  <2> QED BY <2>2 DEF Parts
<1> HIDE DEF p
<1>6. \A k \in 0..m : h[k].parts \in Seq(Q \ {<<>>}) /\ h[k].part \in Q
  BY <1>3 DEF ScanStates
<1>6a. \A u \in Seq(Q \ {<<>>}), w \in Q \ {<<>>} : Append(p \o u, w) = p \o Append(u, w)
  <2> DEFINE R == Q \ {<<>>}
  <2>1. p \in Seq(R)
    BY <1>5
  <2> HIDE DEF R
  <2>2. \A u \in Seq(R), w \in R : Append(p \o u, w) = p \o Append(u, w)
    <3> TAKE u \in Seq(R), w \in R
    <3>1. Append(p \o u, w) = (p \o u) \o <<w>> /\ Append(u, w) = u \o <<w>> /\ <<w>> \in Seq(R)
      BY <2>1
    <3>2. (p \o u) \o <<w>> = p \o (u \o <<w>>)
      BY <2>1, <3>1, ConcatAssociative
    <3> QED BY <3>1, <3>2
  <2> QED BY <2>2 DEF R
<1>7. \A k \in 0..m : Parts([parts |-> p \o h[k].parts, part |-> h[k].part]) = p \o Parts(h[k])
  <2> TAKE k \in 0..m
  <2> DEFINE u == h[k].parts
             w == h[k].part
             st == [parts |-> p \o u, part |-> w]
  <2>1. u \in Seq(Q \ {<<>>}) /\ w \in Q
    BY <1>6
  <2>2. st.parts = p \o u /\ st.part = w
    OBVIOUS
  <2>3. Parts(h[k]) = IF w = <<>> THEN u ELSE Append(u, w)
    BY DEF Parts
  <2> HIDE DEF u, w, st
  <2>4. Parts(st) = IF w = <<>> THEN p \o u ELSE Append(p \o u, w)
    BY <2>2 DEF Parts
  <2>5. w # <<>> => Append(p \o u, w) = p \o Append(u, w)
    <3>1. w # <<>> => w \in Q \ {<<>>}
      BY <2>1
    <3> QED BY <1>6a, <2>1, <3>1
  <2>6. Parts(st) = p \o Parts(h[k])
    BY <2>3, <2>4, <2>5
  <2> QED BY <2>6 DEF st, u, w
<1>8. g[0] = Unread
  BY <1>1, <1>2
<1>9. ASSUME NEW k \in 1..(n + m) PROVE g[k] = Scan(g[k - 1], c[k])
  <2>1. CASE k \in 1..n
    <3>1. g[k] = f[k] /\ g[k - 1] = f[k - 1] /\ c[k] = a[k]
      BY <1>1, <2>1
    <3> HIDE DEF g
    <3> QED BY <1>2, <2>1, <3>1
  <2>2. CASE k = n + 1
    <3>1. g[k - 1] = f[n] /\ c[k] = "/"
      <4>1. k - 1 = n /\ n \in 0..(n + m)
        BY <1>1, <2>2
      <4>2. c[n + 1] = b[1]
        BY <1>1
      <4> QED BY <1>1, <2>2, <4>1, <4>2
    <3>2. g[k] = [parts |-> p \o h[1].parts, part |-> h[1].part]
      <4>1. k - n = 1 /\ ~(k <= n) /\ k \in 0..(n + m)
        BY <1>1, <2>2
      <4> HIDE DEF on, n, m
      <4>2. g[k] = on(1)
        BY <4>1
      <4> QED BY <4>2 DEF on
    <3>3. p \o <<>> = p
      <4> DEFINE R == Q \ {<<>>}
      <4>1. p \in Seq(R)
        BY <1>5
      <4> HIDE DEF R
      <4> QED BY <4>1
    <3>4. g[k] = [parts |-> p, part |-> <<>>]
      <4>1. h[1].parts = <<>> /\ h[1].part = <<>>
        BY <1>4 DEF Unread
      <4> HIDE DEF g
      <4> QED BY <3>2, <3>3, <4>1
    <3> HIDE DEF g
    <3> QED BY <3>1, <3>4 DEF Scan, p
  <2>3. CASE k \in (n + 2)..(n + m)
    <3> DEFINE j == k - n
               u == h[j - 1].parts
               w == h[j - 1].part
               x == b[j]
    <3>1. /\ j \in 1..m /\ j - 1 \in 0..m /\ j - 1 \in 1..m /\ c[k] = x
          /\ g[k] = [parts |-> p \o h[j].parts, part |-> h[j].part]
      <4>1. j \in 1..m /\ n + j = k /\ ~(k <= n)
        BY <1>1, <2>3
      <4>2. c[n + j] = b[j]
        BY <1>1, <4>1
      <4> QED BY <1>1, <2>3, <4>1, <4>2
    <3>2. g[k - 1] = [parts |-> p \o u, part |-> w]
      <4>1. ~(k - 1 <= n) /\ (k - 1) - n = j - 1 /\ k - 1 \in 0..(n + m)
        BY <1>1, <2>3
      <4> QED BY <4>1
    <3>3. h[j] = Scan(h[j - 1], x)
      BY <1>3, <3>1
    <3>4. h[j - 1] \in ScanStates(C)
      BY <1>3, <3>1
    <3>5. CASE x = "/"
      <4>1. h[j].parts = Parts(h[j - 1]) /\ h[j].part = <<>>
        BY <3>3, <3>5 DEF Scan
      <4>2. Parts([parts |-> p \o u, part |-> w]) = p \o Parts(h[j - 1])
        BY <1>7, <3>1
      <4> DEFINE st == g[k - 1]
      <4>3. Parts(st) = p \o Parts(h[j - 1])
        BY <3>2, <4>2
      <4>4. g[k] = [parts |-> Parts(st), part |-> <<>>]
        <5> HIDE DEF g, st
        <5> QED BY <3>1, <4>1, <4>3
      <4> HIDE DEF g, st
      <4> QED BY <3>1, <3>5, <4>4 DEF Scan, st
    <3>6. CASE x # "/"
      <4>1. h[j].parts = u /\ h[j].part = Append(w, x)
        <5>1. h[j] = [h[j - 1] EXCEPT !.part = Append(w, x)]
          BY <3>3, <3>6 DEF Scan
        <5>2. DOMAIN h[j - 1] = {"parts", "part"}
          BY <3>4 DEF ScanStates
        <5> QED BY <5>1, <5>2
      <4>2. Scan([parts |-> p \o u, part |-> w], x) = [parts |-> p \o u, part |-> Append(w, x)]
        <5> DEFINE v == p \o u
        <5> HIDE DEF u, w, x, v
        <5>1. Scan([parts |-> v, part |-> w], x) = [parts |-> v, part |-> Append(w, x)]
          BY <3>6 DEF Scan
        <5> QED BY <5>1 DEF v
      <4> HIDE DEF g, u, w, x
      <4> QED BY <3>1, <3>2, <4>1, <4>2
    <3> QED BY <3>5, <3>6
  <2>4. k \in 1..n \/ k = n + 1 \/ k \in (n + 2)..(n + m)
    BY <1>1
  <2> HIDE DEF g, n, m
  <2> QED BY <2>1, <2>2, <2>3, <2>4
<1>10. g = [k \in 0..(n + m) |-> g[k]] /\ g[n + m] = [parts |-> p \o h[m].parts, part |-> h[m].part]
  <2>1. n + m \in 0..(n + m) /\ ~(n + m <= n) /\ (n + m) - n = m
    BY <1>1
  <2> QED BY <2>1
<1>11. Scanned(c) = g
  <2> HIDE DEF g
  <2> QED BY <1>1, <1>8, <1>9, <1>10, ScanOf
<1>12. Parts(Scanned(c)[Len(c)]) = p \o Parts(h[m])
  <2>1. m \in 0..m
    BY <1>1
  <2>2. Parts([parts |-> p \o h[m].parts, part |-> h[m].part]) = p \o Parts(h[m])
    BY <1>7, <2>1
  <2> HIDE DEF g
  <2> QED BY <1>1, <1>10, <1>11, <2>2
<1>13. CString(c) = c /\ CString(a) = a /\ CString(b) = b
  BY <1>1, CutNone, CStringIs
<1> QED BY <1>12, <1>13 DEF Token, p, f, h, c

----------------------------------------------------------------------------
(* Spellings. *)

\* The path that a name stands for stands for itself, and is more than a slash.
LEMMA PathAgain ==
  ASSUME NEW C, "/" \in C, NEW name \in Seq(C), Intended(name) # Root
  PROVE  /\ Intended(name) \in Seq(C \ {NUL, "?"}) /\ Intended(name) # <<"/">>
         /\ Token(Bare(Intended(name))) = Leads(Token(Bare(name)))
         /\ Token(Bare(name)) # <<>> /\ Leads(Token(Bare(name))) # <<>>
         /\ FilePath(Intended(name)) = Intended(name)
<1> DEFINE parts == Token(Bare(name))
           path == Intended(name)
           at == Leads(parts)
           D == C \ {NUL, "?"}
           P == Seq(C \ {"/", NUL, "?"}) \ {<<>>}
<1>1. parts \in Seq(P) /\ at \in Seq(P \ Dots) /\ path = Joined(at)
  BY IntendedIs
<1>2. at \in Seq(P) /\ "/" \in D /\ NUL \notin D /\ "?" \notin D
  BY <1>1 DEF NUL
<1>3. at \in Seq(Seq(D \ {"/", NUL}) \ {<<>>})
  <2>1. D \ {"/", NUL} = C \ {"/", NUL, "?"}
    OBVIOUS
  <2> QED BY <1>2, <2>1
<1>4. /\ Joined(at) \in Seq(D \ {NUL}) /\ Token(Joined(at)) = at
      /\ at = <<>> => Joined(at) = <<>>
      /\ at # <<>> => Joined(at) # <<>> /\ Joined(at)[1] = "/"
  <2> HIDE DEF at, D
  <2> QED BY <1>2, <1>3, PartsOfJoined
<1>5. at # <<>> /\ Token(path) = at /\ path \in Seq(D)
  <2>1. D \ {NUL} = D
    OBVIOUS
  <2> HIDE DEF at, D, path
  <2> QED BY <1>1, <1>4, <2>1 DEF Root, path
<1>6. parts # <<>>
  BY <1>5, LeadsOfNone
<1>7. Bare(path) = path
  <2> HIDE DEF D, path
  <2>1. CString(path) = path
    BY <1>2, <1>5, CutNone, CStringIs
  <2>2. \A q : q \notin D => Cut(path, q) = path
    BY <1>5, CutNone
  <2> QED BY <1>2, <2>1, <2>2 DEF Bare
<1>8. path # <<"/">>
  <2> SUFFICES ASSUME path = <<"/">> PROVE FALSE
    OBVIOUS
  <2>1. Token(<<"/">>) = <<>>
    BY TokenOfSlash
  <2> HIDE DEF path, at
  <2> QED BY <1>5, <2>1
<1>9. FilePath(path) = Joined(Leads(at))
  <2> HIDE DEF path, at, D
  <2>1. path \in Seq(D) /\ "/" \in D /\ Token(Bare(path)) = at /\ at # <<>>
    BY <1>2, <1>5, <1>7
  <2> QED BY <2>1, FilePathOf
<1>10. Leads(at) = at
  <2> HIDE DEF at, P
  <2> QED BY <1>1, WalkPlain
<1> HIDE DEF path, at, D, parts
<1> QED BY <1>1, <1>5, <1>6, <1>7, <1>8, <1>9, <1>10 DEF path, at, D, parts

\* A name without a query goes on behind its last character.
LEMMA BareJoin ==
  ASSUME NEW C, NUL \notin C, "?" \notin C, NEW a \in Seq(C), NEW D, C \subseteq D, NEW b \in Seq(D)
  PROVE  Bare(a \o b) = a \o Bare(b)
<1> DEFINE left == Cut(b, NUL)
           E == D \ {NUL}
           mark == "?"
<1>0. \A q, F : q \notin C /\ C \subseteq F => \A s \in Seq(F) : Cut(a \o s, q) = a \o Cut(s, q)
  BY CutJoin
<1>1. CString(a \o b) = a \o left /\ CString(b) = left
  BY <1>0, CStringIs
<1>2. left \in Seq(E) /\ C \subseteq E /\ mark \notin C
  BY CutIs
<1>3. Bare(a \o b) = Cut(a \o left, mark) /\ Bare(b) = Cut(left, mark)
  BY <1>1 DEF Bare
<1> HIDE DEF left, E, mark
<1>4. Cut(a \o left, mark) = a \o Cut(left, mark)
  BY <1>0, <1>2
<1> QED BY <1>3, <1>4

\* What lies below a name, lies below the path that it stands for.
LEMMA BelowAgain ==
  ASSUME NEW name \in Seq(STRING \ {NUL}), ~HasQuery(name), Intended(name) # Root,
         NEW x, Absolute(x)
  PROVE  FilePath(name \o x) = FilePath(Intended(name) \o x)
<1> DEFINE L == STRING \cup {"/"}
           C == L \ {NUL, "?"}
           path == Intended(name)
           tail == Bare(x)
<1>1. name \in Seq(C)
  <2>1. \A i \in 1..Len(name) : name[i] # "?"
    BY DEF HasQuery, Contains
  <2> QED BY <2>1
<1>2. /\ "/" \in L /\ C \subseteq L /\ NUL \notin C /\ "?" \notin C /\ "/" \in C
      /\ C \ {NUL, "?"} = C
  BY DEF NUL
<1>3. /\ x \in Seq(L) /\ x # <<>> /\ x[1] = "/"
  BY DEF Absolute
<1> HIDE DEF C, L
<1>4. Bare(name) = name
  <2>1. \A q : q \notin C => Cut(name, q) = name
    BY <1>1, CutNone
  <2> QED BY <1>2, <2>1, CStringIs DEF Bare
<1>5. /\ path \in Seq(C) /\ Token(Bare(path)) = Leads(Token(name)) /\ Token(name) # <<>>
      /\ Leads(Token(name)) # <<>> /\ FilePath(path) = path
  <2>1. /\ path \in Seq(C \ {NUL, "?"}) /\ Token(Bare(path)) = Leads(Token(Bare(name)))
        /\ Token(Bare(name)) # <<>> /\ Leads(Token(Bare(name))) # <<>> /\ FilePath(path) = path
    BY <1>1, <1>2, PathAgain
  <2> QED BY <1>2, <1>4, <2>1
<1> HIDE DEF path
<1>6. Bare(path) = path
  <2>1. \A q : q \notin C => Cut(path, q) = path
    BY <1>5, CutNone
  <2> QED BY <1>2, <2>1, CStringIs DEF Bare
<1>7. tail \in Seq(L \ {NUL, "?"}) /\ tail # <<>> /\ tail[1] = "/"
  <2>1. \A n : n = SelectInSeq(CString(x), LAMBDA c : c = "?") => tail \in Seq(L \ {NUL, "?"})
    BY <1>3, BareIs
  <2>2. tail \in Seq(L \ {NUL, "?"})
    BY <2>1
  <2>3. Cut(x, NUL) # <<>> /\ Cut(x, NUL)[1] = "/" /\ Cut(x, NUL) \in Seq(L)
    BY <1>3, CutStays DEF NUL
  <2>4. tail # <<>> /\ tail[1] = "/"
    <3> DEFINE c == Cut(x, NUL)
    <3>1. c # <<>> /\ c[1] = "/" /\ c \in Seq(L)
      BY <2>3
    <3> HIDE DEF c
    <3>2. \A q : q # "/" => Cut(c, q) # <<>> /\ Cut(c, q)[1] = "/"
      BY <3>1, CutStays
    <3>3. tail = Cut(c, "?")
      BY CStringIs DEF Bare, c
    <3> QED BY <3>2, <3>3
  <2> QED BY <2>2, <2>4
<1>8. tail \in Seq(C)
  BY <1>7 DEF C
<1>9. ASSUME NEW s \in Seq(C), Token(s) # <<>>
      PROVE  FilePath(s \o x) = Joined(Leads(Token(s) \o Token(tail)))
  <2>1. Bare(s \o x) = s \o tail
    BY <1>2, <1>3, BareJoin
  <2> HIDE DEF tail
  <2>2. Token(s \o tail) = Token(s) \o Token(tail)
    BY <1>2, <1>7, <1>8, PartsGoOn
  <2>3. /\ Token(s) \in Seq(Seq(C \ {"/"}) \ {<<>>})
        /\ Token(tail) \in Seq(Seq(C \ {"/"}) \ {<<>>})
    <3>1. \A t \in Seq(C) : CString(t) = t
      BY <1>2, CutNone, CStringIs
    <3> QED BY <1>8, <3>1, PartsOf
  <2>4. Token(s \o tail) # <<>>
    <3> DEFINE P == Seq(C \ {"/"}) \ {<<>>}
               u == Token(s)
               v == Token(tail)
    <3>1. u \in Seq(P) /\ v \in Seq(P) /\ u # <<>>
      BY <1>9, <2>3
    <3> HIDE DEF P, u, v
    <3>2. u \o v # <<>>
      BY <3>1
    <3> QED BY <2>2, <3>2 DEF u, v
  <2>5. s \o x \in Seq(L)
    BY <1>2, <1>3
  <2> DEFINE t == s \o x
  <2> HIDE DEF t
  <2>6. t \in Seq(L) /\ Token(Bare(t)) # <<>> /\ Token(Bare(t)) = Token(s) \o Token(tail)
    BY <2>1, <2>2, <2>4, <2>5 DEF t
  <2>7. FilePath(t) = Joined(Leads(Token(s) \o Token(tail)))
    BY <1>2, <2>6, FilePathOf
  <2> QED BY <2>7 DEF t
<1>10. Leads(Token(name) \o Token(tail)) = Leads(Token(path) \o Token(tail))
  <2> DEFINE P == Seq(C \ {"/"}) \ {<<>>}
             a == Token(name)
             b == Token(path)
             c == Token(tail)
  <2>1. a \in Seq(P) /\ b \in Seq(P) /\ c \in Seq(P)
    <3>1. \A t \in Seq(C) : CString(t) = t
      BY <1>2, CutNone, CStringIs
    <3> QED BY <1>1, <1>5, <1>8, <3>1, PartsOf
  <2>2. b = Leads(a) /\ b \in Seq(P \ Dots)
    <3>1. b = Leads(a)
      BY <1>5, <1>6
    <3>2. Leads(a) \in Seq(P \ Dots)
      <4> HIDE DEF P, a
      <4>1. Len(a) \in 0..Len(a)
        BY <2>1
      <4> QED BY <2>1, <4>1, WalkSteps DEF Leads
    <3> QED BY <3>1, <3>2
  <2> HIDE DEF P, a, b, c
  <2>3. Leads(b) = b
    BY <2>2, WalkPlain
  <2>4. Leads(a) = Leads(b)
    BY <2>2, <2>3
  <2>5. Leads(a \o c) = Leads(b \o c)
    BY <2>1, <2>4, WalkOn
  <2> QED BY <2>5 DEF a, b, c
<1>11. Token(path) # <<>>
  BY <1>5, <1>6
<1> HIDE DEF tail
<1> QED BY <1>1, <1>5, <1>9, <1>10, <1>11 DEF path

----------------------------------------------------------------------------
(* Numbers in the header of a member. *)

\* Each digit is worth its place, and what is no digit is worth -1.
LEMMA ValueIs ==
  /\ \A k \in 0..15 : ValueOf(Digits[k + 1]) = k
  /\ \A c : ValueOf(c) \in Int
<1>1. ASSUME NEW c PROVE ValueOf(c) \in Int
  <2> DEFINE I == {i \in 1..Len(Digits) : Digits[i] = c}
  <2>1. ValueOf(c) = (IF I # {} THEN Min(I) ELSE 0) - 1
    BY DEF ValueOf, SelectInSeq
  <2>2. I \subseteq Nat
    OBVIOUS
  <2> HIDE DEF I
  <2>3. I # {} => Min(I) \in Nat
    BY <2>2, LeastNumber DEF Min
  <2> QED BY <2>1, <2>3
<1>2. ASSUME NEW k \in 0..15 PROVE ValueOf(Digits[k + 1]) = k
  <2> DEFINE I == {i \in 1..Len(Digits) : Digits[i] = Digits[k + 1]}
  <2>1. ValueOf(Digits[k + 1]) = (IF I # {} THEN Min(I) ELSE 0) - 1
    BY DEF ValueOf, SelectInSeq
  <2>2. \A i, j \in 1..16 : Digits[i] = Digits[j] => i = j
    BY DEF Digits
  <2>3. Len(Digits) = 16
    BY DEF Digits
  <2>4. I = {k + 1}
    BY <2>2, <2>3
  <2> HIDE DEF I
  <2>5. Min(I) \in I
    BY <2>4 DEF Min
  <2> QED BY <2>1, <2>4, <2>5
<1> QED BY <1>1, <1>2

LEMMA ValueSteps ==
  ASSUME NEW digits, Len(digits) \in Nat, NEW base \in Nat,
         \A k \in 1..Len(digits) : ValueOf(digits[k]) \in Nat
  PROVE  /\ Values(digits, base)[0] = 0
         /\ \A k \in 0..Len(digits) : Values(digits, base)[k] \in Nat
         /\ \A k \in 1..Len(digits) :
              Values(digits, base)[k] = More(Values(digits, base)[k - 1], base, digits[k])
<1> DEFINE S == Nat
           len == Len(digits)
           step == [x \in S \X (1..len) |-> More(x[1], base, digits[x[2]])]
           Reads(f) == f = [n \in 0..len |-> IF n = 0 THEN 0 ELSE More(f[n - 1], base, digits[n])]
           g == Values(digits, base)
<1>1. 0 \in S /\ Keeps(step, S, len) /\ len \in Nat
  <2>1. \A s \in S, k \in 1..len : More(s, base, digits[k]) \in S
    <3> TAKE s \in S, k \in 1..len
    <3> DEFINE v == ValueOf(digits[k])
    <3>1. v \in Nat /\ More(s, base, digits[k]) = s * base + v
      BY DEF More
    <3> HIDE DEF v
    <3>2. s * base \in Nat
      OBVIOUS
    <3> QED BY <3>1, <3>2
  <2>2. \A x \in S \X (1..len) : More(x[1], base, digits[x[2]]) \in S
    <3> HIDE DEF S
    <3> QED BY <2>1
  <2> QED BY <2>2 DEF Keeps
<1>2. \A s \in S, k \in 1..len : step[<<s, k>>] = More(s, base, digits[k])
  OBVIOUS
<1> HIDE DEF len, S, step
<1>3. PICK f : Follows(f, step, S, 0, len)
  BY <1>1, Recursion
<1>4. Reads(f)
  <2>1. ASSUME NEW k \in 1..len PROVE f[k] = More(f[k - 1], base, digits[k])
    <3>1. f[k - 1] \in S
      BY <1>1, <1>3 DEF Follows
    <3> QED BY <1>2, <1>3, <3>1 DEF Follows
  <2> QED BY <1>3, <2>1 DEF Follows
<1>5. Reads(g)
  <2>1. \E h : Reads(h)
    <3> HIDE DEF Reads
    <3> QED BY <1>4
  <2> QED BY <2>1 DEF Values, len
<1> HIDE DEF g
<1>6. /\ g = [k \in 0..len |-> g[k]] /\ g[0] = 0
      /\ \A k \in 1..len : g[k] = More(g[k - 1], base, digits[k])
  <2>1. g = [k \in 0..len |-> g[k]]
    BY <1>5
  <2>2. g[0] = 0
    BY <1>1, <1>5
  <2>3. ASSUME NEW k \in 1..len PROVE g[k] = More(g[k - 1], base, digits[k])
    BY <1>1, <1>5
  <2> QED BY <2>1, <2>2, <2>3
<1>7. Follows(g, step, S, 0, len)
  <2>1. \A k \in 1..len : g[k - 1] \in S => g[k] = step[<<g[k - 1], k>>]
    BY <1>2, <1>6
  <2> QED BY <1>1, <1>6, <2>1, Determined
<1>8. \A k \in 0..len : g[k] \in S
  BY <1>7 DEF Follows
<1> QED BY <1>6, <1>8 DEF S, len, g

Bases == {8, 16}

LEMMA ShiftSteps ==
  ASSUME NEW val \in Nat, NEW base \in Bases, NEW width \in Nat
  PROVE  /\ Shifts(val, base, width)[0] = val
         /\ \A k \in 0..width : Shifts(val, base, width)[k] \in Nat
         /\ \A k \in 1..width :
              Shifts(val, base, width)[k] = Shift(Shifts(val, base, width)[k - 1], base)
<1> DEFINE S == Nat
           step == [x \in S \X (1..width) |-> Shift(x[1], base)]
           Reads(f) == f = [n \in 0..width |-> IF n = 0 THEN val ELSE Shift(f[n - 1], base)]
           g == Shifts(val, base, width)
<1>1. val \in S /\ Keeps(step, S, width)
  <2>1. \A s \in S : Shift(s, base) \in S
    <3> TAKE s \in S
    <3>1. s \div 8 \in Nat /\ s \div 16 \in Nat
      OBVIOUS
    <3> QED BY <3>1 DEF Shift, Bases
  <2>2. \A x \in S \X (1..width) : Shift(x[1], base) \in S
    <3> HIDE DEF S
    <3> QED BY <2>1
  <2> QED BY <2>2 DEF Keeps
<1>2. \A s \in S, k \in 1..width : step[<<s, k>>] = Shift(s, base)
  OBVIOUS
<1> HIDE DEF S, step
<1>3. PICK f : Follows(f, step, S, val, width)
  BY <1>1, Recursion
<1>4. Reads(f)
  <2>1. ASSUME NEW k \in 1..width PROVE f[k] = Shift(f[k - 1], base)
    <3>1. f[k - 1] \in S
      BY <1>1, <1>3 DEF Follows
    <3> QED BY <1>2, <1>3, <3>1 DEF Follows
  <2> QED BY <1>3, <2>1 DEF Follows
<1>5. Reads(g)
  <2>1. \E h : Reads(h)
    <3> HIDE DEF Reads
    <3> QED BY <1>4
  <2> QED BY <2>1 DEF Shifts
<1> HIDE DEF g
<1>6. /\ g = [k \in 0..width |-> g[k]] /\ g[0] = val
      /\ \A k \in 1..width : g[k] = Shift(g[k - 1], base)
  <2>1. g = [k \in 0..width |-> g[k]]
    BY <1>5
  <2>2. g[0] = val
    BY <1>1, <1>5
  <2>3. ASSUME NEW k \in 1..width PROVE g[k] = Shift(g[k - 1], base)
    BY <1>1, <1>5
  <2> QED BY <2>1, <2>2, <2>3
<1>7. Follows(g, step, S, val, width)
  <2>1. \A k \in 1..width : g[k - 1] \in S => g[k] = step[<<g[k - 1], k>>]
    BY <1>2, <1>6
  <2> QED BY <1>1, <1>6, <2>1, Determined
<1>8. \A k \in 0..width : g[k] \in S
  BY <1>7 DEF Follows
<1> QED BY <1>6, <1>8 DEF S, g

\* A number is read as far as there are digits of its base.
LEMMA FromDigitsIs ==
  ASSUME NEW S, NEW digits \in Seq(S), NEW base \in Bases
  PROVE  /\ FromDigits(digits, base) \in Nat
         /\ (\A k \in 1..Len(digits) : ValueOf(digits[k]) \in 0..(base - 1)) =>
              FromDigits(digits, base) = Values(digits, base)[Len(digits)]
<1> DEFINE Bad(c) == ValueOf(c) \notin 0..(base - 1)
           I == {i \in 1..Len(digits) : Bad(digits[i])}
           n == IF I # {} THEN Min(I) ELSE 0
           good == IF n = 0 THEN digits ELSE SubSeq(digits, 1, n - 1)
<1>1. FromDigits(digits, base) = Values(good, base)[Len(good)]
  BY DEF FromDigits, SelectInSeq
<1>2. I \subseteq Nat /\ I \subseteq 1..Len(digits) /\ Len(digits) \in Nat
  OBVIOUS
<1>3. I # {} => n \in I /\ \A i \in I : n <= i
  <2> HIDE DEF I
  <2>1. I # {} => \E x \in I : \A y \in I : x <= y
    BY <1>2, LeastNumber
  <2> QED BY <2>1 DEF Min
<1>4. Len(good) \in Nat /\ \A k \in 1..Len(good) : ValueOf(good[k]) \in Nat
  <2>1. CASE I = {}
    <3>1. good = digits
      BY <2>1
    <3>2. \A k \in 1..Len(digits) : ValueOf(digits[k]) \in 0..(base - 1)
      BY <2>1
    <3> HIDE DEF good, I
    <3> QED BY <1>2, <3>1, <3>2
  <2>2. CASE I # {}
    <3>1. n \in 1..Len(digits) /\ n # 0
      BY <1>2, <1>3, <2>2
    <3>2. good = SubSeq(digits, 1, n - 1)
      BY <3>1
    <3>3. ASSUME NEW k \in 1..(n - 1) PROVE ValueOf(digits[k]) \in 0..(base - 1)
      <4>1. k \in 1..Len(digits) /\ k \notin I
        BY <1>2, <1>3, <2>2, <3>1
      <4> QED BY <4>1
    <3> HIDE DEF good, n
    <3>4. Len(good) = n - 1 /\ \A k \in 1..(n - 1) : good[k] = digits[k]
      BY <3>1, <3>2
    <3> QED BY <3>1, <3>3, <3>4
  <2> QED BY <2>1, <2>2
<1>5. (\A k \in 1..Len(digits) : ValueOf(digits[k]) \in 0..(base - 1)) => good = digits
  OBVIOUS
<1> HIDE DEF good
<1>6. Values(good, base)[Len(good)] \in Nat
  <2>1. Len(good) \in 0..Len(good) /\ base \in Nat
    BY <1>4 DEF Bases
  <2> QED BY <1>4, <2>1, ValueSteps
<1> QED BY <1>1, <1>5, <1>6

\* As many digits are written as the field has room for.
Sixteen(digits, D) == \A k \in 1..16 : digits[k] \in D
LEMMA ToDigitsIs ==
  ASSUME NEW val \in Nat, NEW base \in Bases, NEW width \in Nat,
         NEW D, NEW digits, Sixteen(digits, D)
  PROVE  /\ ToDigits(val, base, width, digits) \in Seq(D)
         /\ Len(ToDigits(val, base, width, digits)) = width
         /\ \A i \in 1..width :
              ToDigits(val, base, width, digits)[i]
                = digits[(Shifts(val, base, width)[width - i] % base) + 1]
<1> DEFINE left == Shifts(val, base, width)
           e(i) == digits[(left[width - i] % base) + 1]
           t == [i \in 1..width |-> e(i)]
<1>1. ToDigits(val, base, width, digits) = t
  BY DEF ToDigits
<1>2. \A k \in 0..width : left[k] \in Nat
  BY ShiftSteps
<1> HIDE DEF left
<1>3. ASSUME NEW i \in 1..width PROVE e(i) \in D
  <2>1. left[width - i] \in Nat
    BY <1>2
  <2>2. (left[width - i] % 8) \in 0..7 /\ (left[width - i] % 16) \in 0..15
    BY <2>1
  <2>3. (left[width - i] % base) + 1 \in 1..16
    BY <2>2 DEF Bases
  <2> QED BY <2>3 DEF Sixteen
<1> HIDE DEF e
<1>4. t \in Seq(D) /\ Len(t) = width /\ \A i \in 1..width : t[i] = e(i)
  BY <1>3
<1> QED BY <1>1, <1>4 DEF e, left

\* What is written with the right digits, in a field with room for it, is read as
\* it was.
LEMMA NumbersComeBack ==
  ASSUME NEW val \in Nat, NEW base \in Bases, NEW width \in Nat,
         Shifts(val, base, width)[width] = 0
  PROVE  FromDigits(ToDigits(val, base, width, Digits), base) = val
<1> DEFINE left == Shifts(val, base, width)
           t == ToDigits(val, base, width, Digits)
           raw == Values(t, base)
           D == {Digits[k] : k \in 1..16}
           T == {k \in 0..width : raw[k] = left[width - k]}
<1>1. /\ left[0] = val /\ left[width] = 0
      /\ \A k \in 0..width : left[k] \in Nat
      /\ \A k \in 1..width : left[k] = left[k - 1] \div base
  <2>1. /\ left[0] = val /\ \A k \in 0..width : left[k] \in Nat
        /\ \A k \in 1..width : left[k] = Shift(left[k - 1], base)
    <3>1. left[0] = val
      BY ShiftSteps
    <3>2. \A k \in 0..width : left[k] \in Nat
      BY ShiftSteps
    <3>3. \A k \in 1..width : left[k] = Shift(left[k - 1], base)
      BY ShiftSteps
    <3> HIDE DEF left
    <3> QED BY <3>1, <3>2, <3>3
  <2>2. left[width] = 0
    OBVIOUS
  <2> HIDE DEF left
  <2> QED BY <2>1, <2>2 DEF Shift
<1>2. /\ t \in Seq(D) /\ Len(t) = width
      /\ \A i \in 1..width : t[i] = Digits[(left[width - i] % base) + 1]
  <2> DEFINE ds == Digits
  <2>1. Sixteen(ds, D)
    BY DEF Sixteen
  <2> HIDE DEF D, ds
  <2>2. /\ ToDigits(val, base, width, ds) \in Seq(D)
        /\ Len(ToDigits(val, base, width, ds)) = width
        /\ \A i \in 1..width :
             ToDigits(val, base, width, ds)[i]
               = ds[(Shifts(val, base, width)[width - i] % base) + 1]
    <3>1. ToDigits(val, base, width, ds) \in Seq(D)
      BY <2>1, ToDigitsIs
    <3>2. Len(ToDigits(val, base, width, ds)) = width
      BY <2>1, ToDigitsIs
    <3>3. \A i \in 1..width :
             ToDigits(val, base, width, ds)[i]
               = ds[(Shifts(val, base, width)[width - i] % base) + 1]
      BY <2>1, ToDigitsIs
    <3> QED BY <3>1, <3>2, <3>3
  <2> QED BY <2>2 DEF ds
<1> HIDE DEF left, t, D
<1>3. ASSUME NEW i \in 1..width
      PROVE  ValueOf(t[i]) = left[width - i] % base /\ ValueOf(t[i]) \in 0..(base - 1)
  <2> DEFINE r == left[width - i] % base
  <2>1. left[width - i] \in Nat
    BY <1>1
  <2>2. (left[width - i] % 8) \in 0..7 /\ (left[width - i] % 16) \in 0..15
    BY <2>1
  <2>3. r \in 0..(base - 1) /\ r \in 0..15
    BY <2>2 DEF Bases
  <2>4. t[i] = Digits[r + 1]
    BY <1>2
  <2> HIDE DEF r
  <2>5. ValueOf(t[i]) = r
    BY <2>3, <2>4, ValueIs
  <2> QED BY <2>3, <2>5 DEF r
<1>4. FromDigits(t, base) = raw[width]
  BY <1>2, <1>3, FromDigitsIs
<1>5. /\ raw[0] = 0 /\ \A k \in 0..width : raw[k] \in Nat
      /\ \A k \in 1..width : raw[k] = raw[k - 1] * base + ValueOf(t[k])
  <2>1. \A k \in 1..Len(t) : ValueOf(t[k]) \in Nat
    BY <1>2, <1>3
  <2>2. base \in Nat /\ Len(t) \in Nat
    BY <1>2 DEF Bases
  <2>3. /\ raw[0] = 0 /\ \A k \in 0..Len(t) : raw[k] \in Nat
        /\ \A k \in 1..Len(t) : raw[k] = More(raw[k - 1], base, t[k])
    <3> HIDE DEF raw
    <3> QED BY <2>1, <2>2, ValueSteps DEF raw
  <2> HIDE DEF raw
  <2> QED BY <1>2, <2>3 DEF More
<1> HIDE DEF raw
<1>6. 0 \in T
  BY <1>1, <1>5
<1>7. ASSUME NEW k \in 0..(width - 1), k \in T PROVE k + 1 \in T
  <2> DEFINE x == left[width - (k + 1)]
  <2>1. k + 1 \in 1..width /\ (k + 1) - 1 = k /\ width - k \in 1..width
        /\ (width - k) - 1 = width - (k + 1) /\ width - (k + 1) \in 0..width
    OBVIOUS
  <2>2. x \in Nat /\ left[width - k] = x \div base
    BY <1>1, <2>1
  <2>3. ValueOf(t[k + 1]) = x % base
    BY <1>3, <2>1
  <2>4. raw[k + 1] = (x \div base) * base + (x % base)
    BY <1>5, <1>7, <2>1, <2>2, <2>3
  <2> HIDE DEF x
  <2>5. (x \div 8) * 8 + (x % 8) = x /\ (x \div 16) * 16 + (x % 16) = x
    BY <2>2
  <2>6. raw[k + 1] = x
    BY <2>4, <2>5 DEF Bases
  <2> QED BY <2>1, <2>6 DEF x
<1>8. width \in T
  <2> HIDE DEF T
  <2> QED BY <1>6, <1>7, UpTo
<1>9. raw[width] = val
  BY <1>1, <1>8
<1> QED BY <1>4, <1>9 DEF t

----------------------------------------------------------------------------
(* The cells of a file. *)

\* The numbers of the format "bin" are raw, those of the others are digits; a file
\* has members of the one sort or of the other.
CellOK(raw, c) ==
  /\ "magic" \in DOMAIN c => c.magic \in Formats /\ (c.magic = "bin" <=> raw)
  /\ "number" \in DOMAIN c => IF raw THEN c.number \in Seq(Nat) ELSE \E S : c.number \in Seq(S)
Cells(raw, s) == \E S : s \in Seq(S) /\ \A c \in S : CellOK(raw, c)
IsSeq(s) == \E S : s \in Seq(S)

LEMMA PlainCells ==
  \A raw, c : CellOK(raw, Char(c)) /\ CellOK(raw, Junk)
BY DEF CellOK, Char, Junk

LEMMA CellsJoin ==
  ASSUME NEW raw, NEW a, Cells(raw, a), NEW b, Cells(raw, b)
  PROVE  Cells(raw, a \o b)
<1>1. PICK S : a \in Seq(S) /\ \A c \in S : CellOK(raw, c)
  BY DEF Cells
<1>2. PICK T : b \in Seq(T) /\ \A c \in T : CellOK(raw, c)
  BY DEF Cells
<1> DEFINE R == S \cup T
<1>3. a \in Seq(R) /\ b \in Seq(R) /\ \A c \in R : CellOK(raw, c)
  BY <1>1, <1>2
<1> HIDE DEF R
<1>4. a \o b \in Seq(R)
  BY <1>3
<1> QED BY <1>3, <1>4 DEF Cells

LEMMA CellsIn ==
  ASSUME NEW raw, NEW s, Cells(raw, s)
  PROVE  /\ IsSeq(s) /\ Len(s) \in Nat /\ DOMAIN s = 1..Len(s) /\ s \in Seq(ToSet(s))
         /\ \A i \in 1..Len(s) : CellOK(raw, s[i])
         /\ \A c \in ToSet(s) : CellOK(raw, c)
         /\ \A n \in 0..Len(s) : Cells(raw, SubSeq(s, 1, n))
<1>1. PICK S : s \in Seq(S) /\ \A c \in S : CellOK(raw, c)
  BY DEF Cells
<1>2. Len(s) \in Nat /\ DOMAIN s = 1..Len(s) /\ \A i \in 1..Len(s) : CellOK(raw, s[i])
  BY <1>1
<1>3. \A c \in ToSet(s) : CellOK(raw, c)
  BY <1>2 DEF ToSet
<1>4. s \in Seq(ToSet(s))
  BY <1>1 DEF ToSet
<1>5. \A n \in 0..Len(s) : Cells(raw, SubSeq(s, 1, n))
  <2> TAKE n \in 0..Len(s)
  <2>1. SubSeq(s, 1, n) \in Seq(S)
    BY <1>1
  <2> QED BY <1>1, <2>1 DEF Cells
<1> QED BY <1>1, <1>2, <1>3, <1>4, <1>5 DEF IsSeq

LEMMA FormatFacts ==
  ASSUME NEW format \in Formats
  PROVE  /\ Base(format) \in Bases
         /\ \A f : Width(format, f) \in Nat
         /\ \A n \in Nat : Missing(format, n) \in Nat /\ NamePadding(format, n) \in Nat
<1>1. Base(format) \in Bases /\ \A f : Width(format, f) \in Nat
  BY DEF Base, Bases, Width
<1>2. Unit(format) \in {1, 2, 4}
  BY DEF Unit, Formats
<1>3. \A n \in Nat : Missing(format, n) \in Nat
  <2> TAKE n \in Nat
  <2>1. /\ (1 - (n % 1)) % 1 \in Nat /\ (2 - (n % 2)) % 2 \in Nat /\ (4 - (n % 4)) % 4 \in Nat
    <3>1. n % 1 \in 0..0 /\ n % 2 \in 0..1 /\ n % 4 \in 0..3
      OBVIOUS
    <3> QED BY <3>1
  <2> QED BY <1>2, <2>1 DEF Missing
<1>4. HeaderSize[format] \in Nat
  BY DEF HeaderSize, Formats
<1>5. \A n \in Nat : NamePadding(format, n) \in Nat
  BY <1>3, <1>4 DEF NamePadding
<1> QED BY <1>1, <1>3, <1>5

LEMMA DecodeIsNat ==
  ASSUME NEW format \in Formats, NEW d, IF format = "bin" THEN d \in Seq(Nat) ELSE IsSeq(d)
  PROVE  Decode(format, d) \in Nat
<1>1. CASE d = <<>>
  BY <1>1 DEF Decode
<1>2. CASE d # <<>> /\ format = "bin"
  <2>1. d[1] \in Nat
    BY <1>2
  <2> QED BY <1>2, <2>1 DEF Decode
<1>3. CASE d # <<>> /\ format # "bin"
  <2>1. PICK S : d \in Seq(S)
    BY <1>3 DEF IsSeq
  <2> DEFINE base == Base(format)
  <2>2. base \in Bases
    BY FormatFacts
  <2> HIDE DEF base
  <2>3. FromDigits(d, base) \in Nat
    BY <2>1, <2>2, FromDigitsIs
  <2> QED BY <1>3, <2>3 DEF Decode, base
<1> QED BY <1>1, <1>2, <1>3

LEMMA EncodeIsNumber ==
  ASSUME NEW format \in Formats, NEW field, NEW val \in Nat, NEW D, NEW digits, Sixteen(digits, D),
         NEW d, d = Encode(format, field, val, digits)
  PROVE  IF format = "bin" THEN d \in Seq(Nat) ELSE IsSeq(d)
<1>1. CASE format = "bin"
  <2>1. val % 65536 \in Nat
    OBVIOUS
  <2> DEFINE v == IF field = "filesize" THEN val ELSE val % 65536
  <2>2. v \in Nat
    BY <2>1
  <2>3. d = <<v>>
    BY <1>1 DEF Encode
  <2> HIDE DEF v
  <2>4. d \in Seq(Nat)
    BY <2>2, <2>3
  <2> QED BY <1>1, <2>4
<1>2. CASE format # "bin"
  <2> DEFINE base == Base(format)
             width == Width(format, field)
  <2>1. d = ToDigits(val, base, width, digits)
    BY <1>2 DEF Encode
  <2>2. base \in Bases /\ width \in Nat
    BY FormatFacts
  <2> HIDE DEF base, width
  <2>3. ToDigits(val, base, width, digits) \in Seq(D)
    BY <2>2, ToDigitsIs
  <2> QED BY <1>2, <2>1, <2>3 DEF IsSeq
<1> QED BY <1>1, <1>2

LEMMA DigitsAreSixteen ==
  /\ \E D : Sixteen(Digits, D)
  /\ \E D : Sixteen(HexDigits, D)
<1>1. \A d : Sixteen(d, {d[k] : k \in 1..16})
  BY DEF Sixteen
<1> QED BY <1>1

----------------------------------------------------------------------------
(* A member in a file. *)

\* The numbers of its header, in the order of the format.
Fields(name, mode, body) == [mode |-> mode, namesize |-> Len(name) + 1, filesize |-> Len(body)]
Header(format, name, mode, body, digits) ==
  [i \in 1..3 |-> Number(Encode(format, Order(format)[i],
                                Fields(name, mode, body)[Order(format)[i]], digits))]
Mark(format) == <<Magic(format)>>
Chars(name) == [i \in DOMAIN name |-> Char(name[i])]
Seven(a, b, c, d, e, f, g) == a \o b \o c \o d \o e \o f \o g
Five(c, d, e, f, g) == c \o (d \o (e \o (f \o g)))
Three(a, b, t) == a \o (b \o t)
\* What is read back of a number.
Size(format, field, val, digits) == Decode(format, Encode(format, field, val, digits))
Pad(format, name, digits) == Zeros(NamePadding(format, Size(format, "namesize", Len(name) + 1, digits)))
PadBehind(format, body, digits) == Zeros(Missing(format, Size(format, "filesize", Len(body), digits)))

LEMMA ZerosAre ==
  ASSUME NEW n \in Nat, NEW raw
  PROVE  Zeros(n) \in Seq({Char(NUL)}) /\ Len(Zeros(n)) = n /\ Cells(raw, Zeros(n))
<1>1. Zeros(n) \in Seq({Char(NUL)}) /\ Len(Zeros(n)) = n
  BY DEF Zeros
<1> QED BY <1>1, PlainCells DEF Cells


----------------------------------------------------------------------------
(* Reading a file. *)

FieldNames == {"mode", "namesize", "filesize"}
Place(format, f) == SelectInSeq(Order(format), LAMBDA g : g = f)
Field(file1, pos, f) ==
  LET at == pos + Place(file1[pos].magic, f)
  IN Decode(file1[pos].magic, IF at <= Len(file1) /\ "number" \in DOMAIN file1[at]
                              THEN file1[at].number ELSE <<>>)

LEMMA PlaceIs ==
  ASSUME NEW format \in Formats, NEW f \in FieldNames
  PROVE  Place(format, f) \in 1..3 /\ Order(format)[Place(format, f)] = f
<1> DEFINE order == Order(format)
           I == {i \in 1..Len(order) : order[i] = f}
<1>1. Place(format, f) = IF I # {} THEN Min(I) ELSE 0
  BY DEF Place, SelectInSeq
<1>2. Len(order) = 3 /\ \E i \in 1..3 : order[i] = f
  <2>1. CASE order = <<"mode", "namesize", "filesize">>
    BY <2>1 DEF FieldNames
  <2>2. CASE order = <<"mode", "filesize", "namesize">>
    BY <2>2 DEF FieldNames
  <2> QED BY <2>1, <2>2 DEF Order
<1>3. I \subseteq Nat /\ I # {} /\ \A i \in I : i \in 1..3 /\ order[i] = f
  BY <1>2
<1> HIDE DEF I
<1>4. Min(I) \in I
  BY <1>3, LeastNumber DEF Min
<1> QED BY <1>1, <1>3, <1>4

LEMMA FieldIsNat ==
  ASSUME NEW raw, NEW f1, Cells(raw, f1), NEW pos \in Nat \ {0}, Starts(f1, pos), NEW f \in FieldNames
  PROVE  /\ Field(f1, pos, f) \in Nat
         /\ f1[pos].magic \in Formats /\ (f1[pos].magic = "bin" <=> raw)
<1> DEFINE format == f1[pos].magic
           at == pos + Place(format, f)
           d == IF at <= Len(f1) /\ "number" \in DOMAIN f1[at] THEN f1[at].number ELSE <<>>
<1>1. Len(f1) \in Nat /\ \A i \in 1..Len(f1) : CellOK(raw, f1[i])
  BY CellsIn
<1>2. pos \in 1..Len(f1) /\ "magic" \in DOMAIN f1[pos]
  BY <1>1 DEF Starts
<1>3. format \in Formats /\ (format = "bin" <=> raw)
  BY <1>1, <1>2 DEF CellOK
<1>4. at \in Nat /\ at >= 1
  <2> HIDE DEF format
  <2>1. Place(format, f) \in 1..3
    BY <1>3, PlaceIs
  <2> QED BY <2>1
<1> HIDE DEF at
<1>5. IF format = "bin" THEN d \in Seq(Nat) ELSE IsSeq(d)
  <2>1. CASE at <= Len(f1) /\ "number" \in DOMAIN f1[at]
    <3>1. CellOK(raw, f1[at]) /\ d = f1[at].number
      BY <1>1, <1>4, <2>1
    <3> HIDE DEF format, d
    <3> QED BY <1>3, <2>1, <3>1 DEF CellOK, IsSeq
  <2>2. CASE ~(at <= Len(f1) /\ "number" \in DOMAIN f1[at])
    <3>1. d = <<>>
      BY <2>2
    <3> HIDE DEF format, d
    <3>2. d \in Seq(Nat)
      BY <3>1
    <3>3. IsSeq(d)
      BY <3>2 DEF IsSeq
    <3> QED BY <3>2, <3>3
  <2> QED BY <2>1, <2>2
<1>6. Field(f1, pos, f) = Decode(format, d)
  BY DEF Field, at
<1> HIDE DEF format, d
<1>7. Decode(format, d) \in Nat
  BY <1>3, <1>5, DecodeIsNat
<1> QED BY <1>3, <1>6, <1>7 DEF format

LEMMA ReadIs ==
  ASSUME NEW raw, NEW f1, Cells(raw, f1), NEW pos \in Nat \ {0}, NEW n \in Nat
  PROVE  Cells(raw, Read(f1, pos, n)) /\ Len(Read(f1, pos, n)) = n
<1> DEFINE S == ToSet(f1) \cup {Junk}
           r == Read(f1, pos, n)
<1>1. Len(f1) \in Nat /\ DOMAIN f1 = 1..Len(f1) /\ \A c \in ToSet(f1) : CellOK(raw, c)
  BY CellsIn
<1>2. \A c \in S : CellOK(raw, c)
  BY <1>1, PlainCells
<1>3. ASSUME NEW i \in 1..n
      PROVE  (IF pos + i - 1 <= Len(f1) THEN f1[pos + i - 1] ELSE Junk) \in S
  <2>1. pos + i - 1 <= Len(f1) => pos + i - 1 \in 1..Len(f1)
    BY <1>1
  <2>2. \A k \in 1..Len(f1) : f1[k] \in S
    BY <1>1 DEF ToSet
  <2> HIDE DEF S
  <2>3. Junk \in S
    BY DEF S
  <2> QED BY <2>1, <2>2, <2>3
<1> HIDE DEF S
<1>4. r \in Seq(S) /\ Len(r) = n
  BY <1>3 DEF Read
<1> QED BY <1>2, <1>4 DEF Cells

LEMMA CharactersAre ==
  ASSUME NEW raw, NEW cells, Cells(raw, cells)
  PROVE  IsSeq(Characters(cells)) /\ Len(Characters(cells)) = Len(cells)
<1> DEFINE t == Characters(cells)
           e(i) == IF "char" \in DOMAIN cells[i] THEN cells[i].char ELSE "junk"
           S == {e(i) : i \in 1..Len(cells)}
<1>1. Len(cells) \in Nat /\ DOMAIN cells = 1..Len(cells)
  BY CellsIn
<1>2. t = [i \in 1..Len(cells) |-> e(i)]
  BY <1>1 DEF Characters
<1>3. \A i \in 1..Len(cells) : e(i) \in S
  OBVIOUS
<1> HIDE DEF e, S
<1>4. t \in Seq(S) /\ Len(t) = Len(cells)
  BY <1>1, <1>2, <1>3
<1> QED BY <1>4 DEF IsSeq

\* What is read of a member.
LEMMA ParseIs ==
  \A f1, pos :
    LET format == f1[pos].magic
        start == pos + 4
        namesize == Field(f1, pos, "namesize")
        filesize == Field(f1, pos, "filesize")
        body == start + namesize + NamePadding(format, namesize)
    IN Parse(f1, pos) = [name |-> Characters(Read(f1, start, namesize)),
                         mode |-> Field(f1, pos, "mode"), body |-> Read(f1, body, filesize),
                         next |-> body + filesize + Missing(format, filesize)]
BY DEF Parse, Field, Place

MemberOK(raw, m) == IsSeq(m.name) /\ m.mode \in Nat /\ Cells(raw, m.body)

LEMMA ParseOK ==
  ASSUME NEW raw, NEW f1, Cells(raw, f1), NEW pos \in Nat \ {0}, Starts(f1, pos)
  PROVE  /\ MemberOK(raw, Parse(f1, pos))
         /\ Parse(f1, pos).next \in Nat \ {0} /\ Parse(f1, pos).next > pos
<1> DEFINE format == f1[pos].magic
           start == pos + 4
           namesize == Field(f1, pos, "namesize")
           filesize == Field(f1, pos, "filesize")
           body == start + namesize + NamePadding(format, namesize)
           p == Parse(f1, pos)
<1>1. p = [name |-> Characters(Read(f1, start, namesize)),
           mode |-> Field(f1, pos, "mode"), body |-> Read(f1, body, filesize),
           next |-> body + filesize + Missing(format, filesize)]
  BY ParseIs
<1>2. format \in Formats /\ namesize \in Nat /\ filesize \in Nat /\ Field(f1, pos, "mode") \in Nat
  <2>1. "mode" \in FieldNames /\ "namesize" \in FieldNames /\ "filesize" \in FieldNames
    BY DEF FieldNames
  <2> QED BY <2>1, FieldIsNat
<1> HIDE DEF namesize, filesize, format
<1>3. NamePadding(format, namesize) \in Nat /\ Missing(format, filesize) \in Nat
  BY <1>2, FormatFacts
<1>4. start \in Nat \ {0} /\ body \in Nat \ {0} /\ body > pos
  BY <1>2, <1>3
<1> HIDE DEF start, body
<1>5. /\ p.name = Characters(Read(f1, start, namesize)) /\ p.mode = Field(f1, pos, "mode")
      /\ p.body = Read(f1, body, filesize) /\ p.next = body + filesize + Missing(format, filesize)
  BY <1>1
<1> HIDE DEF p
<1>6. IsSeq(p.name)
  BY <1>2, <1>4, <1>5, ReadIs, CharactersAre
<1>7. Cells(raw, p.body)
  BY <1>2, <1>4, <1>5, ReadIs
<1>8. p.next \in Nat \ {0} /\ p.next > pos
  BY <1>2, <1>3, <1>4, <1>5
<1> QED BY <1>2, <1>5, <1>6, <1>7, <1>8 DEF p, MemberOK


\* The members that start anywhere in a file, and what open() may have read of it.
Parsed(f1) == {Parse(f1, p) : p \in {q \in Nat \ {0} : Starts(f1, q)}}
States(f1) == [pos : Nat \ {0}, members : Seq(Parsed(f1)), okay : BOOLEAN]

LEMMA ReadMemberStays ==
  ASSUME NEW raw, NEW f1, Cells(raw, f1), NEW st \in States(f1)
  PROVE  ReadMember(f1, st) \in States(f1)
<1>1. st.pos \in Nat \ {0} /\ st.members \in Seq(Parsed(f1)) /\ st.okay \in BOOLEAN
      /\ st = [pos |-> st.pos, members |-> st.members, okay |-> st.okay]
  BY DEF States
<1>2. CASE ~st.okay
  BY <1>2 DEF ReadMember
<1>3. CASE st.okay /\ (~Starts(f1, st.pos) \/ Ends(Parse(f1, st.pos)))
  <2>1. ReadMember(f1, st) = [st EXCEPT !.okay = FALSE]
    BY <1>3 DEF ReadMember
  <2> QED BY <2>1 DEF States
<1>4. CASE st.okay /\ Starts(f1, st.pos) /\ ~Ends(Parse(f1, st.pos))
  <2> DEFINE p == Parse(f1, st.pos)
  <2>1. ReadMember(f1, st) = Put(st, p)
    BY <1>4 DEF ReadMember
  <2>2. p \in Parsed(f1) /\ p.next \in Nat \ {0}
    BY <1>1, <1>4, ParseOK DEF Parsed
  <2> HIDE DEF p
  <2>3. Put(st, p) = [pos |-> p.next, members |-> Append(st.members, p), okay |-> st.okay]
    <3>1. ASSUME NEW a, NEW b, NEW c, st = [pos |-> a, members |-> b, okay |-> c]
          PROVE  Put(st, p) = [pos |-> p.next, members |-> Append(b, p), okay |-> c]
      <4>1. st.pos = a /\ st.members = b /\ st.okay = c /\ DOMAIN st = {"pos", "members", "okay"}
        BY <3>1
      <4>2. Put(st, p) = [[pos |-> a, members |-> b, okay |-> c] EXCEPT !.pos = p.next, !.members = Append(b, p)]
        BY <3>1, <4>1 DEF Put
      <4> QED BY <3>1, <4>2
    <3> QED BY <1>1, <3>1
  <2>4. Append(st.members, p) \in Seq(Parsed(f1))
    BY <1>1, <2>2
  <2> QED BY <1>1, <2>1, <2>2, <2>3, <2>4 DEF States
<1> QED BY <1>2, <1>3, <1>4

LEMMA MostIs ==
  ASSUME NEW raw, NEW f1, Cells(raw, f1)
  PROVE  Most(f1) \in Nat /\ 4 * Most(f1) > Len(f1)
<1>1. Len(f1) \in Nat
  BY CellsIn
<1>2. \A n \in Nat : n \div 4 + 1 \in Nat /\ 4 * (n \div 4 + 1) > n
  OBVIOUS
<1> QED BY <1>1, <1>2 DEF Most

LEMMA ReadingSteps ==
  ASSUME NEW raw, NEW f1, Cells(raw, f1)
  PROVE  /\ Reading(f1)[0] = Beginning
         /\ \A k \in 0..Most(f1) : Reading(f1)[k] \in States(f1)
         /\ \A k \in 1..Most(f1) : Reading(f1)[k] = ReadMember(f1, Reading(f1)[k - 1])
<1> DEFINE S == States(f1)
           len == Most(f1)
           step == [x \in S \X (1..len) |-> ReadMember(f1, x[1])]
           Reads(f) == f = [n \in 0..len |-> IF n = 0 THEN Beginning ELSE ReadMember(f1, f[n - 1])]
           g == Reading(f1)
<1>1. Beginning \in S /\ Keeps(step, S, len) /\ len \in Nat
  <2>1. len \in Nat
    BY MostIs
  <2>2. \A s \in S : ReadMember(f1, s) \in S
    BY ReadMemberStays
  <2>3. \A x \in S \X (1..len) : ReadMember(f1, x[1]) \in S
    <3> HIDE DEF S
    <3> QED BY <2>2
  <2>4. <<>> \in Seq(Parsed(f1)) /\ 1 \in Nat \ {0} /\ TRUE \in BOOLEAN
    OBVIOUS
  <2>5. Beginning \in S
    BY <2>4 DEF Beginning, States
  <2> QED BY <2>1, <2>3, <2>5 DEF Keeps
<1>2. \A s \in S, k \in 1..len : step[<<s, k>>] = ReadMember(f1, s)
  OBVIOUS
<1> HIDE DEF len, S, step
<1>3. PICK f : Follows(f, step, S, Beginning, len)
  BY <1>1, Recursion
<1>4. Reads(f)
  <2>1. ASSUME NEW k \in 1..len PROVE f[k] = ReadMember(f1, f[k - 1])
    <3>1. f[k - 1] \in S
      BY <1>1, <1>3 DEF Follows
    <3> QED BY <1>2, <1>3, <3>1 DEF Follows
  <2> QED BY <1>3, <2>1 DEF Follows
<1>5. Reads(g)
  <2>1. \E h : Reads(h)
    <3> HIDE DEF Reads
    <3> QED BY <1>4
  <2> QED BY <2>1 DEF Reading, len
<1> HIDE DEF g
<1>6. /\ g = [k \in 0..len |-> g[k]] /\ g[0] = Beginning
      /\ \A k \in 1..len : g[k] = ReadMember(f1, g[k - 1])
  <2>1. g = [k \in 0..len |-> g[k]]
    BY <1>5
  <2>2. g[0] = Beginning
    BY <1>1, <1>5
  <2>3. ASSUME NEW k \in 1..len PROVE g[k] = ReadMember(f1, g[k - 1])
    BY <1>1, <1>5
  <2> QED BY <2>1, <2>2, <2>3
<1>7. Follows(g, step, S, Beginning, len)
  <2>1. \A k \in 1..len : g[k - 1] \in S => g[k] = step[<<g[k - 1], k>>]
    BY <1>2, <1>6
  <2> QED BY <1>1, <1>6, <2>1, Determined
<1>8. \A k \in 0..len : g[k] \in S
  BY <1>7 DEF Follows
<1> QED BY <1>6, <1>8 DEF S, len, g

LEMMA MembersOK ==
  ASSUME NEW raw, NEW f1, Cells(raw, f1)
  PROVE  /\ Members(f1) \in Seq(Parsed(f1))
         /\ \A m \in Parsed(f1) : MemberOK(raw, m)
<1>1. Most(f1) \in 0..Most(f1)
  BY MostIs
<1>2. Reading(f1)[Most(f1)] \in States(f1)
  BY <1>1, ReadingSteps
<1>3. Members(f1) \in Seq(Parsed(f1))
  BY <1>2 DEF Members, States
<1>4. \A m \in Parsed(f1) : MemberOK(raw, m)
  BY ParseOK DEF Parsed
<1> QED BY <1>3, <1>4

----------------------------------------------------------------------------
(* Writing a file. *)

\* A member in a file, part by part.
LEMMA LayoutIs ==
  ASSUME NEW format \in Formats, NEW name, NEW mode, NEW body, NEW digits
  PROVE  Layout(format, name, mode, body, digits)
           = Seven(Mark(format), Header(format, name, mode, body, digits), Chars(name), Zeros(1),
                   Pad(format, name, digits), body, PadBehind(format, body, digits))
<1> DEFINE number == Fields(name, mode, body)
           written == [f \in DOMAIN number |-> Encode(format, f, number[f], digits)]
           hdr == [i \in 1..3 |-> Number(written[Order(format)[i]])]
           chars == [i \in DOMAIN name |-> Char(name[i])]
           n == Decode(format, written["namesize"])
           m == Decode(format, written["filesize"])
<1>1. Layout(format, name, mode, body, digits)
        = <<Magic(format)>> \o hdr \o chars \o Zeros(1) \o Zeros(NamePadding(format, n))
          \o body \o Zeros(Missing(format, m))
  BY DEF Layout, Fields
<1>2. /\ \A f \in FieldNames : written[f] = Encode(format, f, number[f], digits)
      /\ number["namesize"] = Len(name) + 1 /\ number["filesize"] = Len(body)
  BY DEF Fields, FieldNames
<1>3. \A i \in 1..3 : Order(format)[i] \in FieldNames
  <2>1. CASE Order(format) = <<"mode", "namesize", "filesize">>
    BY <2>1 DEF FieldNames
  <2>2. CASE Order(format) = <<"mode", "filesize", "namesize">>
    BY <2>2 DEF FieldNames
  <2> QED BY <2>1, <2>2 DEF Order
<1>4. "namesize" \in FieldNames /\ "filesize" \in FieldNames
  BY DEF FieldNames
<1> HIDE DEF written, number
<1>5. hdr = Header(format, name, mode, body, digits)
  BY <1>2, <1>3 DEF Header, number
<1>6. Zeros(NamePadding(format, n)) = Pad(format, name, digits)
  BY <1>2, <1>4 DEF Pad, Size
<1>7. Zeros(Missing(format, m)) = PadBehind(format, body, digits)
  BY <1>2, <1>4 DEF PadBehind, Size
<1> HIDE DEF hdr, chars, n, m
<1> QED BY <1>1, <1>5, <1>6, <1>7 DEF chars, Mark, Chars, Seven


LEMMA JoinAny ==
  ASSUME NEW a, IsSeq(a), NEW b, IsSeq(b)
  PROVE  /\ IsSeq(a \o b) /\ Len(a) \in Nat /\ Len(b) \in Nat /\ Len(a \o b) = Len(a) + Len(b)
         /\ \A c : IsSeq(c) => (a \o b) \o c = a \o (b \o c)
<1>1. PICK S : a \in Seq(S)
  BY DEF IsSeq
<1>2. PICK T : b \in Seq(T)
  BY DEF IsSeq
<1>3. ASSUME NEW c, IsSeq(c) PROVE (a \o b) \o c = a \o (b \o c)
  <2>1. PICK U : c \in Seq(U)
    BY <1>3 DEF IsSeq
  <2> DEFINE V == S \cup T \cup U
  <2>2. a \in Seq(V) /\ b \in Seq(V) /\ c \in Seq(V)
    BY <1>1, <1>2, <2>1
  <2> HIDE DEF V
  <2> QED BY <2>2, ConcatAssociative
<1> DEFINE R == S \cup T
<1>4. a \in Seq(R) /\ b \in Seq(R)
  BY <1>1, <1>2
<1> HIDE DEF R
<1>5. a \o b \in Seq(R) /\ Len(a) \in Nat /\ Len(b) \in Nat /\ Len(a \o b) = Len(a) + Len(b)
  BY <1>4
<1>6. IsSeq(a \o b)
  BY <1>5 DEF IsSeq
<1> QED BY <1>3, <1>5, <1>6

\* The parts of a member are cells, and what is read of its numbers are numbers.
LEMMA PartsOK ==
  ASSUME NEW format \in Formats, NEW raw, format = "bin" <=> raw, NEW name, IsSeq(name),
         NEW mode \in Nat, NEW body, Cells(raw, body), NEW D, NEW digits, Sixteen(digits, D)
  PROVE  /\ Cells(raw, Mark(format)) /\ Len(Mark(format)) = 1
         /\ Cells(raw, Header(format, name, mode, body, digits))
         /\ Len(Header(format, name, mode, body, digits)) = 3
         /\ Cells(raw, Chars(name)) /\ Len(Chars(name)) = Len(name)
         /\ Cells(raw, Pad(format, name, digits))
         /\ Len(Pad(format, name, digits))
              = NamePadding(format, Size(format, "namesize", Len(name) + 1, digits))
         /\ Cells(raw, PadBehind(format, body, digits))
         /\ Len(PadBehind(format, body, digits))
              = Missing(format, Size(format, "filesize", Len(body), digits))
<1>1. PICK N : name \in Seq(N)
  BY DEF IsSeq
<1>2. Len(name) \in Nat /\ DOMAIN name = 1..Len(name) /\ Len(body) \in Nat
  BY <1>1, CellsIn
<1>3. ASSUME NEW f, NEW val \in Nat PROVE Size(format, f, val, digits) \in Nat
  BY DecodeIsNat, EncodeIsNumber DEF Size
<1>4. Cells(raw, Mark(format)) /\ Len(Mark(format)) = 1
  <2> DEFINE c == Magic(format)
  <2>1. CellOK(raw, c)
    BY DEF CellOK, Magic
  <2> HIDE DEF c
  <2>2. <<c>> \in Seq({c}) /\ Len(<<c>>) = 1
    OBVIOUS
  <2> QED BY <2>1, <2>2 DEF Cells, c, Mark
<1>5. /\ Cells(raw, Header(format, name, mode, body, digits))
      /\ Len(Header(format, name, mode, body, digits)) = 3
  <2> DEFINE fields == Fields(name, mode, body)
             e(i) == Number(Encode(format, Order(format)[i], fields[Order(format)[i]], digits))
             S == {e(i) : i \in 1..3}
             h == Header(format, name, mode, body, digits)
  <2>1. ASSUME NEW i \in 1..3 PROVE CellOK(raw, e(i))
    <3> DEFINE f == Order(format)[i]
               d == Encode(format, f, fields[f], digits)
    <3>1. f \in FieldNames
      <4>1. CASE Order(format) = <<"mode", "namesize", "filesize">>
        BY <4>1 DEF FieldNames
      <4>2. CASE Order(format) = <<"mode", "filesize", "namesize">>
        BY <4>2 DEF FieldNames
      <4> QED BY <4>1, <4>2 DEF Order
    <3>2. fields[f] \in Nat
      <4> HIDE DEF f
      <4>1. Len(name) + 1 \in Nat
        BY <1>2
      <4> QED BY <1>2, <3>1, <4>1 DEF Fields, FieldNames
    <3>3. IF format = "bin" THEN d \in Seq(Nat) ELSE IsSeq(d)
      <4> HIDE DEF f, fields
      <4> QED BY <3>2, EncodeIsNumber
    <3>4. e(i) = Number(d)
      OBVIOUS
    <3> HIDE DEF d
    <3>5. CellOK(raw, Number(d))
      <4>1. DOMAIN Number(d) = {"number"} /\ Number(d).number = d
        BY DEF Number
      <4>2. IF raw THEN d \in Seq(Nat) ELSE \E U : d \in Seq(U)
        BY <3>3 DEF IsSeq
      <4>3. "magic" \notin DOMAIN Number(d)
        BY <4>1
      <4> QED BY <4>1, <4>2, <4>3 DEF CellOK
    <3> QED BY <3>4, <3>5
  <2>2. h = [i \in 1..3 |-> e(i)]
    BY DEF Header
  <2>3. \A i \in 1..3 : e(i) \in S
    OBVIOUS
  <2>4. \A c \in S : CellOK(raw, c)
    BY <2>1
  <2> HIDE DEF e, S
  <2>5. h \in Seq(S) /\ Len(h) = 3
    BY <2>2, <2>3
  <2> QED BY <2>4, <2>5 DEF Cells
<1>6. Cells(raw, Chars(name)) /\ Len(Chars(name)) = Len(name)
  <2> DEFINE t == [i \in DOMAIN name |-> Char(name[i])]
             S == {Char(c) : c \in N}
  <2>1. \A i \in 1..Len(name) : Char(name[i]) \in S
    BY <1>1
  <2>2. \A c \in S : CellOK(raw, c)
    BY PlainCells
  <2> HIDE DEF S
  <2>3. t \in Seq(S) /\ Len(t) = Len(name)
    BY <1>2, <2>1
  <2> QED BY <2>2, <2>3 DEF Cells, Chars
<1>7. /\ Cells(raw, Pad(format, name, digits))
      /\ Len(Pad(format, name, digits))
           = NamePadding(format, Size(format, "namesize", Len(name) + 1, digits))
  <2>1. Len(name) + 1 \in Nat
    BY <1>2
  <2>2. Size(format, "namesize", Len(name) + 1, digits) \in Nat
    BY <1>3, <2>1
  <2>3. NamePadding(format, Size(format, "namesize", Len(name) + 1, digits)) \in Nat
    BY <2>2, FormatFacts
  <2> QED BY <2>3, ZerosAre DEF Pad
<1>8. /\ Cells(raw, PadBehind(format, body, digits))
      /\ Len(PadBehind(format, body, digits))
           = Missing(format, Size(format, "filesize", Len(body), digits))
  <2>1. Size(format, "filesize", Len(body), digits) \in Nat
    BY <1>2, <1>3
  <2>2. Missing(format, Size(format, "filesize", Len(body), digits)) \in Nat
    BY <2>1, FormatFacts
  <2> QED BY <2>2, ZerosAre DEF PadBehind
<1> QED BY <1>4, <1>5, <1>6, <1>7, <1>8


AreSeqs(a, b, c, d, e, f, g) ==
  IsSeq(a) /\ IsSeq(b) /\ IsSeq(c) /\ IsSeq(d) /\ IsSeq(e) /\ IsSeq(f) /\ IsSeq(g)

LEMMA SevenJoin ==
  ASSUME NEW a, NEW b, NEW c, NEW d, NEW e, NEW f, NEW g, AreSeqs(a, b, c, d, e, f, g)
  PROVE  /\ Seven(a, b, c, d, e, f, g) = Three(a, b, Five(c, d, e, f, g))
         /\ IsSeq(Five(c, d, e, f, g))
         /\ Len(Five(c, d, e, f, g)) = Len(c) + Len(d) + Len(e) + Len(f) + Len(g)
         /\ Len(Seven(a, b, c, d, e, f, g))
              = Len(a) + Len(b) + Len(c) + Len(d) + Len(e) + Len(f) + Len(g)
<1>1. PICK A, B, C, D, E, F, G : /\ a \in Seq(A) /\ b \in Seq(B) /\ c \in Seq(C) /\ d \in Seq(D)
                                 /\ e \in Seq(E) /\ f \in Seq(F) /\ g \in Seq(G)
  BY DEF AreSeqs, IsSeq
<1> DEFINE V == A \cup B \cup C \cup D \cup E \cup F \cup G
<1>2. /\ a \in Seq(V) /\ b \in Seq(V) /\ c \in Seq(V) /\ d \in Seq(V)
      /\ e \in Seq(V) /\ f \in Seq(V) /\ g \in Seq(V)
  BY <1>1
<1> HIDE DEF V
<1> DEFINE l2 == a \o b
           l3 == l2 \o c
           l4 == l3 \o d
           l5 == l4 \o e
           r6 == f \o g
           r5 == e \o r6
           r4 == d \o r5
           r3 == c \o r4
           r2 == b \o r3
<1>3. l2 \in Seq(V) /\ r6 \in Seq(V)
  BY <1>2
<1>4. l3 \in Seq(V) /\ r5 \in Seq(V)
  <2> HIDE DEF l2, r6
  <2> QED BY <1>2, <1>3
<1>5. l4 \in Seq(V) /\ r4 \in Seq(V)
  <2> HIDE DEF l3, r5
  <2> QED BY <1>2, <1>4
<1>6. l5 \in Seq(V) /\ r3 \in Seq(V)
  <2> HIDE DEF l4, r4
  <2> QED BY <1>2, <1>5
<1>7. r2 \in Seq(V)
  <2> HIDE DEF r3
  <2> QED BY <1>2, <1>6
<1>8. (l5 \o f) \o g = l5 \o r6
  <2>1. l5 \in Seq(V) /\ f \in Seq(V) /\ g \in Seq(V)
    BY <1>2, <1>6
  <2> HIDE DEF l2, l3, l4, l5, r2, r3, r4, r5, r6
  <2>2. (l5 \o f) \o g = l5 \o (f \o g)
    BY <2>1, ConcatAssociative
  <2> QED BY <2>2 DEF r6
<1>9. (l4 \o e) \o r6 = l4 \o r5
  <2>1. l4 \in Seq(V) /\ e \in Seq(V) /\ r6 \in Seq(V)
    BY <1>2, <1>3, <1>5
  <2> HIDE DEF l2, l3, l4, l5, r2, r3, r4, r5, r6
  <2>2. (l4 \o e) \o r6 = l4 \o (e \o r6)
    BY <2>1, ConcatAssociative
  <2> QED BY <2>2 DEF r5
<1>10. (l3 \o d) \o r5 = l3 \o r4
  <2>1. l3 \in Seq(V) /\ d \in Seq(V) /\ r5 \in Seq(V)
    BY <1>2, <1>4
  <2> HIDE DEF l2, l3, l4, l5, r2, r3, r4, r5, r6
  <2>2. (l3 \o d) \o r5 = l3 \o (d \o r5)
    BY <2>1, ConcatAssociative
  <2> QED BY <2>2 DEF r4
<1>11. (l2 \o c) \o r4 = l2 \o r3
  <2>1. l2 \in Seq(V) /\ c \in Seq(V) /\ r4 \in Seq(V)
    BY <1>2, <1>3, <1>5
  <2> HIDE DEF l2, l3, l4, l5, r2, r3, r4, r5, r6
  <2>2. (l2 \o c) \o r4 = l2 \o (c \o r4)
    BY <2>1, ConcatAssociative
  <2> QED BY <2>2 DEF r3
<1>12. (a \o b) \o r3 = a \o r2
  <2>1. a \in Seq(V) /\ b \in Seq(V) /\ r3 \in Seq(V)
    BY <1>2, <1>6
  <2> HIDE DEF l2, l3, l4, l5, r2, r3, r4, r5, r6
  <2>2. (a \o b) \o r3 = a \o (b \o r3)
    BY <2>1, ConcatAssociative
  <2> QED BY <2>2 DEF r2
<1>13. (l5 \o f) \o g = a \o r2
  <2>1. l5 = l4 \o e /\ l4 = l3 \o d /\ l3 = l2 \o c /\ l2 = a \o b
    OBVIOUS
  <2> HIDE DEF l2, l3, l4, l5, r2, r3, r4, r5, r6
  <2> QED BY <1>8, <1>9, <1>10, <1>11, <1>12, <2>1
<1>14. IsSeq(r3)
  <2> HIDE DEF r3
  <2> QED BY <1>6 DEF IsSeq
<1>15. Seven(a, b, c, d, e, f, g) = (l5 \o f) \o g /\ Five(c, d, e, f, g) = r3
  BY DEF Seven, Five
<1>16. Three(a, b, r3) = a \o r2
  BY DEF Three
<1>17. Len(r3) = Len(c) + Len(d) + Len(e) + Len(f) + Len(g)
  <2>1. Len(r6) = Len(f) + Len(g) /\ Len(f) \in Nat /\ Len(g) \in Nat
    BY <1>2
  <2>2. Len(r5) = Len(e) + Len(r6) /\ Len(e) \in Nat
    <3> HIDE DEF r6
    <3> QED BY <1>2, <1>3
  <2>3. Len(r4) = Len(d) + Len(r5) /\ Len(d) \in Nat
    <3> HIDE DEF r5
    <3> QED BY <1>2, <1>4
  <2>4. Len(r3) = Len(c) + Len(r4) /\ Len(c) \in Nat
    <3> HIDE DEF r4
    <3> QED BY <1>2, <1>5
  <2> HIDE DEF r3, r4, r5, r6
  <2> QED BY <2>1, <2>2, <2>3, <2>4
<1>18. Len(a \o r2) = Len(a) + Len(b) + Len(r3)
  <2>1. Len(r2) = Len(b) + Len(r3) /\ Len(b) \in Nat /\ Len(r3) \in Nat
    <3> HIDE DEF r3
    <3> QED BY <1>2, <1>6
  <2>2. Len(a \o r2) = Len(a) + Len(r2) /\ Len(a) \in Nat
    <3> HIDE DEF r2
    <3> QED BY <1>2, <1>7
  <2> HIDE DEF r2, r3
  <2> QED BY <2>1, <2>2
<1>19. Len(c) \in Nat /\ Len(d) \in Nat /\ Len(e) \in Nat /\ Len(f) \in Nat /\ Len(g) \in Nat
       /\ Len(a) \in Nat /\ Len(b) \in Nat
  BY <1>2
<1> HIDE DEF l2, l3, l4, l5, r2, r3, r4, r5, r6
<1> QED BY <1>13, <1>14, <1>15, <1>16, <1>17, <1>18, <1>19

\* A member in a file from its name on.
Behind(format, name, body, digits) ==
  Five(Chars(name), Zeros(1), Pad(format, name, digits), body, PadBehind(format, body, digits))

LEMMA LayoutParts ==
  ASSUME NEW format \in Formats, NEW raw, format = "bin" <=> raw, NEW name, IsSeq(name),
         NEW mode \in Nat, NEW body, Cells(raw, body), NEW D, NEW digits, Sixteen(digits, D)
  PROVE  /\ Layout(format, name, mode, body, digits)
              = Three(Mark(format), Header(format, name, mode, body, digits),
                      Behind(format, name, body, digits))
         /\ IsSeq(Behind(format, name, body, digits))
         /\ Cells(raw, Layout(format, name, mode, body, digits))
         /\ Len(Layout(format, name, mode, body, digits))
              = 5 + Len(name) + NamePadding(format, Size(format, "namesize", Len(name) + 1, digits))
                  + Len(body) + Missing(format, Size(format, "filesize", Len(body), digits))
<1> DEFINE a == Mark(format)
           b == Header(format, name, mode, body, digits)
           c == Chars(name)
           d == Zeros(1)
           e == Pad(format, name, digits)
           g == PadBehind(format, body, digits)
           l == Layout(format, name, mode, body, digits)
           np == NamePadding(format, Size(format, "namesize", Len(name) + 1, digits))
           bp == Missing(format, Size(format, "filesize", Len(body), digits))
<1>1. /\ Cells(raw, a) /\ Len(a) = 1 /\ Cells(raw, b) /\ Len(b) = 3
      /\ Cells(raw, c) /\ Len(c) = Len(name) /\ Cells(raw, e) /\ Cells(raw, g)
      /\ Len(e) = np /\ Len(g) = bp
  <2>1. Cells(raw, a) /\ Len(a) = 1
    BY PartsOK
  <2>2. Cells(raw, b) /\ Len(b) = 3
    BY PartsOK
  <2>3. Cells(raw, c) /\ Len(c) = Len(name)
    BY PartsOK
  <2>4. Cells(raw, e) /\ Len(e) = np
    BY PartsOK
  <2>5. Cells(raw, g) /\ Len(g) = bp
    BY PartsOK
  <2> HIDE DEF a, b, c, d, e, g, np, bp
  <2> QED BY <2>1, <2>2, <2>3, <2>4, <2>5
<1>2. Cells(raw, d) /\ Len(d) = 1
  BY ZerosAre
<1>3. l = Seven(a, b, c, d, e, body, g)
  BY LayoutIs
<1>4. Behind(format, name, body, digits) = Five(c, d, e, body, g)
  BY DEF Behind
<1> HIDE DEF a, b, c, d, e, g, l, np, bp
<1>5. IsSeq(a) /\ IsSeq(b) /\ IsSeq(c) /\ IsSeq(d) /\ IsSeq(e) /\ IsSeq(body) /\ IsSeq(g)
  BY <1>1, <1>2, CellsIn
<1>6. /\ l = Three(a, b, Five(c, d, e, body, g)) /\ IsSeq(Five(c, d, e, body, g))
      /\ Len(l) = Len(a) + Len(b) + Len(c) + Len(d) + Len(e) + Len(body) + Len(g)
  <2>1. AreSeqs(a, b, c, d, e, body, g)
    BY <1>5 DEF AreSeqs
  <2> QED BY <1>3, <2>1, SevenJoin
<1>7. Cells(raw, l)
  <2>1. Cells(raw, a \o b)
    BY <1>1, CellsJoin
  <2>2. Cells(raw, a \o b \o c)
    BY <1>1, <2>1, CellsJoin
  <2>3. Cells(raw, a \o b \o c \o d)
    BY <1>2, <2>2, CellsJoin
  <2>4. Cells(raw, a \o b \o c \o d \o e)
    BY <1>1, <2>3, CellsJoin
  <2>5. Cells(raw, a \o b \o c \o d \o e \o body)
    BY <2>4, CellsJoin
  <2>6. Cells(raw, a \o b \o c \o d \o e \o body \o g)
    BY <1>1, <2>5, CellsJoin
  <2> QED BY <1>3, <2>6 DEF Seven
<1>8. Len(l) = 5 + Len(name) + np + Len(body) + bp
  <2>1. Len(name) \in Nat /\ Len(body) \in Nat /\ np \in Nat /\ bp \in Nat
    BY <1>1, <1>5 DEF IsSeq
  <2> QED BY <1>1, <1>2, <1>6, <2>1
<1> QED BY <1>4, <1>6, <1>7, <1>8 DEF a, b, l, np, bp


LEMMA MarkFirst ==
  ASSUME NEW format, NEW b, IsSeq(b), NEW t, IsSeq(t)
  PROVE  Len(Three(Mark(format), b, t)) # 0 /\ Three(Mark(format), b, t)[1] = Magic(format)
<1> DEFINE m == Magic(format)
<1>1. PICK S : b \in Seq(S)
  BY DEF IsSeq
<1>2. PICK T : t \in Seq(T)
  BY DEF IsSeq
<1> DEFINE R == S \cup T \cup {m}
<1>3. b \in Seq(R) /\ t \in Seq(R) /\ m \in R
  BY <1>1, <1>2
<1> HIDE DEF R, m
<1> DEFINE u == b \o t
<1>4. u \in Seq(R)
  BY <1>3
<1> HIDE DEF u
<1>5. Len(<<m>> \o u) # 0 /\ (<<m>> \o u)[1] = m
  BY <1>3, <1>4
<1> QED BY <1>5 DEF Three, Mark, m, u

\* The members of an archive, and what is made of them.
Piece(format, m) == Layout(format, m.name, m.mode, m.body, Digits)
Pieces(raw, members) == IsSeq(members) /\ \A i \in 1..Len(members) : MemberOK(raw, members[i])

LEMMA PieceOK ==
  ASSUME NEW format \in Formats, NEW raw, format = "bin" <=> raw, NEW m, MemberOK(raw, m)
  PROVE  Cells(raw, Piece(format, m))
<1> DEFINE ds == Digits
<1>1. PICK D : Sixteen(ds, D)
  BY DigitsAreSixteen
<1> HIDE DEF ds
<1>2. Cells(raw, Layout(format, m.name, m.mode, m.body, ds))
  BY <1>1, LayoutParts DEF MemberOK
<1> QED BY <1>2 DEF Piece, ds

\* The file is longer by the next member.
Grown(format, members, k) ==
  Packed(format, members)[k] = Packed(format, members)[k - 1] \o Piece(format, members[k])

LEMMA PackedSteps ==
  ASSUME NEW format \in Formats, NEW raw, format = "bin" <=> raw,
         NEW members, Pieces(raw, members)
  PROVE  /\ Packed(format, members)[0] = <<>>
         /\ \A k \in 0..Len(members) : Cells(raw, Packed(format, members)[k])
         /\ \A k \in 1..Len(members) : Grown(format, members, k)
<1> DEFINE len == Len(members)
           T == UNION {ToSet(Piece(format, members[i])) : i \in 1..len}
           S == Seq(T)
           step == [x \in S \X (1..len) |-> Pack(format, x[1], members[x[2]])]
           Reads(f) == f = [n \in 0..len |-> IF n = 0 THEN <<>> ELSE Pack(format, f[n - 1], members[n])]
           g == Packed(format, members)
<1>1. <<>> \in S /\ Keeps(step, S, len) /\ len \in Nat
  <2>1. len \in Nat
    BY DEF Pieces, IsSeq
  <2>2. ASSUME NEW s \in S, NEW k \in 1..len PROVE Pack(format, s, members[k]) \in S
    <3> DEFINE t == Piece(format, members[k])
    <3>1. Cells(raw, t)
      BY PieceOK DEF Pieces
    <3>2. ToSet(t) \subseteq T
      <4> HIDE DEF t
      <4> QED BY DEF t
    <3>3. Pack(format, s, members[k]) = s \o t
      BY DEF Pack, Piece
    <3> HIDE DEF t, T
    <3>4. t \in Seq(ToSet(t))
      BY <3>1, CellsIn
    <3>5. t \in Seq(T)
      BY <3>2, <3>4
    <3>6. s \o t \in Seq(T)
      BY <3>5
    <3> QED BY <3>3, <3>6
  <2>3. \A x \in S \X (1..len) : Pack(format, x[1], members[x[2]]) \in S
    <3> HIDE DEF S
    <3> QED BY <2>2
  <2>4. <<>> \in S
    OBVIOUS
  <2> QED BY <2>1, <2>3, <2>4 DEF Keeps
<1>2. \A s \in S, k \in 1..len : step[<<s, k>>] = Pack(format, s, members[k])
  OBVIOUS
<1> HIDE DEF len, S, step
<1>3. PICK f : Follows(f, step, S, <<>>, len)
  BY <1>1, Recursion
<1>4. Reads(f)
  <2>1. ASSUME NEW k \in 1..len PROVE f[k] = Pack(format, f[k - 1], members[k])
    <3>1. f[k - 1] \in S
      BY <1>1, <1>3 DEF Follows
    <3> QED BY <1>2, <1>3, <3>1 DEF Follows
  <2> QED BY <1>3, <2>1 DEF Follows
<1>5. Reads(g)
  <2>1. \E h : Reads(h)
    <3> HIDE DEF Reads
    <3> QED BY <1>4
  <2> QED BY <2>1 DEF Packed, len
<1> HIDE DEF g
<1>6. /\ g = [k \in 0..len |-> g[k]] /\ g[0] = <<>>
      /\ \A k \in 1..len : g[k] = Pack(format, g[k - 1], members[k])
  <2>1. g = [k \in 0..len |-> g[k]]
    BY <1>5
  <2>2. g[0] = <<>>
    BY <1>1, <1>5
  <2>3. ASSUME NEW k \in 1..len PROVE g[k] = Pack(format, g[k - 1], members[k])
    BY <1>1, <1>5
  <2> QED BY <2>1, <2>2, <2>3
<1>7. Follows(g, step, S, <<>>, len)
  <2>1. \A k \in 1..len : g[k - 1] \in S => g[k] = step[<<g[k - 1], k>>]
    BY <1>2, <1>6
  <2> QED BY <1>1, <1>6, <2>1, Determined
<1>8. \A k \in 0..len : g[k] \in Seq(T)
  BY <1>7 DEF Follows, S
<1>9. \A c \in T : CellOK(raw, c)
  <2>1. ASSUME NEW i \in 1..len, NEW c \in ToSet(Piece(format, members[i])) PROVE CellOK(raw, c)
    <3>1. Cells(raw, Piece(format, members[i]))
      BY PieceOK DEF Pieces, len
    <3> QED BY <3>1, CellsIn
  <2> QED BY <2>1
<1> HIDE DEF T
<1>10. \A k \in 0..len : Cells(raw, g[k])
  BY <1>8, <1>9 DEF Cells
<1>11. \A k \in 1..len : Pack(format, g[k - 1], members[k]) = g[k - 1] \o Piece(format, members[k])
  BY DEF Pack, Piece
<1>12. \A k \in 1..len : Grown(format, members, k)
  BY <1>6, <1>11 DEF Grown, g
<1> QED BY <1>6, <1>10, <1>12 DEF len, g

Trailer(format, digits) == Layout(format, <<C_TRAILER>>, 0, <<>>, digits)

LEMMA NothingIs ==
  \A raw : Cells(raw, <<>>) /\ MemberOK(raw, [name |-> <<C_TRAILER>>, mode |-> 0, body |-> <<>>])
<1> TAKE raw
<1>1. Cells(raw, <<>>)
  <2> DEFINE none == {}
             empty == <<>>
  <2>1. empty \in Seq(none) /\ \A c \in none : CellOK(raw, c)
    OBVIOUS
  <2> HIDE DEF none, empty
  <2>2. Cells(raw, empty)
    BY <2>1 DEF Cells
  <2> QED BY <2>2 DEF empty
<1>2. IsSeq(<<C_TRAILER>>)
  <2>1. <<C_TRAILER>> \in Seq({C_TRAILER})
    OBVIOUS
  <2> QED BY <2>1 DEF IsSeq
<1> QED BY <1>1, <1>2 DEF MemberOK

LEMMA TrailerOK ==
  ASSUME NEW format \in Formats, NEW raw, format = "bin" <=> raw, NEW D, NEW digits, Sixteen(digits, D)
  PROVE  Cells(raw, Trailer(format, digits))
<1> DEFINE name == <<C_TRAILER>>
           body == <<>>
           mode == 0
<1>1. IsSeq(name) /\ Cells(raw, body) /\ mode \in Nat
  BY NothingIs DEF MemberOK
<1>2. Trailer(format, digits) = Layout(format, name, mode, body, digits)
  BY DEF Trailer
<1> HIDE DEF name, body, mode
<1> QED BY <1>1, <1>2, LayoutParts

LEMMA MadeOK ==
  ASSUME NEW format \in Formats, NEW raw, format = "bin" <=> raw,
         NEW members, Pieces(raw, members)
  PROVE  /\ Made(format, members) = Packed(format, members)[Len(members)] \o Trailer(format, Digits)
         /\ Cells(raw, Made(format, members))
<1> DEFINE ds == Digits
           p == Packed(format, members)[Len(members)]
<1>1. PICK D : Sixteen(ds, D)
  BY DigitsAreSixteen
<1>2. Made(format, members) = p \o Trailer(format, ds)
  BY DEF Made, Trailer
<1>3. Cells(raw, p)
  <2>1. Len(members) \in 0..Len(members)
    BY DEF Pieces, IsSeq
  <2> QED BY <2>1, PackedSteps
<1> HIDE DEF ds, p
<1>4. Cells(raw, Trailer(format, ds))
  BY <1>1, TrailerOK
<1>5. Cells(raw, p \o Trailer(format, ds))
  BY <1>3, <1>4, CellsJoin
<1> QED BY <1>2, <1>5 DEF ds, p


\* What is kept of the members, and the file that update() makes of it.
RootOK(raw, rootfs) ==
  /\ IsFiniteSet(DOMAIN rootfs)
  /\ \A p \in DOMAIN rootfs : IsSeq(p) /\ rootfs[p].mode \in Nat /\ Cells(raw, rootfs[p].body)
Dumped(format, rootfs, p) == Dump(format, p, rootfs[p].mode, rootfs[p].body)

LEMMA DumpOK ==
  ASSUME NEW format \in Formats, NEW raw, format = "bin" <=> raw, NEW name, IsSeq(name),
         NEW mode \in Nat, NEW body, Cells(raw, body)
  PROVE  Cells(raw, Dump(format, name, mode, body))
<1> DEFINE ds == HexDigits
           as == IF format = "crc" THEN "newc" ELSE format
<1>1. PICK D : Sixteen(ds, D)
  BY DigitsAreSixteen
<1>2. as \in Formats /\ (as = "bin" <=> raw)
  BY DEF Formats
<1>3. Dump(format, name, mode, body) = Layout(as, name, mode, body, ds)
  BY DEF Dump
<1> HIDE DEF ds, as
<1>4. Cells(raw, Layout(as, name, mode, body, ds))
  BY <1>1, <1>2, LayoutParts
<1> QED BY <1>3, <1>4

LEMMA WritingSteps ==
  ASSUME NEW format \in Formats, NEW raw, format = "bin" <=> raw,
         NEW rootfs, RootOK(raw, rootfs)
  PROVE  /\ Cardinality(DOMAIN rootfs) \in Nat
         /\ Cells(raw, Writing(format, rootfs)[Cardinality(DOMAIN rootfs)].file)
<1> DEFINE len == Cardinality(DOMAIN rootfs)
           T == UNION {ToSet(Dumped(format, rootfs, p)) : p \in DOMAIN rootfs}
           S == [left : SUBSET DOMAIN rootfs, file : Seq(T)]
           Full == [left |-> DOMAIN rootfs, file |-> <<>>]
           step == [x \in S \X (1..len) |-> Output(format, rootfs, x[1])]
           Reads(f) == f = [n \in 0..len |-> IF n = 0 THEN Full ELSE Output(format, rootfs, f[n - 1])]
           g == Writing(format, rootfs)
<1>1. Full \in S /\ Keeps(step, S, len) /\ len \in Nat
  <2>1. len \in Nat
    BY FS_CardinalityType DEF RootOK
  <2>2. ASSUME NEW s \in S PROVE Output(format, rootfs, s) \in S
    <3>1. CASE s.left = {}
      BY <3>1 DEF Output
    <3>2. CASE s.left # {}
      <4> DEFINE p == CHOOSE p \in s.left : TRUE
                 t == Dumped(format, rootfs, p)
                 left == s.left \ {p}
                 joined == s.file \o t
      <4>1. p \in DOMAIN rootfs
        <5>1. s.left \subseteq DOMAIN rootfs /\ p \in s.left
          BY <3>2
        <5> QED BY <5>1
      <4>2. Cells(raw, t)
        <5> HIDE DEF p
        <5> QED BY <4>1, DumpOK DEF RootOK, Dumped
      <4>3. ToSet(t) \subseteq T
        <5> HIDE DEF p
        <5>1. t = Dumped(format, rootfs, p)
          OBVIOUS
        <5> HIDE DEF t
        <5> QED BY <4>1, <5>1
      <4>4. Output(format, rootfs, s) = [left |-> left, file |-> joined]
        BY <3>2 DEF Output, Dumped
      <4>5. left \in SUBSET DOMAIN rootfs
        BY DEF S
      <4>6. joined \in Seq(T)
        <5>1. s.file \in Seq(T)
          BY DEF S
        <5> HIDE DEF t, T
        <5>2. t \in Seq(T)
          BY <4>2, <4>3, CellsIn
        <5> QED BY <5>1, <5>2
      <4> HIDE DEF T, left, joined
      <4> QED BY <4>4, <4>5, <4>6
    <3> QED BY <3>1, <3>2
  <2>3. \A x \in S \X (1..len) : Output(format, rootfs, x[1]) \in S
    <3> HIDE DEF S
    <3> QED BY <2>2
  <2>4. Full \in S
    <3> HIDE DEF T
    <3>1. <<>> \in Seq(T)
      OBVIOUS
    <3> QED BY <3>1
  <2> HIDE DEF S, Full
  <2> QED BY <2>1, <2>3, <2>4 DEF Keeps
<1>2. \A s \in S, k \in 1..len : step[<<s, k>>] = Output(format, rootfs, s)
  <2> HIDE DEF S
  <2> QED OBVIOUS
<1> HIDE DEF len, S, step, Full
<1>3. PICK f : Follows(f, step, S, Full, len)
  BY <1>1, Recursion
<1>4. Reads(f)
  <2>1. ASSUME NEW k \in 1..len PROVE f[k] = Output(format, rootfs, f[k - 1])
    <3>1. f[k - 1] \in S
      BY <1>1, <1>3 DEF Follows
    <3> QED BY <1>2, <1>3, <3>1 DEF Follows
  <2> QED BY <1>3, <2>1 DEF Follows
<1>5. Reads(g)
  <2>1. \E h : Reads(h)
    <3> HIDE DEF Reads
    <3> QED BY <1>4
  <2> QED BY <2>1 DEF Writing, len, Full
<1> HIDE DEF g
<1>6. /\ g = [k \in 0..len |-> g[k]] /\ g[0] = Full
      /\ \A k \in 1..len : g[k] = Output(format, rootfs, g[k - 1])
  <2>1. g = [k \in 0..len |-> g[k]]
    BY <1>5
  <2>2. g[0] = Full
    BY <1>1, <1>5
  <2>3. ASSUME NEW k \in 1..len PROVE g[k] = Output(format, rootfs, g[k - 1])
    BY <1>1, <1>5
  <2> QED BY <2>1, <2>2, <2>3
<1>7. Follows(g, step, S, Full, len)
  <2>1. \A k \in 1..len : g[k - 1] \in S => g[k] = step[<<g[k - 1], k>>]
    BY <1>2, <1>6
  <2> QED BY <1>1, <1>6, <2>1, Determined
<1>8. g[len] \in S
  <2>1. len \in 0..len
    BY <1>1
  <2> QED BY <1>7, <2>1 DEF Follows
<1>9. \A c \in T : CellOK(raw, c)
  <2>1. ASSUME NEW p \in DOMAIN rootfs, NEW c \in ToSet(Dumped(format, rootfs, p)) PROVE CellOK(raw, c)
    <3>1. Cells(raw, Dumped(format, rootfs, p))
      BY DumpOK DEF RootOK, Dumped
    <3> QED BY <3>1, CellsIn
  <2> QED BY <2>1
<1> HIDE DEF T
<1>10. g[len].file \in Seq(T)
  BY <1>8 DEF S
<1>11. Cells(raw, g[len].file)
  BY <1>9, <1>10 DEF Cells
<1> QED BY <1>1, <1>11 DEF len, g

LEMMA UpdateOK ==
  ASSUME NEW raw, NEW s, RootOK(raw, s.rootfs),
         NEW format, format \in Formats => (format = "bin" <=> raw)
  PROVE  Cells(raw, Update(format, s))
<1>1. CASE format \notin Formats
  BY <1>1, NothingIs DEF Update
<1>2. CASE format \in Formats
  <2> DEFINE a == Writing(format, s.rootfs)[Cardinality(DOMAIN s.rootfs)].file
             name == <<C_TRAILER>>
             body == <<>>
             mode == 0
             b == Dump(format, name, mode, body)
  <2>1. Cells(raw, a)
    BY <1>2, WritingSteps
  <2>2. IsSeq(name) /\ Cells(raw, body) /\ mode \in Nat
    BY NothingIs DEF MemberOK
  <2>3. Update(format, s) = a \o b
    BY <1>2 DEF Update
  <2> HIDE DEF name, body, mode
  <2>4. Cells(raw, b)
    BY <1>2, <2>2, DumpOK
  <2> HIDE DEF a, b
  <2> QED BY <2>1, <2>3, <2>4, CellsJoin
<1> QED BY <1>1, <1>2


----------------------------------------------------------------------------
(* The site. *)

PathOK(path) == IsSeq(path) /\ (path # <<>> => path[1] = "/")

LEMMA FilePathOK ==
  ASSUME NEW s, IsSeq(s)
  PROVE  PathOK(FilePath(s))
<1>1. PICK C0 : s \in Seq(C0)
  BY DEF IsSeq
<1> DEFINE C == C0 \cup {"/"}
           t == WithoutQuery(s)
           parts == Token(t)
           slash == "/"
<1>2. s \in Seq(C) /\ slash \in C
  BY <1>1
<1> HIDE DEF C
<1>3. t \in Seq(C)
  <2> DEFINE I == {i \in 1..Len(CString(s)) : CString(s)[i] = "?"}
             n == IF I # {} THEN Min(I) ELSE 0
  <2>1. t = IF n = 1 THEN s ELSE IF n = 0 THEN s ELSE SubSeq(s, 1, n - 1)
    BY DEF WithoutQuery, Before, SelectInSeq
  <2>2. CString(s) = Cut(s, NUL)
    BY CStringIs
  <2>3. Len(CString(s)) \in Nat /\ Len(CString(s)) <= Len(s)
    <3> DEFINE u == Cut(s, NUL)
    <3>1. u \in Seq(C \ {NUL}) /\ Len(u) <= Len(s)
      BY <1>2, CutIs
    <3> HIDE DEF u
    <3> QED BY <2>2, <3>1 DEF u
  <2>4. I \subseteq 1..Len(s)
    BY <1>2, <2>3
  <2> HIDE DEF I
  <2>5. n \in 0..Len(s)
    <3>1. CASE I = {}
      BY <1>2, <3>1
    <3>2. CASE I # {}
      <4>1. I \subseteq Nat
        BY <2>4
      <4>2. Min(I) \in I
        BY <3>2, <4>1, LeastNumber DEF Min
      <4>3. n = Min(I)
        BY <3>2
      <4> HIDE DEF n
      <4>4. n \in 1..Len(s)
        BY <2>4, <4>2, <4>3
      <4> QED BY <1>2, <4>4
    <3> QED BY <3>1, <3>2
  <2> HIDE DEF n, t
  <2>6. n # 0 => SubSeq(s, 1, n - 1) \in Seq(C)
    BY <1>2, <2>5
  <2> QED BY <1>2, <2>1, <2>6
<1> HIDE DEF t
<1>4. CASE parts # <<>>
  <2> DEFINE D == C \ {NUL}
             P == Seq(D \ {"/"}) \ {<<>>}
             at == Leads(parts)
             Q == Seq(C \ {"/", NUL}) \ {<<>>}
  <2>1. CString(t) \in Seq(D)
    BY <1>3, CStringIs, CutIs
  <2>2. parts \in Seq(P)
    <3> HIDE DEF D
    <3> QED BY <2>1, PartsOf
  <2>3. P = Q
    <3>1. D \ {"/"} = C \ {"/", NUL}
      OBVIOUS
    <3> QED BY <3>1
  <2> HIDE DEF P, Q, parts
  <2>4. at \in Seq(Q)
    <3>1. Len(parts) \in 0..Len(parts)
      BY <2>2
    <3>2. Walk(parts)[Len(parts)] \in Seq(P \ Dots)
      BY <2>2, <3>1, WalkSteps
    <3> HIDE DEF at
    <3>3. at \in Seq(P \ Dots)
      BY <3>2 DEF at, Leads
    <3> DEFINE R == P \ Dots
    <3>4. R \subseteq Q
      BY <2>3
    <3> HIDE DEF R
    <3> QED BY <3>3, <3>4 DEF R
  <2> HIDE DEF at
  <2>5. FilePath(s) = Joined(at)
    BY <1>4 DEF FilePath, Normalised, at, Leads, parts, t
  <2>6. Joined(at) \in Seq(C \ {NUL})
    BY <1>2, <2>4, PartsOfJoined DEF Q
  <2>7. at # <<>> => Joined(at)[1] = "/"
    BY <1>2, <2>4, PartsOfJoined DEF Q
  <2>8. at = <<>> => Joined(at) = <<>>
    BY LeadsOfNone
  <2>9. IsSeq(Joined(at))
    BY <2>6 DEF IsSeq
  <2> QED BY <2>5, <2>7, <2>8, <2>9 DEF PathOK
<1>5. CASE parts = <<>> /\ s # <<>> /\ s[1] = "/"
  <2>1. FilePath(s) = s
    BY <1>5 DEF FilePath, Normalised, parts, t
  <2> QED BY <1>5, <2>1 DEF PathOK
<1>6. CASE parts = <<>> /\ ~(s # <<>> /\ s[1] = "/")
  <2> DEFINE u == <<slash>> \o s
  <2>1. FilePath(s) = u
    BY <1>6 DEF FilePath, Normalised, parts, t
  <2> HIDE DEF slash
  <2>2. u \in Seq(C) /\ u[1] = slash
    BY <1>2
  <2> HIDE DEF u
  <2>3. IsSeq(u) /\ u[1] = "/"
    BY <2>2 DEF IsSeq, slash
  <2> QED BY <2>1, <2>3 DEF PathOK
<1> QED BY <1>4, <1>5, <1>6

\* input(): of the members with one path the first one stays.
First(members, i, path) ==
  /\ i \in 1..Len(members) /\ FilePath(members[i].name) = path
  /\ \A j \in 1..(i - 1) : FilePath(members[j].name) # path

LEMMA InputIs ==
  ASSUME NEW members, IsSeq(members)
  PROVE  /\ DOMAIN Input(members) = {FilePath(members[i].name) : i \in 1..Len(members)}
         /\ IsFiniteSet(DOMAIN Input(members))
         /\ \A path \in DOMAIN Input(members) : \E i \in 1..Len(members) :
              /\ First(members, i, path)
              /\ Input(members)[path] = File(members[i].mode, members[i].body)
<1> DEFINE paths == [i \in DOMAIN members |-> FilePath(members[i].name)]
           e(i) == FilePath(members[i].name)
           at(path) == SelectInSeq(paths, LAMBDA p : p = path)
           file1(path) == File(members[at(path)].mode, members[at(path)].body)
           S == {e(i) : i \in 1..Len(members)}
<1>1. PICK M : members \in Seq(M)
  BY DEF IsSeq
<1>2. DOMAIN members = 1..Len(members) /\ Len(members) \in Nat
  BY <1>1
<1>3. paths = [i \in 1..Len(members) |-> e(i)]
  BY <1>2
<1> HIDE DEF e, paths
<1>4. ToSet(paths) = S /\ paths \in Seq(S) /\ Len(paths) = Len(members)
      /\ \A i \in 1..Len(members) : paths[i] = e(i)
  <2>1. \A i \in 1..Len(members) : e(i) \in S
    OBVIOUS
  <2>2. ToSet(paths) = S
    BY <1>3 DEF ToSet
  <2> HIDE DEF S
  <2> QED BY <1>2, <1>3, <2>1, <2>2
<1>5. Input(members) = [path \in S |-> file1(path)]
  <2>1. Input(members) = [path \in ToSet(paths) |-> file1(path)]
    BY DEF Input, paths
  <2> HIDE DEF file1, S
  <2> QED BY <1>4, <2>1
<1>6. IsFiniteSet(S)
  <2>1. IsFiniteSet(1..Len(members))
    BY <1>2, FS_Interval
  <2> DEFINE N == 1..Len(members)
             f == [i \in N |-> e(i)]
  <2>2. f \in [N -> S] /\ \A x \in S : \E i \in N : f[i] = x
    OBVIOUS
  <2> HIDE DEF N, f, S
  <2>3. f \in Surjection(N, S)
    BY <2>2 DEF Surjection
  <2> QED BY <2>1, <2>3, FS_Surjection DEF N
<1>7. ASSUME NEW path \in S PROVE at(path) \in 1..Len(members) /\ First(members, at(path), path)
  <2> DEFINE I == {i \in 1..Len(paths) : paths[i] = path}
  <2>1. at(path) = IF I # {} THEN Min(I) ELSE 0
    BY DEF SelectInSeq
  <2>2. \E i \in 1..Len(members) : e(i) = path
    OBVIOUS
  <2>3. I # {} /\ I \subseteq Nat /\ \A i \in I : i \in 1..Len(members) /\ e(i) = path
    BY <1>2, <1>4, <2>2
  <2>4. \A i \in 1..Len(members) : e(i) = path => i \in I
    BY <1>4
  <2> HIDE DEF I, at
  <2>5. at(path) \in I /\ \A i \in I : at(path) <= i
    <3>1. \E x \in I : \A y \in I : x <= y
      BY <2>3, LeastNumber
    <3> QED BY <2>1, <2>3, <3>1 DEF Min
  <2>6. at(path) \in 1..Len(members) /\ e(at(path)) = path
    BY <2>3, <2>5
  <2>7. \A j \in 1..(at(path) - 1) : e(j) # path
    <3> TAKE j \in 1..(at(path) - 1)
    <3>1. j \in 1..Len(members) /\ ~(at(path) <= j)
      BY <1>2, <2>6
    <3> QED BY <2>4, <2>5, <3>1
  <2> QED BY <2>6, <2>7 DEF First, e
<1>8. \A path \in S : Input(members)[path] = file1(path)
  <2> HIDE DEF file1, S
  <2> QED BY <1>5
<1>9. DOMAIN Input(members) = S
  BY <1>5
<1> HIDE DEF at
<1>10. \A path \in S : \E i \in 1..Len(members) :
         First(members, i, path) /\ Input(members)[path] = File(members[i].mode, members[i].body)
  BY <1>7, <1>8
<1> HIDE DEF file1, S
<1> QED BY <1>6, <1>9, <1>10 DEF S, e


LEMMA MemberIsOK ==
  ASSUME NEW m, IsMember(m), NEW raw
  PROVE  MemberOK(raw, m)
<1>1. IsSeq(m.name) /\ m.mode \in Nat
  BY DEF IsMember, IsName, IsSeq
<1>2. \A c \in ToSet(m.body) : CellOK(raw, c)
  BY DEF IsMember, CellOK
<1>3. m.body \in Seq(ToSet(m.body))
  BY DEF IsMember
<1>4. Cells(raw, m.body)
  BY <1>2, <1>3 DEF Cells
<1> QED BY <1>1, <1>4 DEF MemberOK

----------------------------------------------------------------------------
(* What is written is what is read, of a file that was made or of its beginning. *)

\* A number that has room in its field.
LEMMA SizeIs ==
  ASSUME NEW format \in Formats, NEW field, NEW val \in Nat, Room(format, field, val)
  PROVE  Size(format, field, val, Digits) = val
<1> DEFINE ds == Digits
<1>1. CASE format = "bin"
  <2>1. field = "filesize" \/ val < 65536
    BY <1>1 DEF Room
  <2>2. val < 65536 => val % 65536 = val
    OBVIOUS
  <2> DEFINE v == IF field = "filesize" THEN val ELSE val % 65536
  <2>3. v = val
    BY <2>1, <2>2
  <2>4. Encode(format, field, val, ds) = <<v>>
    BY <1>1 DEF Encode
  <2> HIDE DEF v, ds
  <2>5. <<v>> # <<>> /\ <<v>>[1] = v
    OBVIOUS
  <2>6. Decode(format, <<v>>) = v
    BY <1>1, <2>5 DEF Decode
  <2> QED BY <2>3, <2>4, <2>6 DEF Size, ds
<1>2. CASE format # "bin"
  <2> DEFINE base == Base(format)
             width == Width(format, field)
             t == ToDigits(val, base, width, Digits)
  <2>1. base \in Bases /\ width \in Nat /\ width > 0
    <3>1. base \in Bases /\ width \in Nat
      BY FormatFacts
    <3>2. width \in {6, 8, 11}
      BY DEF Width
    <3> HIDE DEF base, width
    <3> QED BY <3>1, <3>2
  <2>2. Shifts(val, base, width)[width] = 0
    BY <1>2 DEF Room
  <2>3. Encode(format, field, val, Digits) = t
    BY <1>2 DEF Encode
  <2>4. t # <<>>
    <3>1. PICK D : Sixteen(ds, D)
      BY DigitsAreSixteen
    <3> HIDE DEF base, width, ds
    <3>2. Len(ToDigits(val, base, width, ds)) = width
      BY <2>1, <3>1, ToDigitsIs
    <3> DEFINE u == ToDigits(val, base, width, ds)
    <3> HIDE DEF u
    <3>3. u # <<>>
      BY <2>1, <3>2 DEF u
    <3> QED BY <3>3 DEF u, ds
  <2>5. FromDigits(t, base) = val
    <3> HIDE DEF base, width
    <3> QED BY <2>1, <2>2, NumbersComeBack
  <2> HIDE DEF t
  <2>6. Decode(format, t) = val
    BY <1>2, <2>4, <2>5 DEF Decode
  <2> QED BY <2>3, <2>6 DEF Size
<1> QED BY <1>1, <1>2

\* A number below the base has room everywhere.
LEMMA SmallHasRoom ==
  ASSUME NEW format \in Formats, NEW field, NEW val \in 0..7
  PROVE  Room(format, field, val)
<1>1. CASE format = "bin"
  BY <1>1 DEF Room
<1>2. CASE format # "bin"
  <2> DEFINE base == Base(format)
             width == Width(format, field)
             left == Shifts(val, base, width)
             T == {k \in 1..width : left[k] = 0}
  <2>1. base \in Bases /\ width \in Nat /\ width > 0 /\ val \in Nat
    <3>1. base \in Bases /\ width \in Nat
      BY FormatFacts
    <3>2. width \in {6, 8, 11}
      BY DEF Width
    <3> HIDE DEF base, width
    <3> QED BY <3>1, <3>2
  <2> HIDE DEF base, width
  <2>2. left[0] = val /\ \A k \in 1..width : left[k] = left[k - 1] \div base
    <3>1. left[0] = val
      BY <2>1, ShiftSteps
    <3>2. \A k \in 1..width : left[k] = Shift(left[k - 1], base)
      BY <2>1, ShiftSteps
    <3> HIDE DEF left
    <3> QED BY <3>1, <3>2 DEF Shift
  <2> HIDE DEF left
  <2>3. val \div 8 = 0 /\ val \div 16 = 0 /\ 0 \div 8 = 0 /\ 0 \div 16 = 0
    OBVIOUS
  <2> DEFINE V == {0} \cup T
  <2>4. left[1] = 0
    <3>1. 1 \in 1..width /\ 1 - 1 = 0
      BY <2>1
    <3>2. left[1] = val \div base
      BY <2>2, <3>1
    <3> QED BY <2>1, <2>3, <3>2 DEF Bases
  <2>5. ASSUME NEW k \in 0..(width - 1), k \in V PROVE k + 1 \in V
    <3>1. k + 1 \in 1..width /\ (k + 1) - 1 = k
      BY <2>1
    <3>2. CASE k = 0
      BY <2>4, <3>1, <3>2
    <3>3. CASE k # 0
      <4>1. left[k] = 0
        BY <2>5, <3>3
      <4>2. left[k + 1] = 0 \div base
        BY <2>2, <3>1, <4>1
      <4>3. left[k + 1] = 0
        BY <2>1, <2>3, <4>2 DEF Bases
      <4> QED BY <3>1, <4>3
    <3> QED BY <3>2, <3>3
  <2>6. width \in V
    <3>1. 0 \in V
      OBVIOUS
    <3> HIDE DEF V
    <3> QED BY <2>1, <2>5, <3>1, UpTo
  <2>7. left[width] = 0
    BY <2>1, <2>6
  <2> QED BY <1>2, <2>7 DEF Room, left, base, width
<1> QED BY <1>1, <1>2

\* The cells of two sequences, one behind the other.
LEMMA JoinAt ==
  ASSUME NEW a, IsSeq(a), NEW b, IsSeq(b)
  PROVE  /\ \A i \in 1..Len(a) : (a \o b)[i] = a[i]
         /\ \A i \in 1..Len(b) : (a \o b)[Len(a) + i] = b[i]
<1>1. PICK S : a \in Seq(S)
  BY DEF IsSeq
<1>2. PICK T : b \in Seq(T)
  BY DEF IsSeq
<1> DEFINE R == S \cup T
<1>3. a \in Seq(R) /\ b \in Seq(R)
  BY <1>1, <1>2
<1> HIDE DEF R
<1> QED BY <1>3

\* The numbers of a member have room, and its cells are where they are looked for.
Roomy(format, m) ==
  /\ Room(format, "mode", m.mode) /\ Room(format, "namesize", Len(m.name) + 1)
  /\ Room(format, "filesize", Len(m.body))
NamePad(format, m) == NamePadding(format, Len(m.name) + 1)
BodyPad(format, m) == Missing(format, Len(m.body))
FieldsOf(m) == Fields(m.name, m.mode, m.body)
Laid(format, m, l) ==
  /\ Len(l) = 5 + Len(m.name) + NamePad(format, m) + Len(m.body) + BodyPad(format, m)
  /\ l[1] = Magic(format)
  /\ \A i \in 1..3 : l[1 + i] = Number(Encode(format, Order(format)[i], FieldsOf(m)[Order(format)[i]], Digits))
  /\ \A i \in 1..Len(m.name) : l[4 + i] = Char(m.name[i])
  /\ l[5 + Len(m.name)] = Char(NUL)
  /\ \A i \in 1..Len(m.body) : l[5 + Len(m.name) + NamePad(format, m) + i] = m.body[i]

LEMMA PadsAre ==
  ASSUME NEW format \in Formats, NEW raw, format = "bin" <=> raw, NEW m, MemberOK(raw, m)
  PROVE  /\ Len(m.name) \in Nat /\ DOMAIN m.name = 1..Len(m.name)
         /\ Len(m.body) \in Nat /\ DOMAIN m.body = 1..Len(m.body)
         /\ NamePad(format, m) \in Nat /\ BodyPad(format, m) \in Nat
<1>1. /\ Len(m.name) \in Nat /\ DOMAIN m.name = 1..Len(m.name)
      /\ Len(m.body) \in Nat /\ DOMAIN m.body = 1..Len(m.body)
  <2>1. PICK S : m.name \in Seq(S)
    BY DEF MemberOK, IsSeq
  <2>2. Cells(raw, m.body)
    BY DEF MemberOK
  <2>3. Len(m.body) \in Nat /\ DOMAIN m.body = 1..Len(m.body)
    BY <2>2, CellsIn
  <2> QED BY <2>1, <2>3
<1>2. Len(m.name) + 1 \in Nat
  BY <1>1
<1>3. \A n \in Nat : Missing(format, n) \in Nat /\ NamePadding(format, n) \in Nat
  BY FormatFacts
<1> QED BY <1>1, <1>2, <1>3 DEF NamePad, BodyPad

LEMMA PieceLaid ==
  ASSUME NEW format \in Formats, NEW raw, format = "bin" <=> raw, NEW m, MemberOK(raw, m),
         Roomy(format, m)
  PROVE  Laid(format, m, Piece(format, m))
<1> DEFINE ds == Digits
           name == m.name
           body == m.body
           a == Mark(format)
           b == Header(format, name, m.mode, body, ds)
           c == Chars(name)
           d == Zeros(1)
           e == Pad(format, name, ds)
           g == PadBehind(format, body, ds)
           l == Piece(format, m)
           np == NamePad(format, m)
           bp == BodyPad(format, m)
           r6 == body \o g
           r5 == e \o r6
           r4 == d \o r5
           r3 == c \o r4
           r2 == b \o r3
<1>1. PICK D : Sixteen(ds, D)
  BY DigitsAreSixteen
<1>2. /\ Len(name) \in Nat /\ DOMAIN name = 1..Len(name) /\ Len(body) \in Nat
      /\ np \in Nat /\ bp \in Nat
  BY PadsAre
<1>3. /\ Size(format, "namesize", Len(name) + 1, ds) = Len(name) + 1
      /\ Size(format, "filesize", Len(body), ds) = Len(body)
  <2>1. Len(name) + 1 \in Nat
    BY <1>2
  <2> QED BY <1>2, <2>1, SizeIs DEF Roomy
<1>4. IsSeq(name) /\ m.mode \in Nat /\ Cells(raw, body)
  BY DEF MemberOK
<1>5. /\ l = Three(a, b, Behind(format, name, body, ds))
      /\ Len(l) = 5 + Len(name) + np + Len(body) + bp
  <2> DEFINE mode == m.mode
             lay == Layout(format, name, mode, body, ds)
  <2>0. mode \in Nat /\ IsSeq(name) /\ Cells(raw, body)
    BY <1>4
  <2>1. l = lay
    BY DEF Piece
  <2>2. lay = Three(a, b, Behind(format, name, body, ds))
    <3>1. b = Header(format, name, mode, body, ds)
      OBVIOUS
    <3> HIDE DEF ds, l, mode, name, body, b
    <3>2. Layout(format, name, mode, body, ds)
            = Three(Mark(format), Header(format, name, mode, body, ds), Behind(format, name, body, ds))
      BY <1>1, <2>0, LayoutParts
    <3> QED BY <3>1, <3>2
  <2>3. Len(lay) = 5 + Len(name) + NamePadding(format, Size(format, "namesize", Len(name) + 1, ds))
                     + Len(body) + Missing(format, Size(format, "filesize", Len(body), ds))
    <3> HIDE DEF ds, l, mode, name, body
    <3> QED BY <1>1, <2>0, LayoutParts
  <2> HIDE DEF ds, l, lay
  <2>4. np = NamePadding(format, Size(format, "namesize", Len(name) + 1, ds))
        /\ bp = Missing(format, Size(format, "filesize", Len(body), ds))
    BY <1>3 DEF NamePad, BodyPad
  <2> HIDE DEF np, bp
  <2> QED BY <2>1, <2>2, <2>3, <2>4
<1>6. l = a \o r2
  <2>1. Behind(format, name, body, ds) = r3
    BY DEF Behind, Five
  <2> HIDE DEF l, a, b, r3
  <2> QED BY <1>5, <2>1 DEF Three
<1>7. /\ Cells(raw, a) /\ Len(a) = 1 /\ Cells(raw, b) /\ Len(b) = 3
      /\ Cells(raw, c) /\ Len(c) = Len(name) /\ Cells(raw, d) /\ Len(d) = 1
      /\ Cells(raw, e) /\ Len(e) = np /\ Cells(raw, g)
  <2> DEFINE mode == m.mode
  <2>0. mode \in Nat /\ IsSeq(name) /\ Cells(raw, body)
    BY <1>4
  <2> HIDE DEF mode, ds, name, body
  <2>1. Cells(raw, Mark(format)) /\ Len(Mark(format)) = 1
    BY <1>1, <2>0, PartsOK
  <2>2. Cells(raw, Header(format, name, mode, body, ds)) /\ Len(Header(format, name, mode, body, ds)) = 3
    BY <1>1, <2>0, PartsOK
  <2>3. Cells(raw, Chars(name)) /\ Len(Chars(name)) = Len(name)
    BY <1>1, <2>0, PartsOK
  <2>4. Cells(raw, Pad(format, name, ds))
        /\ Len(Pad(format, name, ds)) = NamePadding(format, Size(format, "namesize", Len(name) + 1, ds))
    BY <1>1, <2>0, PartsOK
  <2>5. Cells(raw, PadBehind(format, body, ds))
    BY <1>1, <2>0, PartsOK
  <2>6. Cells(raw, d) /\ Len(d) = 1
    BY ZerosAre
  <2>7. Len(e) = np
    BY <1>3, <2>4 DEF NamePad, name
  <2>8. Header(format, name, mode, body, ds) = b
    BY DEF mode
  <2> HIDE DEF a, b, c, d, e, g, np
  <2> QED BY <2>1, <2>2, <2>3, <2>4, <2>5, <2>6, <2>7, <2>8 DEF a, c, e, g
<1>8. \A i \in 1..3 : b[i] = Number(Encode(format, Order(format)[i], FieldsOf(m)[Order(format)[i]], Digits))
  BY DEF Header, FieldsOf
<1>9. \A i \in 1..Len(name) : c[i] = Char(name[i])
  BY <1>2 DEF Chars
<1>10. a[1] = Magic(format) /\ d[1] = Char(NUL)
  BY DEF Mark, Zeros
<1> HIDE DEF a, b, c, d, e, g, l, np, bp, name, body
<1>11. IsSeq(a) /\ IsSeq(b) /\ IsSeq(c) /\ IsSeq(d) /\ IsSeq(e) /\ IsSeq(body) /\ IsSeq(g)
  <2>1. Cells(raw, body)
    BY <1>4
  <2> QED BY <1>7, <2>1, CellsIn
<1>12. IsSeq(r6) /\ Len(r6) = Len(body) + Len(g) /\ Len(g) \in Nat
  <2> QED BY <1>11, JoinAny
<1>13. \A i \in 1..Len(body) : r6[i] = body[i]
  BY <1>11, JoinAt
<1> HIDE DEF r6
<1>14. IsSeq(r5) /\ Len(r5) = np + Len(r6)
  <2>1. Len(r5) = Len(e) + Len(r6) /\ IsSeq(r5)
    BY <1>11, <1>12, JoinAny
  <2> QED BY <1>7, <2>1
<1>15. \A i \in 1..Len(body) : r5[np + i] = body[i]
  <2>1. \A i \in 1..Len(r6) : r5[Len(e) + i] = r6[i]
    BY <1>11, <1>12, JoinAt
  <2> QED BY <1>2, <1>7, <1>12, <1>13, <2>1
<1> HIDE DEF r5
<1>16. IsSeq(r4) /\ Len(r4) = 1 + Len(r5)
  <2>1. Len(r4) = Len(d) + Len(r5) /\ IsSeq(r4)
    BY <1>11, <1>14, JoinAny
  <2> QED BY <1>7, <2>1
<1>17. r4[1] = Char(NUL) /\ \A i \in 1..Len(body) : r4[1 + np + i] = body[i]
  <2>1. \A i \in 1..Len(r5) : r4[Len(d) + i] = r5[i]
    BY <1>11, <1>14, JoinAt
  <2>2. \A i \in 1..Len(d) : r4[i] = d[i]
    BY <1>11, <1>14, JoinAt
  <2>3. ASSUME NEW i \in 1..Len(body) PROVE r4[1 + np + i] = body[i]
    <3>1. np + i \in 1..Len(r5) /\ 1 + np + i = 1 + (np + i)
      BY <1>2, <1>12, <1>14
    <3> QED BY <1>7, <1>15, <2>1, <3>1
  <2>4. 1 \in 1..Len(d)
    BY <1>7
  <2>5. r4[1] = Char(NUL)
    BY <1>10, <2>2, <2>4
  <2> QED BY <2>3, <2>5
<1> HIDE DEF r4
<1>18. IsSeq(r3) /\ Len(r3) = Len(name) + Len(r4)
  <2>1. Len(r3) = Len(c) + Len(r4) /\ IsSeq(r3)
    BY <1>11, <1>16, JoinAny
  <2> QED BY <1>7, <2>1
<1>19. /\ \A i \in 1..Len(name) : r3[i] = Char(name[i])
       /\ r3[Len(name) + 1] = Char(NUL)
       /\ \A i \in 1..Len(body) : r3[Len(name) + 1 + np + i] = body[i]
  <2>1. \A i \in 1..Len(r4) : r3[Len(c) + i] = r4[i]
    BY <1>11, <1>16, JoinAt
  <2>2. \A i \in 1..Len(c) : r3[i] = c[i]
    BY <1>11, <1>16, JoinAt
  <2>3. ASSUME NEW i \in 1..Len(body) PROVE r3[Len(name) + 1 + np + i] = body[i]
    <3>1. 1 + np + i \in 1..Len(r4) /\ Len(name) + 1 + np + i = Len(name) + (1 + np + i)
      BY <1>2, <1>12, <1>14, <1>16
    <3> QED BY <1>7, <1>17, <2>1, <3>1
  <2>4. r3[Len(name) + 1] = Char(NUL)
    <3>1. 1 \in 1..Len(r4)
      BY <1>2, <1>12, <1>14, <1>16
    <3> QED BY <1>7, <1>17, <2>1, <3>1
  <2>5. \A i \in 1..Len(name) : r3[i] = Char(name[i])
    BY <1>7, <1>9, <2>2
  <2> QED BY <2>3, <2>4, <2>5
<1> HIDE DEF r3
<1>20. IsSeq(r2) /\ Len(r2) = 3 + Len(r3)
  <2>1. Len(r2) = Len(b) + Len(r3) /\ IsSeq(r2)
    BY <1>11, <1>18, JoinAny
  <2> QED BY <1>7, <2>1
<1>21. /\ \A i \in 1..3 : r2[i] = b[i]
       /\ \A i \in 1..Len(r3) : r2[3 + i] = r3[i]
  <2>1. \A i \in 1..Len(r3) : r2[Len(b) + i] = r3[i]
    BY <1>11, <1>18, JoinAt
  <2>2. \A i \in 1..Len(b) : r2[i] = b[i]
    BY <1>11, <1>18, JoinAt
  <2> QED BY <1>7, <2>1, <2>2
<1> HIDE DEF r2
<1>22. l[1] = a[1] /\ \A i \in 1..Len(r2) : l[1 + i] = r2[i]
  <2>1. \A i \in 1..Len(r2) : (a \o r2)[Len(a) + i] = r2[i]
    BY <1>11, <1>20, JoinAt
  <2>2. \A i \in 1..Len(a) : (a \o r2)[i] = a[i]
    BY <1>11, <1>20, JoinAt
  <2>3. l = a \o r2 /\ Len(a) = 1
    BY <1>6, <1>7
  <2>4. l[1] = a[1]
    BY <2>2, <2>3
  <2>5. ASSUME NEW i \in 1..Len(r2) PROVE l[1 + i] = r2[i]
    BY <2>1, <2>3
  <2> QED BY <2>4, <2>5
<1>23. \A i \in 1..3 : l[1 + i] = b[i]
  <2>1. \A i \in 1..3 : i \in 1..Len(r2)
    BY <1>2, <1>12, <1>14, <1>16, <1>18, <1>20
  <2> QED BY <1>21, <1>22, <2>1
<1>24. \A i \in 1..Len(r3) : l[4 + i] = r3[i]
  <2> TAKE i \in 1..Len(r3)
  <2>1. 3 + i \in 1..Len(r2) /\ 4 + i = 1 + (3 + i)
    BY <1>2, <1>12, <1>14, <1>16, <1>18, <1>20
  <2> QED BY <1>21, <1>22, <2>1
<1>25. \A i \in 1..Len(name) : l[4 + i] = Char(name[i])
  <2>1. \A i \in 1..Len(name) : i \in 1..Len(r3)
    BY <1>2, <1>12, <1>14, <1>16, <1>18
  <2> QED BY <1>19, <1>24, <2>1
<1>26. l[5 + Len(name)] = Char(NUL)
  <2>1. Len(name) + 1 \in 1..Len(r3) /\ 5 + Len(name) = 4 + (Len(name) + 1)
    BY <1>2, <1>12, <1>14, <1>16, <1>18
  <2> QED BY <1>19, <1>24, <2>1
<1>27. \A i \in 1..Len(body) : l[5 + Len(name) + np + i] = body[i]
  <2> TAKE i \in 1..Len(body)
  <2>1. Len(name) + 1 + np + i \in 1..Len(r3)
        /\ 5 + Len(name) + np + i = 4 + (Len(name) + 1 + np + i)
    BY <1>2, <1>12, <1>14, <1>16, <1>18
  <2> QED BY <1>19, <1>24, <2>1
<1> QED BY <1>5, <1>8, <1>10, <1>22, <1>23, <1>25, <1>26, <1>27 DEF Laid, l, np, bp, name, body

\* The cells l from at on, as far as the file goes.
HeldAt(f1, at, l) ==
  at \in Nat /\ Len(l) \in Nat /\ \A i \in 1..Len(l) : at + i <= Len(f1) => f1[at + i] = l[i]

LEMMA StartsThere ==
  ASSUME NEW format \in Formats, NEW raw, format = "bin" <=> raw, NEW m, MemberOK(raw, m),
         NEW l, Laid(format, m, l), NEW f1, Cells(raw, f1), NEW at, HeldAt(f1, at, l), at < Len(f1)
  PROVE  /\ Starts(f1, at + 1) /\ f1[at + 1].magic = format
         /\ at \in Nat /\ at + 1 \in Nat \ {0} /\ Len(f1) \in Nat
         /\ Parse(f1, at + 1).next >= at + 5
<1>1. at \in Nat /\ Len(f1) \in Nat /\ Len(l) \in Nat
  BY CellsIn DEF HeldAt
<1>2. f1[at + 1] = Magic(format)
  <2>1. 1 \in 1..Len(l)
    BY <1>1, PadsAre DEF Laid
  <2>2. at + 1 <= Len(f1)
    BY <1>1
  <2> QED BY <2>1, <2>2 DEF HeldAt, Laid
<1>3. Starts(f1, at + 1) /\ f1[at + 1].magic = format
  <2>1. DOMAIN Magic(format) = {"magic"} /\ Magic(format).magic = format
    BY DEF Magic
  <2> QED BY <1>1, <1>2, <2>1 DEF Starts
<1> DEFINE pos == at + 1
           start == pos + 4
           namesize == Field(f1, pos, "namesize")
           filesize == Field(f1, pos, "filesize")
           body == start + namesize + NamePadding(format, namesize)
           p == Parse(f1, pos)
<1>4. pos \in Nat \ {0} /\ start = at + 5
  BY <1>1
<1>5. p.next = body + filesize + Missing(format, filesize)
  <2>1. format = f1[pos].magic
    BY <1>3
  <2> QED BY <2>1, ParseIs
<1>6. namesize \in Nat /\ filesize \in Nat
  <2>1. "namesize" \in FieldNames /\ "filesize" \in FieldNames
    BY DEF FieldNames
  <2>2. Starts(f1, pos)
    BY <1>3
  <2> HIDE DEF pos
  <2> QED BY <1>4, <2>1, <2>2, FieldIsNat
<1> HIDE DEF namesize, filesize, p
<1>7. NamePadding(format, namesize) \in Nat /\ Missing(format, filesize) \in Nat
  BY <1>6, FormatFacts
<1>8. p.next >= at + 5
  BY <1>1, <1>4, <1>5, <1>6, <1>7
<1> QED BY <1>1, <1>3, <1>4, <1>8 DEF p

\* With its header in the file the member's numbers are read as they were.
LEMMA HeaderRead ==
  ASSUME NEW format \in Formats, NEW raw, format = "bin" <=> raw, NEW m, MemberOK(raw, m),
         Roomy(format, m), NEW l, Laid(format, m, l),
         NEW f1, Cells(raw, f1), NEW at, HeldAt(f1, at, l), at + 4 <= Len(f1)
  PROVE  \A f \in FieldNames : Field(f1, at + 1, f) = FieldsOf(m)[f]
<1>1. at \in Nat /\ Len(f1) \in Nat /\ Len(l) \in Nat
  BY CellsIn DEF HeldAt
<1>2. Starts(f1, at + 1) /\ f1[at + 1].magic = format
  <2>1. at < Len(f1)
    BY <1>1
  <2> QED BY <2>1, StartsThere
<1>3. TAKE f \in FieldNames
<1> DEFINE i == Place(format, f)
           val == FieldsOf(m)[f]
           d == Encode(format, f, val, Digits)
<1>4. i \in 1..3 /\ Order(format)[i] = f
  BY PlaceIs
<1>5. val \in Nat /\ Room(format, f, val)
  <2>1. Len(m.name) + 1 \in Nat /\ Len(m.body) \in Nat /\ m.mode \in Nat
    BY PadsAre DEF MemberOK
  <2> QED BY <2>1 DEF FieldsOf, Fields, FieldNames, Roomy
<1> HIDE DEF i
<1>6. f1[at + (1 + i)] = Number(d)
  <2>1. l[1 + i] = Number(Encode(format, Order(format)[i], FieldsOf(m)[Order(format)[i]], Digits))
    BY <1>4 DEF Laid
  <2>2. Len(l) >= 5
    BY PadsAre DEF Laid
  <2>3. 1 + i \in 1..Len(l) /\ at + (1 + i) <= Len(f1)
    BY <1>1, <1>4, <2>2
  <2>4. f1[at + (1 + i)] = l[1 + i]
    BY <2>3 DEF HeldAt
  <2> QED BY <1>4, <2>1, <2>4
<1> HIDE DEF d, val
<1>7. Field(f1, at + 1, f) = Decode(format, d)
  <2>1. (at + 1) + i = at + (1 + i) /\ at + (1 + i) <= Len(f1)
    BY <1>1, <1>4
  <2>2. DOMAIN Number(d) = {"number"} /\ Number(d).number = d
    BY DEF Number
  <2> QED BY <1>2, <1>6, <2>1, <2>2 DEF Field, i
<1>8. Decode(format, d) = val
  <2>1. Size(format, f, val, Digits) = val
    BY <1>5, SizeIs
  <2> QED BY <2>1 DEF Size, d
<1> QED BY <1>7, <1>8 DEF val

LEMMA NextRead ==
  ASSUME NEW format \in Formats, NEW raw, format = "bin" <=> raw, NEW m, MemberOK(raw, m),
         Roomy(format, m), NEW l, Laid(format, m, l),
         NEW f1, Cells(raw, f1), NEW at, HeldAt(f1, at, l), at + 4 <= Len(f1)
  PROVE  /\ Parse(f1, at + 1).next = at + Len(l) + 1
         /\ Parse(f1, at + 1).mode = m.mode
         /\ Parse(f1, at + 1).name = Characters(Read(f1, at + 5, Len(m.name) + 1))
         /\ Parse(f1, at + 1).body = Read(f1, at + 6 + Len(m.name) + NamePad(format, m), Len(m.body))
<1> DEFINE pos == at + 1
           start == pos + 4
           namesize == Field(f1, pos, "namesize")
           filesize == Field(f1, pos, "filesize")
           body == start + namesize + NamePadding(format, namesize)
           p == Parse(f1, pos)
<1>1. at \in Nat /\ Len(f1) \in Nat /\ Len(l) \in Nat
  BY CellsIn DEF HeldAt
<1>2. Starts(f1, pos) /\ f1[pos].magic = format
  <2>1. at < Len(f1)
    BY <1>1
  <2> QED BY <2>1, StartsThere
<1>3. p = [name |-> Characters(Read(f1, start, namesize)),
           mode |-> Field(f1, pos, "mode"), body |-> Read(f1, body, filesize),
           next |-> body + filesize + Missing(format, filesize)]
  <2>1. format = f1[pos].magic
    BY <1>2
  <2> QED BY <2>1, ParseIs
<1>4. namesize = Len(m.name) + 1 /\ filesize = Len(m.body) /\ Field(f1, pos, "mode") = m.mode
  <2>1. "mode" \in FieldNames /\ "namesize" \in FieldNames /\ "filesize" \in FieldNames
    BY DEF FieldNames
  <2>2. \A f \in FieldNames : Field(f1, at + 1, f) = FieldsOf(m)[f]
    BY HeaderRead
  <2> QED BY <2>1, <2>2 DEF FieldsOf, Fields
<1>5. /\ Len(m.name) \in Nat /\ Len(m.body) \in Nat /\ NamePad(format, m) \in Nat /\ BodyPad(format, m) \in Nat
      /\ Len(l) = 5 + Len(m.name) + NamePad(format, m) + Len(m.body) + BodyPad(format, m)
  BY PadsAre DEF Laid
<1>6. /\ p.name = Characters(Read(f1, start, namesize)) /\ p.mode = Field(f1, pos, "mode")
      /\ p.body = Read(f1, body, filesize) /\ p.next = body + filesize + Missing(format, filesize)
  BY <1>3
<1>7. NamePadding(format, namesize) = NamePad(format, m) /\ Missing(format, filesize) = BodyPad(format, m)
  BY <1>4 DEF NamePad, BodyPad
<1> HIDE DEF namesize, filesize, p
<1> DEFINE n == Len(m.name)
           k == Len(m.body)
           np == NamePad(format, m)
           bp == BodyPad(format, m)
           len == Len(l)
<1>8. start = at + 5 /\ body = at + 6 + n + np
  <2>1. body = start + (n + 1) + np
    BY <1>4, <1>7
  <2>2. n \in Nat /\ np \in Nat
    BY <1>5
  <2> HIDE DEF body, n, np
  <2> QED BY <1>1, <2>1, <2>2
<1> HIDE DEF body
<1>9. p.next = at + Len(l) + 1
  <2>1. p.next = body + k + bp
    BY <1>4, <1>6, <1>7
  <2>2. n \in Nat /\ np \in Nat /\ k \in Nat /\ bp \in Nat /\ len = 5 + n + np + k + bp
    BY <1>5
  <2> HIDE DEF n, np, k, bp, len
  <2>3. p.next = at + len + 1
    BY <1>1, <1>8, <2>1, <2>2
  <2> QED BY <2>3 DEF len
<1>10. Parse(f1, at + 1) = p /\ pos = at + 1
  BY DEF p
<1> HIDE DEF start
<1> QED BY <1>4, <1>6, <1>8, <1>9, <1>10

\* A member that is in the file whole is read as it was, but for the NUL behind
\* its name.
AsMade(p, m) == p.name = Append(m.name, NUL) /\ p.mode = m.mode /\ p.body = m.body

LEMMA WholeRead ==
  ASSUME NEW format \in Formats, NEW raw, format = "bin" <=> raw, NEW m, MemberOK(raw, m),
         Roomy(format, m), NEW l, Laid(format, m, l),
         NEW f1, Cells(raw, f1), NEW at, HeldAt(f1, at, l), at + Len(l) <= Len(f1)
  PROVE  /\ AsMade(Parse(f1, at + 1), m)
         /\ Parse(f1, at + 1).next = at + Len(l) + 1
<1> DEFINE n == Len(m.name)
           np == NamePad(format, m)
           bp == BodyPad(format, m)
           k == Len(m.body)
           p == Parse(f1, at + 1)
<1>1. at \in Nat /\ Len(f1) \in Nat /\ Len(l) \in Nat
  BY CellsIn DEF HeldAt
<1>2. /\ n \in Nat /\ DOMAIN m.name = 1..n /\ k \in Nat /\ DOMAIN m.body = 1..k /\ np \in Nat /\ bp \in Nat
      /\ Len(l) = 5 + n + np + k + bp
  BY PadsAre DEF Laid
<1>3. /\ \A i \in 1..n : l[4 + i] = Char(m.name[i])
      /\ l[5 + n] = Char(NUL)
      /\ \A i \in 1..k : l[5 + n + np + i] = m.body[i]
  BY DEF Laid
<1>4. \A i \in 1..Len(l) : f1[at + i] = l[i] /\ at + i <= Len(f1)
  BY <1>1 DEF HeldAt
<1>5. /\ p.next = at + Len(l) + 1 /\ p.mode = m.mode
      /\ p.name = Characters(Read(f1, at + 5, n + 1))
      /\ p.body = Read(f1, at + 6 + n + np, k)
  <2>0. Len(l) = 5 + n + np + k + bp /\ n \in Nat /\ np \in Nat /\ k \in Nat /\ bp \in Nat
    BY <1>2
  <2>1. at + 4 <= Len(f1)
    <3> HIDE DEF p, n, np, bp, k
    <3>1. Len(l) >= 5
      BY <2>0
    <3> QED BY <1>1, <3>1
  <2>2. /\ Parse(f1, at + 1).next = at + Len(l) + 1
        /\ Parse(f1, at + 1).mode = m.mode
        /\ Parse(f1, at + 1).name = Characters(Read(f1, at + 5, Len(m.name) + 1))
        /\ Parse(f1, at + 1).body = Read(f1, at + 6 + Len(m.name) + NamePad(format, m), Len(m.body))
    <3> HIDE DEF p, n, np, bp, k
    <3> QED BY <2>1, NextRead
  <2> QED BY <2>2 DEF p, n, np, k
<1> HIDE DEF p, n, np, bp, k
<1>6. p.body = m.body
  <2> DEFINE from == at + 6 + n + np
             e(i) == IF from + i - 1 <= Len(f1) THEN f1[from + i - 1] ELSE Junk
  <2>1. Read(f1, from, k) = [i \in 1..k |-> e(i)]
    BY DEF Read
  <2>2. ASSUME NEW i \in 1..k PROVE e(i) = m.body[i]
    <3>1. from + i - 1 = at + (5 + n + np + i) /\ 5 + n + np + i \in 1..Len(l)
      BY <1>1, <1>2
    <3>2. from + i - 1 <= Len(f1) /\ f1[from + i - 1] = l[5 + n + np + i]
      BY <1>4, <3>1
    <3> HIDE DEF from
    <3> QED BY <1>3, <3>2
  <2>3. \E S : m.body \in Seq(S)
    BY DEF MemberOK, Cells
  <2>4. m.body = [i \in 1..k |-> m.body[i]]
    BY <2>3 DEF k
  <2> HIDE DEF e
  <2>5. [i \in 1..k |-> e(i)] = [i \in 1..k |-> m.body[i]]
    BY <2>2
  <2> QED BY <1>5, <2>1, <2>4, <2>5
<1>7. p.name = Append(m.name, NUL)
  <2> DEFINE from == at + 5
             e(i) == IF from + i - 1 <= Len(f1) THEN f1[from + i - 1] ELSE Junk
             t == Read(f1, from, n + 1)
             c(i) == IF "char" \in DOMAIN t[i] THEN t[i].char ELSE "junk"
             s(i) == IF i = n + 1 THEN NUL ELSE m.name[i]
  <2>1. t = [i \in 1..(n + 1) |-> e(i)]
    BY DEF Read
  <2>2. ASSUME NEW i \in 1..(n + 1) PROVE e(i) = Char(s(i))
    <3>1. from + i - 1 = at + (4 + i) /\ 4 + i \in 1..Len(l)
      BY <1>1, <1>2
    <3>2. from + i - 1 <= Len(f1) /\ f1[from + i - 1] = l[4 + i]
      BY <1>4, <3>1
    <3>3. CASE i = n + 1
      <4>1. 4 + i = 5 + n
        BY <1>2, <3>3
      <4>2. l[4 + i] = Char(NUL)
        BY <1>3, <4>1
      <4> HIDE DEF from
      <4> QED BY <3>2, <3>3, <4>2
    <3>4. CASE i # n + 1
      <4>1. i \in 1..n
        BY <1>2, <3>4
      <4>2. l[4 + i] = Char(m.name[i])
        BY <1>3, <4>1
      <4> HIDE DEF from
      <4> QED BY <3>2, <3>4, <4>2
    <3> QED BY <3>3, <3>4
  <2>3. ASSUME NEW i \in 1..(n + 1) PROVE c(i) = s(i)
    <3>1. t[i] = Char(s(i))
      <4> HIDE DEF e, s
      <4> QED BY <2>1, <2>2
    <3> HIDE DEF t, s
    <3>2. DOMAIN Char(s(i)) = {"char"} /\ Char(s(i)).char = s(i)
      BY DEF Char
    <3> QED BY <3>1, <3>2
  <2>4. DOMAIN t = 1..(n + 1)
    BY <2>1
  <2>5. Characters(t) = [i \in 1..(n + 1) |-> c(i)]
    BY <2>4 DEF Characters
  <2> HIDE DEF c, s
  <2>6. Characters(t) = [i \in 1..(n + 1) |-> s(i)]
    BY <2>3, <2>5
  <2>7. Append(m.name, NUL) = [i \in 1..(n + 1) |-> s(i)]
    <3>1. PICK S : m.name \in Seq(S)
      BY DEF MemberOK, IsSeq
    <3> QED BY <3>1 DEF s, n
  <2> HIDE DEF t
  <2> QED BY <1>5, <2>6, <2>7 DEF t
<1> QED BY <1>5, <1>6, <1>7 DEF AsMade, p

\* Where in an archive its members are.
Closing == [name |-> <<C_TRAILER>>, mode |-> 0, body |-> <<>>]
SizeOf(format, members, k) == Len(Packed(format, members)[k])

LEMMA LastOK ==
  ASSUME NEW format \in Formats, NEW raw, format = "bin" <=> raw
  PROVE  /\ MemberOK(raw, Closing) /\ Roomy(format, Closing)
         /\ Laid(format, Closing, Piece(format, Closing)) /\ Piece(format, Closing) = Trailer(format, Digits)
<1>1. MemberOK(raw, Closing)
  BY NothingIs DEF Closing
<1>2. Roomy(format, Closing)
  <2>1. Len(<<C_TRAILER>>) = 1 /\ Len(<<>>) = 0
    OBVIOUS
  <2>2. Closing.mode = 0 /\ Len(Closing.name) + 1 = 2 /\ Len(Closing.body) = 0
    BY <2>1 DEF Closing
  <2>3. \A f : Room(format, f, 0) /\ Room(format, f, 2)
    BY SmallHasRoom
  <2> QED BY <2>2, <2>3 DEF Roomy
<1>3. Piece(format, Closing) = Trailer(format, Digits)
  BY DEF Piece, Trailer, Closing
<1> QED BY <1>1, <1>2, <1>3, PieceLaid

PieceAt(format, members, k) ==
  /\ SizeOf(format, members, k) = SizeOf(format, members, k - 1) + Len(Piece(format, members[k]))
  /\ HeldAt(Made(format, members), SizeOf(format, members, k - 1), Piece(format, members[k]))

LEMMA PackedHeld ==
  ASSUME NEW format \in Formats, NEW raw, format = "bin" <=> raw,
         NEW members, Pieces(raw, members)
  PROVE  /\ Len(members) \in Nat
         /\ SizeOf(format, members, 0) = 0
         /\ \A k \in 0..Len(members) : /\ SizeOf(format, members, k) \in Nat
                                       /\ SizeOf(format, members, k) <= Len(Made(format, members))
         /\ \A k \in 1..Len(members) : PieceAt(format, members, k)
         /\ HeldAt(Made(format, members), SizeOf(format, members, Len(members)), Piece(format, Closing))
         /\ Len(Made(format, members))
              = SizeOf(format, members, Len(members)) + Len(Piece(format, Closing))
<1> DEFINE N == Len(members)
           P(k) == Packed(format, members)[k]
           K(k) == SizeOf(format, members, k)
           L(k) == Piece(format, members[k])
           M == Made(format, members)
           l == Piece(format, Closing)
           Q(k) == K(k) <= Len(M) /\ \A i \in 1..K(k) : M[i] = P(k)[i]
<1>1. N \in Nat
  BY DEF Pieces, IsSeq
<1>2. /\ P(0) = <<>> /\ \A k \in 0..N : Cells(raw, P(k))
      /\ \A k \in 1..N : P(k) = P(k - 1) \o L(k)
  <2>1. P(0) = <<>>
    BY PackedSteps
  <2>2. \A k \in 0..N : Cells(raw, P(k))
    BY PackedSteps
  <2>3. ASSUME NEW k \in 1..N PROVE P(k) = P(k - 1) \o L(k)
    <3>1. Grown(format, members, k)
      BY PackedSteps
    <3> QED BY <3>1 DEF Grown
  <2> QED BY <2>1, <2>2, <2>3
<1>3. \A k \in 1..N : Cells(raw, L(k))
  BY PieceOK DEF Pieces
<1>4. Cells(raw, l)
  BY LastOK, PieceOK
<1>5. M = P(N) \o l
  BY MadeOK, LastOK
<1>6. \A k : K(k) = Len(P(k))
  BY DEF SizeOf
<1> HIDE DEF P, K, L, M, l
<1>7. ASSUME NEW k \in 0..N PROVE IsSeq(P(k)) /\ K(k) \in Nat
  BY <1>2, <1>6, CellsIn
<1>8. ASSUME NEW k \in 1..N PROVE IsSeq(L(k)) /\ Len(L(k)) \in Nat
  BY <1>3, CellsIn
<1>9. IsSeq(l) /\ Len(l) \in Nat
  BY <1>4, CellsIn
<1>10. N \in 0..N
  BY <1>1
<1>11. Len(M) = K(N) + Len(l) /\ Len(M) \in Nat
  <2> DEFINE p == P(N)
  <2>1. IsSeq(p) /\ K(N) = Len(p) /\ K(N) \in Nat /\ M = p \o l
    BY <1>5, <1>6, <1>7, <1>10
  <2> HIDE DEF p
  <2>2. Len(p \o l) = Len(p) + Len(l)
    BY <2>1, <1>9, JoinAny
  <2>3. Len(M) = K(N) + Len(l)
    BY <2>1, <2>2
  <2> QED BY <1>9, <2>1, <2>3
<1>12. Q(N)
  <2>1. \A i \in 1..Len(P(N)) : (P(N) \o l)[i] = P(N)[i]
    BY <1>7, <1>9, <1>10, JoinAt
  <2> QED BY <1>5, <1>6, <1>7, <1>9, <1>10, <1>11, <2>1
<1>13. HeldAt(M, K(N), l)
  <2>1. \A i \in 1..Len(l) : (P(N) \o l)[Len(P(N)) + i] = l[i]
    BY <1>7, <1>9, <1>10, JoinAt
  <2> QED BY <1>5, <1>6, <1>7, <1>9, <1>10, <2>1 DEF HeldAt
<1>14. ASSUME NEW k \in 1..N
       PROVE  /\ K(k) = K(k - 1) + Len(L(k))
              /\ \A i \in 1..K(k - 1) : P(k)[i] = P(k - 1)[i]
              /\ \A i \in 1..Len(L(k)) : P(k)[K(k - 1) + i] = L(k)[i]
  <2>1. k \in 0..N /\ k - 1 \in 0..N
    BY <1>1
  <2>2. P(k) = P(k - 1) \o L(k)
    BY <1>2
  <2>3. IsSeq(P(k - 1)) /\ IsSeq(L(k))
    BY <1>7, <1>8, <2>1
  <2>4. /\ Len(P(k - 1) \o L(k)) = Len(P(k - 1)) + Len(L(k))
        /\ \A i \in 1..Len(P(k - 1)) : (P(k - 1) \o L(k))[i] = P(k - 1)[i]
        /\ \A i \in 1..Len(L(k)) : (P(k - 1) \o L(k))[Len(P(k - 1)) + i] = L(k)[i]
    BY <2>3, JoinAny, JoinAt
  <2> QED BY <1>6, <2>2, <2>4
<1>15. \A k \in 0..N : Q(k)
  <2> DEFINE T == {d \in 0..N : Q(N - d)}
  <2> HIDE DEF Q
  <2>1. 0 \in T
    BY <1>1, <1>12
  <2>2. ASSUME NEW d \in 0..(N - 1), d \in T PROVE d + 1 \in T
    <3> DEFINE k == N - d
    <3>1. k \in 1..N /\ k \in 0..N /\ k - 1 \in 0..N /\ N - (d + 1) = k - 1 /\ d + 1 \in 0..N
      BY <1>1
    <3>2. Q(k)
      BY <2>2
    <3> HIDE DEF k
    <3>3. Q(k - 1)
      <4>1. K(k) = K(k - 1) + Len(L(k)) /\ \A i \in 1..K(k - 1) : P(k)[i] = P(k - 1)[i]
        BY <1>14, <3>1
      <4>2. K(k) <= Len(M) /\ \A i \in 1..K(k) : M[i] = P(k)[i]
        BY <3>2 DEF Q
      <4>3. K(k - 1) \in Nat /\ K(k) \in Nat /\ Len(L(k)) \in Nat
        BY <1>7, <1>8, <3>1
      <4> QED BY <1>11, <4>1, <4>2, <4>3 DEF Q
    <3> QED BY <3>1, <3>3
  <2>3. 0..N \subseteq T
    <3> HIDE DEF T
    <3> QED BY <1>1, <2>1, <2>2, UpTo
  <2>4. ASSUME NEW k \in 0..N PROVE Q(k)
    <3>1. N - k \in 0..N /\ N - (N - k) = k
      BY <1>1
    <3> QED BY <2>3, <3>1
  <2> QED BY <2>4
<1>16. ASSUME NEW k \in 1..N PROVE HeldAt(M, K(k - 1), L(k))
  <2>1. k \in 0..N /\ k - 1 \in 0..N
    BY <1>1
  <2>2. K(k) \in Nat /\ K(k - 1) \in Nat /\ Len(L(k)) \in Nat
    BY <1>7, <1>8, <2>1
  <2>3. K(k) = K(k - 1) + Len(L(k)) /\ \A i \in 1..Len(L(k)) : P(k)[K(k - 1) + i] = L(k)[i]
    BY <1>14
  <2>4. \A i \in 1..K(k) : M[i] = P(k)[i]
    BY <1>15, <2>1
  <2>5. ASSUME NEW i \in 1..Len(L(k)) PROVE M[K(k - 1) + i] = L(k)[i]
    <3>1. K(k - 1) + i \in 1..K(k)
      BY <2>2, <2>3
    <3> QED BY <2>3, <2>4, <3>1
  <2> QED BY <2>2, <2>5 DEF HeldAt
<1>17. K(0) = 0
  BY <1>2, <1>6
<1>18. \A k \in 0..N : K(k) \in Nat /\ K(k) <= Len(M)
  BY <1>7, <1>15
<1>19. \A k \in 1..N : K(k) = K(k - 1) + Len(L(k))
  BY <1>14
<1>20. \A k \in 1..N : PieceAt(format, members, k)
  BY <1>16, <1>19 DEF PieceAt, K, L, M
<1> HIDE DEF Q
<1> QED BY <1>1, <1>11, <1>13, <1>17, <1>18, <1>20 DEF P, K, M, l

\* What reading a file comes to.
Stuck(f1, st) == ~st.okay \/ ~Starts(f1, st.pos)
LEMMA StuckStays ==
  ASSUME NEW raw, NEW f1, Cells(raw, f1), NEW k \in 0..Most(f1), Stuck(f1, Reading(f1)[k])
  PROVE  Members(f1) = Reading(f1)[k].members
<1> DEFINE st == Reading(f1)
           top == Most(f1)
           Q(j) == Stuck(f1, st[j]) /\ st[j].members = st[k].members
           T == {d \in 0..(top - k) : Q(k + d)}
<1>1. top \in Nat /\ k \in 0..top /\ top - k \in Nat /\ k + 0 = k
  <2>1. top \in Nat
    BY MostIs
  <2> HIDE DEF top
  <2> QED BY <2>1 DEF top
<1>2. \A j \in 0..top : st[j] \in States(f1)
  BY ReadingSteps
<1>3. \A j \in 1..top : st[j] = ReadMember(f1, st[j - 1])
  BY ReadingSteps
<1>4. Stuck(f1, st[k])
  OBVIOUS
<1>5. Members(f1) = st[top].members
  BY DEF Members
<1> HIDE DEF st, top
<1>6. ASSUME NEW j \in 0..(top - 1), Q(j) PROVE Q(j + 1)
  <2> DEFINE s == st[j]
  <2>1. j \in 0..top /\ j + 1 \in 1..top /\ (j + 1) - 1 = j
    BY <1>1
  <2>2. s \in States(f1) /\ st[j + 1] = ReadMember(f1, s)
    <3>1. st[j + 1] = ReadMember(f1, st[(j + 1) - 1])
      BY <1>3, <2>1
    <3> QED BY <1>2, <2>1, <3>1
  <2>3. Stuck(f1, s) /\ s.members = st[k].members
    BY <1>6
  <2> HIDE DEF s
  <2>4. CASE ~s.okay
    BY <2>2, <2>3, <2>4 DEF ReadMember
  <2>5. CASE s.okay
    <3>1. ~Starts(f1, s.pos)
      BY <2>3, <2>5 DEF Stuck
    <3>2. ReadMember(f1, s) = [s EXCEPT !.okay = FALSE]
      BY <2>5, <3>1 DEF ReadMember
    <3>3. [s EXCEPT !.okay = FALSE].members = s.members /\ ~[s EXCEPT !.okay = FALSE].okay
      BY <2>2 DEF States
    <3> QED BY <2>2, <2>3, <3>2, <3>3 DEF Stuck
  <2> QED BY <2>4, <2>5
<1> HIDE DEF Q
<1>7. Q(k)
  BY <1>4 DEF Q
<1>8. 0 \in T
  BY <1>1, <1>7
<1>9. ASSUME NEW d \in 0..((top - k) - 1), d \in T PROVE d + 1 \in T
  <2>1. k + d \in 0..(top - 1) /\ (k + d) + 1 = k + (d + 1) /\ d + 1 \in 0..(top - k)
    BY <1>1
  <2>2. Q(k + d)
    BY <1>9
  <2>3. Q((k + d) + 1)
    BY <1>6, <2>1, <2>2
  <2> QED BY <2>1, <2>3
<1>10. 0..(top - k) \subseteq T
  <2> HIDE DEF T
  <2> QED BY <1>1, <1>8, <1>9, UpTo
<1>11. Q(top)
  <2>1. top - k \in T
    BY <1>1, <1>10
  <2>2. k + (top - k) = top
    BY <1>1
  <2> QED BY <2>1, <2>2
<1> QED BY <1>5, <1>11 DEF Q, st

LEMMA AppendIs ==
  ASSUME NEW s, IsSeq(s), NEW x
  PROVE  /\ Len(Append(s, x)) = Len(s) + 1 /\ Len(s) \in Nat
         /\ \A i \in 1..Len(s) : Append(s, x)[i] = s[i]
         /\ Append(s, x)[Len(s) + 1] = x
<1>1. PICK S : s \in Seq(S)
  BY DEF IsSeq
<1>2. s \in Seq(S \cup {x}) /\ x \in S \cup {x}
  BY <1>1
<1> QED BY <1>2

\* Members that can be told apart in a file, and a file of which the end may be missing.
Tellable(format, m) == Roomy(format, m) /\ m.name # <<>> /\ m.name[1] # C_TRAILER
AllTellable(format, members) == \A i \in 1..Len(members) : Tellable(format, members[i])
PartOf(f1, m1) == Len(f1) <= Len(m1) /\ \A i \in 1..Len(f1) : f1[i] = m1[i]

LEMMA HeldCut ==
  ASSUME NEW f1, IsSeq(f1), NEW m1, IsSeq(m1), PartOf(f1, m1), NEW at, NEW l, HeldAt(m1, at, l)
  PROVE  HeldAt(f1, at, l)
<1>1. Len(f1) \in Nat /\ Len(m1) \in Nat
  BY DEF IsSeq
<1>2. ASSUME NEW i \in 1..Len(l), at + i <= Len(f1) PROVE f1[at + i] = l[i]
  <2>1. at \in Nat /\ Len(l) \in Nat
    BY DEF HeldAt
  <2>2. at + i \in 1..Len(f1) /\ at + i <= Len(m1)
    BY <1>1, <1>2, <2>1 DEF PartOf
  <2> QED BY <2>2 DEF HeldAt, PartOf
<1> QED BY <1>2 DEF HeldAt

LEMMA NoTrailer ==
  ASSUME NEW m, IsSeq(m.name), m.name # <<>>, m.name[1] # C_TRAILER, NEW p, AsMade(p, m)
  PROVE  ~Ends(p)
<1> DEFINE s == m.name
<1>1. IsSeq(s) /\ s # <<>> /\ s[1] # C_TRAILER /\ p.name = Append(s, NUL)
  BY DEF AsMade
<1> HIDE DEF s
<1>2. 1 \in 1..Len(s) /\ Append(s, NUL) # <<>>
  BY <1>1 DEF IsSeq
<1>3. \A i \in 1..Len(s) : Append(s, NUL)[i] = s[i]
  BY <1>1, AppendIs
<1> QED BY <1>1, <1>2, <1>3 DEF Ends

\* After k members.
AsFar(format, members, f1, k) ==
  /\ k <= Most(f1) /\ Reading(f1)[k] \in States(f1)
  /\ Reading(f1)[k].okay /\ Reading(f1)[k].pos = SizeOf(format, members, k) + 1
  /\ Len(Reading(f1)[k].members) = k
  /\ \A i \in 1..k : AsMade(Reading(f1)[k].members[i], members[i])

LEMMA OneMore ==
  ASSUME NEW format \in Formats, NEW raw, format = "bin" <=> raw,
         NEW members, Pieces(raw, members), AllTellable(format, members),
         NEW f1, Cells(raw, f1), PartOf(f1, Made(format, members)),
         NEW k \in 0..(Len(members) - 1), AsFar(format, members, f1, k),
         SizeOf(format, members, k + 1) <= Len(f1), k + 1 <= Most(f1)
  PROVE  AsFar(format, members, f1, k + 1)
<1> DEFINE N == Len(members)
           m == members[k + 1]
           l == Piece(format, m)
           at == SizeOf(format, members, k)
           to == SizeOf(format, members, k + 1)
           s == Reading(f1)[k]
           p == Parse(f1, at + 1)
           t == Reading(f1)[k + 1]
<1>1. N \in Nat /\ k \in 0..N /\ k + 1 \in 1..N /\ k + 1 \in 0..N /\ (k + 1) - 1 = k
  BY DEF Pieces, IsSeq
<1>2. Len(f1) \in Nat /\ IsSeq(f1) /\ IsSeq(Made(format, members))
  BY MadeOK, CellsIn
<1>3. at \in Nat /\ to \in Nat
  BY <1>1, PackedHeld
<1>4. to = at + Len(l)
  <2>1. PieceAt(format, members, k + 1)
    BY <1>1, PackedHeld
  <2> QED BY <1>1, <2>1 DEF PieceAt
<1>5. HeldAt(f1, at, l)
  <2>1. PieceAt(format, members, k + 1)
    BY <1>1, PackedHeld
  <2>2. HeldAt(Made(format, members), at, l)
    BY <1>1, <2>1 DEF PieceAt
  <2> HIDE DEF at, l
  <2> QED BY <1>2, <2>2, HeldCut
<1>6. MemberOK(raw, m) /\ Tellable(format, m)
  BY <1>1 DEF Pieces, AllTellable
<1>7. Roomy(format, m) /\ Laid(format, m, l) /\ m.name # <<>> /\ m.name[1] # C_TRAILER /\ IsSeq(m.name)
  <2> HIDE DEF m
  <2> QED BY <1>6, PieceLaid DEF Tellable, MemberOK
<1>8. Len(l) \in Nat /\ Len(l) >= 5
  <2> HIDE DEF m, l
  <2> DEFINE n == Len(m.name)
             b == Len(m.body)
             np == NamePad(format, m)
             bp == BodyPad(format, m)
  <2>1. n \in Nat /\ b \in Nat /\ np \in Nat /\ bp \in Nat
    BY <1>6, PadsAre
  <2>2. Len(l) = 5 + n + np + b + bp
    BY <1>7 DEF Laid
  <2> HIDE DEF n, b, np, bp
  <2> QED BY <2>1, <2>2
<1>9. AsFar(format, members, f1, k) /\ to <= Len(f1)
  OBVIOUS
<1>10. k + 1 \in 1..Most(f1) /\ k \in 0..Most(f1) /\ k + 1 \in 0..Most(f1)
  BY <1>1, MostIs
<1>11. t = ReadMember(f1, s) /\ t \in States(f1)
  <2>1. Reading(f1)[k + 1] = ReadMember(f1, Reading(f1)[(k + 1) - 1])
    BY <1>10, ReadingSteps
  <2>2. Reading(f1)[k + 1] \in States(f1)
    BY <1>10, ReadingSteps
  <2> QED BY <1>1, <2>1, <2>2
<1>12. /\ s \in States(f1) /\ s.okay /\ s.pos = at + 1 /\ Len(s.members) = k
       /\ \A i \in 1..k : AsMade(s.members[i], members[i])
  BY <1>9 DEF AsFar
<1> HIDE DEF N, m, l, at, to, s, t
<1>13. AsMade(p, m) /\ p.next = at + Len(l) + 1
  BY <1>4, <1>5, <1>6, <1>7, <1>9, WholeRead
<1>14. Starts(f1, at + 1)
  <2>1. at < Len(f1)
    BY <1>2, <1>3, <1>4, <1>8, <1>9
  <2> QED BY <1>5, <1>6, <1>7, <2>1, StartsThere
<1>15. ~Ends(p)
  BY <1>7, <1>13, NoTrailer
<1> HIDE DEF p
<1>16. t = Put(s, p)
  <2>1. Parse(f1, s.pos) = p
    BY <1>12 DEF p
  <2> QED BY <1>11, <1>12, <1>14, <1>15, <2>1 DEF ReadMember
<1>17. t.okay = s.okay /\ t.pos = p.next /\ t.members = Append(s.members, p)
  BY <1>12, <1>16 DEF Put, States
<1>18. t.pos = to + 1
  BY <1>3, <1>4, <1>8, <1>13, <1>17
<1> DEFINE ms == s.members
<1>19. IsSeq(ms) /\ Len(ms) = k /\ t.members = Append(ms, p)
  BY <1>12, <1>17 DEF States, IsSeq
<1>20. \A i \in 1..k : AsMade(ms[i], members[i])
  BY <1>12
<1> HIDE DEF ms
<1>21. /\ Len(Append(ms, p)) = Len(ms) + 1
       /\ \A i \in 1..Len(ms) : Append(ms, p)[i] = ms[i]
       /\ Append(ms, p)[Len(ms) + 1] = p
  BY <1>19, AppendIs
<1>22. Len(t.members) = k + 1
  BY <1>19, <1>21
<1>23. \A i \in 1..(k + 1) : AsMade(t.members[i], members[i])
  <2> TAKE i \in 1..(k + 1)
  <2>1. CASE i = k + 1
    BY <1>13, <1>19, <1>21, <2>1 DEF m
  <2>2. CASE i # k + 1
    <3>1. i \in 1..k
      BY <1>1, <2>2
    <3> QED BY <1>19, <1>20, <1>21, <3>1
  <2> QED BY <2>1, <2>2
<1>24. k + 1 <= Most(f1)
  OBVIOUS
<1> QED BY <1>11, <1>12, <1>17, <1>18, <1>22, <1>23, <1>24 DEF AsFar, t, to

LEMMA ReadingFollows ==
  ASSUME NEW format \in Formats, NEW raw, format = "bin" <=> raw,
         NEW members, Pieces(raw, members), AllTellable(format, members),
         NEW f1, Cells(raw, f1), PartOf(f1, Made(format, members))
  PROVE  \A k \in 0..Len(members) :
           SizeOf(format, members, k) <= Len(f1) => AsFar(format, members, f1, k) /\ k < Most(f1)
<1> DEFINE N == Len(members)
           K(k) == SizeOf(format, members, k)
           A(k) == AsFar(format, members, f1, k)
           T == {k \in 0..N : K(k) >= 5 * k /\ (K(k) <= Len(f1) => A(k))}
           top == Most(f1)
           len == Len(f1)
<1>1. N \in Nat /\ 0 \in 0..N
  BY DEF Pieces, IsSeq
<1>2. len \in Nat /\ top \in Nat /\ 4 * top > len
  BY MostIs, CellsIn
<1>3. \A k \in 0..N : K(k) \in Nat
  BY PackedHeld
<1>4. K(0) = 0
  BY PackedHeld
<1>5. A(0)
  <2>1. Reading(f1)[0] = Beginning
    BY ReadingSteps
  <2>2. 0 \in 0..Most(f1) /\ 0 <= Most(f1)
    BY <1>2
  <2>3. Reading(f1)[0] \in States(f1)
    BY <2>2, ReadingSteps
  <2>4. Beginning.okay /\ Beginning.pos = 1 /\ Len(Beginning.members) = 0
    BY DEF Beginning
  <2>5. SizeOf(format, members, 0) + 1 = 1
    BY <1>4
  <2>6. \A i \in 1..0 : AsMade(Reading(f1)[0].members[i], members[i])
    OBVIOUS
  <2> QED BY <2>1, <2>2, <2>3, <2>4, <2>5, <2>6 DEF AsFar
<1>6. 0 \in T
  BY <1>1, <1>4, <1>5
<1>7. ASSUME NEW k \in 0..(N - 1), k \in T PROVE k + 1 \in T
  <2> DEFINE l == Len(Piece(format, members[k + 1]))
  <2>1. k \in 0..N /\ k + 1 \in 0..N /\ k + 1 \in 1..N /\ (k + 1) - 1 = k
    BY <1>1
  <2>2. K(k + 1) = K(k) + l
    <3>1. PieceAt(format, members, k + 1)
      BY <2>1, PackedHeld
    <3> QED BY <2>1, <3>1 DEF PieceAt
  <2>3. l \in Nat /\ l >= 5
    <3> DEFINE m == members[k + 1]
               c == Piece(format, m)
               n == Len(m.name)
               b == Len(m.body)
               np == NamePad(format, m)
               bp == BodyPad(format, m)
    <3>1. MemberOK(raw, m) /\ Roomy(format, m)
      BY <2>1 DEF Pieces, AllTellable, Tellable
    <3> HIDE DEF m
    <3>2. Laid(format, m, c)
      BY <3>1, PieceLaid
    <3> HIDE DEF c
    <3>3. n \in Nat /\ b \in Nat /\ np \in Nat /\ bp \in Nat
      BY <3>1, PadsAre
    <3>4. Len(c) = 5 + n + np + b + bp
      BY <3>2 DEF Laid
    <3>5. l = Len(c)
      BY DEF c, m
    <3> HIDE DEF n, b, np, bp, l
    <3> QED BY <3>3, <3>4, <3>5
  <2>4. K(k) >= 5 * k /\ (K(k) <= len => A(k)) /\ K(k) \in Nat /\ K(k + 1) \in Nat
    BY <1>3, <1>7, <2>1
  <2> HIDE DEF l, K
  <2>5. K(k + 1) >= 5 * (k + 1)
    BY <2>1, <2>2, <2>3, <2>4
  <2>6. ASSUME K(k + 1) <= len PROVE A(k + 1)
    <3>1. A(k)
      BY <1>2, <2>2, <2>3, <2>4, <2>6
    <3>2. k + 1 <= top
      BY <1>2, <2>1, <2>5, <2>4, <2>6
    <3>3. SizeOf(format, members, k + 1) <= Len(f1)
      BY <2>6 DEF K
    <3> QED BY <3>1, <3>2, <3>3, OneMore
  <2> HIDE DEF A
  <2> QED BY <2>1, <2>5, <2>6
<1>8. 0..N \subseteq T
  <2> HIDE DEF T
  <2> QED BY <1>1, <1>6, <1>7, UpTo
<1>9. ASSUME NEW k \in 0..N, K(k) <= len PROVE A(k) /\ k < top
  <2>1. K(k) >= 5 * k /\ A(k) /\ K(k) \in Nat
    BY <1>3, <1>8, <1>9
  <2> HIDE DEF K, A, N, top, len
  <2> QED BY <1>1, <1>2, <1>9, <2>1
<1> QED BY <1>9

\* Up to where a file has the members whole.
Whole(format, members, f1, r) ==
  /\ r \in 0..Len(members) /\ SizeOf(format, members, r) <= Len(f1)
  /\ r = Len(members) \/ Len(f1) < SizeOf(format, members, r + 1)
  /\ \A k \in 0..Len(members) : SizeOf(format, members, k) <= Len(f1) => k <= r

LEMMA SomeWhole ==
  ASSUME NEW format \in Formats, NEW raw, format = "bin" <=> raw,
         NEW members, Pieces(raw, members), NEW f1, Cells(raw, f1)
  PROVE  \E r : Whole(format, members, f1, r)
<1> DEFINE N == Len(members)
           K(k) == SizeOf(format, members, k)
           len == Len(f1)
           W(k, r) == /\ r \in 0..k /\ K(r) <= len /\ (r = k \/ len < K(r + 1))
                      /\ \A j \in 0..k : K(j) <= len => j <= r
           T == {k \in 0..N : \E r : W(k, r)}
<1>1. N \in Nat /\ 0 \in 0..N
  BY DEF Pieces, IsSeq
<1>2. len \in Nat
  BY CellsIn
<1>3. \A k \in 0..N : K(k) \in Nat
  BY PackedHeld
<1>4. K(0) = 0
  BY PackedHeld
<1>5. ASSUME NEW k \in 0..(N - 1) PROVE K(k + 1) >= K(k)
  <2> DEFINE c == Piece(format, members[k + 1])
  <2>1. k \in 0..N /\ k + 1 \in 1..N /\ (k + 1) - 1 = k
    BY <1>1
  <2>2. PieceAt(format, members, k + 1)
    BY <2>1, PackedHeld
  <2>3. K(k + 1) = K(k) + Len(c)
    BY <2>1, <2>2 DEF PieceAt
  <2>4. Cells(raw, c)
    BY <2>1, PieceOK DEF Pieces
  <2> HIDE DEF c, K
  <2>5. Len(c) \in Nat
    BY <2>4, CellsIn
  <2> QED BY <1>3, <2>1, <2>3, <2>5
<1> HIDE DEF K, len
<1>6. 0 \in T
  <2>1. W(0, 0)
    BY <1>2, <1>4
  <2> QED BY <1>1, <2>1
<1>7. ASSUME NEW k \in 0..(N - 1), k \in T PROVE k + 1 \in T
  <2>1. PICK r : W(k, r)
    BY <1>7
  <2>2. k \in 0..N /\ k + 1 \in 0..N /\ K(k) \in Nat /\ K(k + 1) \in Nat /\ K(k + 1) >= K(k)
    BY <1>1, <1>3, <1>5
  <2>3. \A j \in 0..(k + 1) : j \in 0..k \/ j = k + 1
    BY <2>2
  <2>4. CASE K(k + 1) <= len
    <3>1. W(k + 1, k + 1)
      BY <2>2, <2>4
    <3> QED BY <2>2, <3>1
  <2>5. CASE len < K(k + 1)
    <3>1. r \in 0..(k + 1) /\ K(r) <= len
      BY <2>1, <2>2
    <3>2. len < K(r + 1)
      BY <2>1, <2>5
    <3>3. ASSUME NEW j \in 0..(k + 1), K(j) <= len PROVE j <= r
      <4>1. j # k + 1
        BY <1>2, <2>2, <2>5, <3>3
      <4> QED BY <2>1, <2>3, <3>3, <4>1
    <3>4. W(k + 1, r)
      BY <3>1, <3>2, <3>3
    <3> QED BY <2>2, <3>4
  <2> HIDE DEF T
  <2> QED BY <1>2, <2>2, <2>4, <2>5
<1>8. 0..N \subseteq T
  <2> HIDE DEF T
  <2> QED BY <1>1, <1>6, <1>7, UpTo
<1>9. PICK r : W(N, r)
  BY <1>1, <1>8
<1> QED BY <1>9 DEF Whole, K, len

\* Of a file that breaks off the members that are whole are read as they were made, and
\* at most one more; of a file that does not, they and no more.
ReadAsMade(format, members, f1, r) ==
  /\ Whole(format, members, f1, r)
  /\ Len(Members(f1)) = r \/ Len(Members(f1)) = r + 1
  /\ \A i \in 1..r : AsMade(Members(f1)[i], members[i])
  /\ Len(f1) = Len(Made(format, members)) => Len(Members(f1)) = Len(members)

LEMMA LastRead ==
  ASSUME NEW format \in Formats, NEW raw, format = "bin" <=> raw,
         NEW f1, Cells(raw, f1), NEW m, MemberOK(raw, m), Roomy(format, m), NEW l, Laid(format, m, l),
         NEW at, HeldAt(f1, at, l), Starts(f1, at + 1), Len(f1) <= at + Len(l)
  PROVE  Parse(f1, at + 1).next > Len(f1)
<1>1. Len(f1) \in Nat /\ at \in Nat /\ Len(l) \in Nat
  BY CellsIn DEF HeldAt
<1>2. at < Len(f1)
  BY <1>1 DEF Starts
<1>3. CASE at + 4 <= Len(f1)
  <2>1. Parse(f1, at + 1).next = at + Len(l) + 1
    BY <1>3, NextRead
  <2> QED BY <1>1, <2>1
<1>4. CASE at + 4 > Len(f1)
  <2> DEFINE n == Parse(f1, at + 1).next
  <2>1. n >= at + 5
    BY <1>2, StartsThere
  <2>2. n \in Int
    <3>1. Parse(f1, at + 1).next \in Nat
      BY <1>1, ParseOK
    <3> QED BY <3>1
  <2> HIDE DEF n
  <2>3. n > Len(f1)
    BY <1>1, <1>4, <2>1, <2>2
  <2> QED BY <2>3 DEF n
<1> QED BY <1>1, <1>3, <1>4

LEMMA MembersRead ==
  ASSUME NEW format \in Formats, NEW raw, format = "bin" <=> raw,
         NEW members, Pieces(raw, members), AllTellable(format, members),
         NEW f1, Cells(raw, f1), PartOf(f1, Made(format, members))
  PROVE  \E r : ReadAsMade(format, members, f1, r)
<1>1. PICK r : Whole(format, members, f1, r)
  BY SomeWhole
<1> DEFINE N == Len(members)
           at == SizeOf(format, members, r)
           m == IF r = N THEN Closing ELSE members[r + 1]
           l == Piece(format, m)
           s == Reading(f1)[r]
           t == Reading(f1)[r + 1]
           p == Parse(f1, at + 1)
           M == Made(format, members)
<1>2. N \in Nat /\ r \in 0..N /\ (r # N => r + 1 \in 1..N /\ (r + 1) - 1 = r)
  BY <1>1 DEF Pieces, IsSeq, Whole
<1>3. Len(f1) \in Nat /\ IsSeq(f1) /\ IsSeq(M) /\ Len(f1) <= Len(M)
  BY MadeOK, CellsIn DEF PartOf
<1>4. at \in Nat /\ at <= Len(f1)
  <2>1. r \in 0..Len(members)
    BY <1>2
  <2>2. SizeOf(format, members, r) \in Nat
    BY <2>1, PackedHeld
  <2> QED BY <1>1, <2>2 DEF Whole
<1>5. MemberOK(raw, m) /\ Roomy(format, m) /\ Laid(format, m, l)
  <2>1. CASE r = N
    BY <2>1, LastOK
  <2>2. CASE r # N
    <3>1. m = members[r + 1] /\ MemberOK(raw, m) /\ Roomy(format, m)
      BY <1>2, <2>2 DEF Pieces, AllTellable, Tellable
    <3> HIDE DEF m
    <3>2. Laid(format, m, l)
      BY <3>1, PieceLaid
    <3> QED BY <3>1, <3>2
  <2> QED BY <2>1, <2>2
<1>6. HeldAt(M, at, l) /\ Len(f1) <= at + Len(l) /\ (r = N => Len(M) = at + Len(l))
  <2>1. CASE r = N
    <3>1. HeldAt(Made(format, members), SizeOf(format, members, Len(members)), Piece(format, Closing))
      BY PackedHeld
    <3>2. Len(Made(format, members)) = SizeOf(format, members, Len(members)) + Len(Piece(format, Closing))
      BY PackedHeld
    <3> QED BY <1>3, <2>1, <3>1, <3>2
  <2>2. CASE r # N
    <3>1. PieceAt(format, members, r + 1)
      BY <1>2, <2>2, PackedHeld
    <3>2. HeldAt(M, at, l) /\ SizeOf(format, members, r + 1) = at + Len(l)
      BY <1>2, <2>2, <3>1 DEF PieceAt
    <3>3. Len(f1) < SizeOf(format, members, r + 1)
      BY <1>1, <2>2 DEF Whole
    <3>4. Len(l) \in Nat
      BY <3>2 DEF HeldAt
    <3> HIDE DEF l, at, M, N
    <3> QED BY <1>3, <1>4, <2>2, <3>2, <3>3, <3>4
  <2> QED BY <2>1, <2>2
<1>7. HeldAt(f1, at, l)
  <2>1. PartOf(f1, M)
    OBVIOUS
  <2> HIDE DEF M, at, l
  <2> QED BY <1>3, <1>6, <2>1, HeldCut
<1>8. AsFar(format, members, f1, r) /\ r < Most(f1)
  <2>1. r \in 0..Len(members) /\ SizeOf(format, members, r) <= Len(f1)
    BY <1>1 DEF Whole
  <2> QED BY <2>1, ReadingFollows
<1>9. /\ s \in States(f1) /\ s.okay /\ s.pos = at + 1 /\ Len(s.members) = r
      /\ \A i \in 1..r : AsMade(s.members[i], members[i])
  BY <1>8 DEF AsFar
<1>10. r + 1 \in 1..Most(f1) /\ r + 1 \in 0..Most(f1) /\ (r + 1) - 1 = r
  BY <1>2, <1>8, MostIs
<1>11. t = ReadMember(f1, s)
  <2>1. Reading(f1)[r + 1] = ReadMember(f1, Reading(f1)[(r + 1) - 1])
    BY <1>10, ReadingSteps
  <2> QED BY <1>10, <2>1
<1>12. Stuck(f1, t) => Members(f1) = t.members
  BY <1>10, StuckStays
<1>13. Parse(f1, s.pos) = p
  BY <1>9
<1>14. Starts(f1, at + 1) => p.next > Len(f1)
  <2> HIDE DEF at, l, m
  <2> QED BY <1>5, <1>6, <1>7, LastRead
<1>15. ASSUME Len(f1) = Len(M), r = N PROVE Ends(p)
  <2>1. at + Len(l) <= Len(f1) /\ m = Closing
    BY <1>3, <1>6, <1>15
  <2> HIDE DEF at, l, m, M
  <2>2. AsMade(Parse(f1, at + 1), m)
    BY <1>5, <1>7, <2>1, WholeRead
  <2> DEFINE c == <<C_TRAILER>>
  <2>3. p.name = Append(c, NUL)
    BY <2>1, <2>2 DEF AsMade, Closing
  <2>4. Len(c) = 1 /\ c[1] = C_TRAILER
    OBVIOUS
  <2>5. IsSeq(c)
    <3>1. MemberOK(raw, Closing)
      BY LastOK
    <3> QED BY <3>1 DEF Closing, MemberOK
  <2> HIDE DEF p, c
  <2>6. Append(c, NUL)[1] = c[1] /\ Append(c, NUL) # <<>>
    <3>1. Len(Append(c, NUL)) = Len(c) + 1 /\ \A i \in 1..Len(c) : Append(c, NUL)[i] = c[i]
      BY <2>5, AppendIs
    <3>2. 1 \in 1..Len(c) /\ Len(c) + 1 # 0
      BY <2>4
    <3> QED BY <3>1, <3>2
  <2> QED BY <2>3, <2>4, <2>6 DEF Ends
<1>16. Len(f1) = Len(M) => r = N
  <2>1. SizeOf(format, members, Len(members)) <= Len(Made(format, members)) /\ N \in 0..N
    BY <1>2, PackedHeld
  <2> QED BY <1>1, <1>2, <2>1 DEF Whole
<1>17. Whole(format, members, f1, r)
  BY <1>1
<1> HIDE DEF N, at, m, l, s, t, p, M
<1>18. CASE ~Starts(f1, at + 1) \/ Ends(p)
  <2>1. t = [s EXCEPT !.okay = FALSE]
    BY <1>9, <1>11, <1>13, <1>18 DEF ReadMember
  <2>2. ~t.okay /\ t.members = s.members
    BY <1>9, <2>1 DEF States
  <2>3. Members(f1) = s.members
    BY <1>12, <2>2 DEF Stuck
  <2>4. ReadAsMade(format, members, f1, r)
    BY <1>9, <1>16, <1>17, <2>3 DEF ReadAsMade, M, N
  <2> QED BY <2>4
<1>19. CASE Starts(f1, at + 1) /\ ~Ends(p)
  <2>1. t = Put(s, p)
    BY <1>9, <1>11, <1>13, <1>19 DEF ReadMember
  <2>2. t.pos = p.next /\ t.members = Append(s.members, p)
    BY <1>9, <2>1 DEF Put, States
  <2>3. ~Starts(f1, t.pos)
    <3>1. Starts(f1, at + 1) => Parse(f1, at + 1).next \in Nat
      BY <1>4, ParseOK
    <3>2. p.next \in Nat /\ p.next > Len(f1)
      BY <1>14, <1>19, <3>1 DEF p
    <3> QED BY <1>3, <2>2, <3>2 DEF Starts
  <2>4. Members(f1) = Append(s.members, p)
    BY <1>12, <2>2, <2>3 DEF Stuck
  <2> DEFINE ms == s.members
  <2>5. IsSeq(ms) /\ Len(ms) = r /\ Members(f1) = Append(ms, p)
    BY <1>9, <2>4 DEF States, IsSeq
  <2>6. \A i \in 1..r : AsMade(ms[i], members[i])
    BY <1>9
  <2> HIDE DEF ms
  <2>7. /\ Len(Append(ms, p)) = Len(ms) + 1
        /\ \A i \in 1..Len(ms) : Append(ms, p)[i] = ms[i]
    BY <2>5, AppendIs
  <2>8. \A i \in 1..r : AsMade(Members(f1)[i], members[i])
    BY <2>5, <2>6, <2>7
  <2>9. Len(f1) # Len(M)
    BY <1>15, <1>16, <1>19
  <2>10. ReadAsMade(format, members, f1, r)
    BY <1>17, <2>5, <2>7, <2>8, <2>9 DEF ReadAsMade, M
  <2> QED BY <2>10
<1> QED BY <1>18, <1>19

\* The path of a member is the one that its name stands for.
LEMMA NulBehind ==
  ASSUME NEW C, NUL \notin C, NEW name \in Seq(C)
  PROVE  CString(Append(name, NUL)) = name /\ CString(name) = name
<1> DEFINE s == Append(name, NUL)
           D == C \cup {NUL}
           t == Cut(s, NUL)
           n == Len(name)
<1>1. /\ s \in Seq(D) /\ Len(s) = n + 1 /\ n \in Nat /\ s[n + 1] = NUL
      /\ \A i \in 1..n : s[i] = name[i] /\ s[i] # NUL
      /\ SubSeq(s, 1, n) = name
  OBVIOUS
<1> HIDE DEF s, D
<1>2. /\ t \in Seq(D \ {NUL}) /\ Len(t) <= Len(s) /\ t = SubSeq(s, 1, Len(t))
      /\ Len(t) < Len(s) => s[Len(t) + 1] = NUL
  <2> HIDE DEF t
  <2> QED BY <1>1, CutIs DEF t
<1> HIDE DEF t
<1>3. Len(t) \in Nat /\ \A i \in 1..Len(t) : t[i] = s[i] /\ t[i] # NUL
  BY <1>1, <1>2
<1>4. Len(t) # n + 1
  BY <1>1, <1>3
<1>5. ~(Len(t) < n)
  <2> SUFFICES ASSUME Len(t) < n PROVE FALSE
    OBVIOUS
  <2>1. Len(t) + 1 \in 1..n
    BY <1>1, <1>3
  <2> QED BY <1>1, <1>2, <2>1
<1>6. Len(t) = n
  <2> DEFINE k == Len(t)
  <2>1. k \in Nat /\ n \in Nat /\ k <= n + 1 /\ k # n + 1 /\ ~(k < n)
    BY <1>1, <1>2, <1>3, <1>4, <1>5
  <2> HIDE DEF k, n
  <2>2. k = n
    BY <2>1
  <2> QED BY <2>2 DEF k
<1>7. t = name
  BY <1>1, <1>2, <1>6
<1>8. CString(name) = name
  BY CutNone, CStringIs
<1> QED BY <1>7, <1>8, CStringIs DEF t, s

LEMMA PathOfMember ==
  ASSUME NEW name, IsName(name), NameParts(name) # <<>>
  PROVE  FilePath(Append(name, NUL)) = Intended(name)
<1> DEFINE C == (STRING \ {NUL}) \cup {"/"}
           D == C \cup {NUL}
           s == Append(name, NUL)
           n == SelectInSeq(CString(name), LAMBDA c : c = "?")
<1>1. name \in Seq(C) /\ NUL \notin C /\ "/" \in C /\ "/" \in D
  BY DEF IsName, NUL
<1>2. s \in Seq(D)
  BY <1>1
<1>3. CString(s) = name /\ CString(name) = name
  <2> HIDE DEF C
  <2> QED BY <1>1, NulBehind
<1>4. Bare(s) = Bare(name)
  BY <1>3 DEF Bare
<1>5. NameParts(name) = Token(IF n = 0 THEN name ELSE SubSeq(name, 1, n - 1))
  BY DEF NameParts
<1>6. NameParts(name) = Token(Bare(name))
  <2>1. n = SelectInSeq(CString(name), LAMBDA c : c = "?")
    OBVIOUS
  <2> HIDE DEF n, C
  <2> QED BY <1>1, <1>5, <2>1, BareIs
<1> HIDE DEF C, D, s
<1>7. Intended(name) = Joined(Leads(Token(Bare(name))))
  BY <1>1, IntendedIs
<1>8. Token(Bare(s)) # <<>>
  BY <1>4, <1>6
<1>9. FilePath(s) = Joined(Leads(Token(Bare(s))))
  BY <1>1, <1>2, <1>8, FilePathOf
<1> QED BY <1>4, <1>7, <1>9 DEF s

\* Where the first n members of an archive end.
LEMMA PackedPrefix ==
  ASSUME NEW format \in Formats, NEW raw, format = "bin" <=> raw,
         NEW members, Pieces(raw, members), NEW n \in 0..Len(members)
  PROVE  /\ Pieces(raw, SubSeq(members, 1, n)) /\ Len(SubSeq(members, 1, n)) = n
         /\ SizeOf(format, SubSeq(members, 1, n), n) = SizeOf(format, members, n)
<1> DEFINE some == SubSeq(members, 1, n)
           N == Len(members)
           T == {k \in 0..n : Packed(format, some)[k] = Packed(format, members)[k]}
<1>1. PICK S : members \in Seq(S)
  BY DEF Pieces, IsSeq
<1>2. N \in Nat /\ n \in Nat /\ n <= N /\ some \in Seq(S) /\ Len(some) = n
      /\ \A i \in 1..n : some[i] = members[i] /\ i \in 1..N
  BY <1>1
<1>3. Pieces(raw, some)
  <2>1. \A i \in 1..N : MemberOK(raw, members[i])
    BY DEF Pieces
  <2> HIDE DEF some
  <2> QED BY <1>2, <2>1 DEF Pieces, IsSeq
<1> HIDE DEF some
<1>4. 0 \in T
  BY <1>2, <1>3, PackedSteps
<1>5. ASSUME NEW k \in 0..(n - 1), k \in T PROVE k + 1 \in T
  <2>1. k + 1 \in 1..n /\ k + 1 \in 1..N /\ k + 1 \in 0..n /\ (k + 1) - 1 = k /\ k + 1 \in 1..Len(some)
    BY <1>2
  <2>2. Grown(format, some, k + 1)
    BY <1>3, <2>1, PackedSteps
  <2>3. Grown(format, members, k + 1)
    BY <2>1, PackedSteps
  <2>4. Packed(format, some)[k] = Packed(format, members)[k] /\ some[k + 1] = members[k + 1]
    BY <1>2, <1>5, <2>1
  <2>5. Packed(format, some)[k + 1] = Packed(format, members)[k + 1]
    BY <2>1, <2>2, <2>3, <2>4 DEF Grown
  <2> QED BY <2>1, <2>5
<1>6. 0..n \subseteq T
  <2> HIDE DEF T
  <2> QED BY <1>2, <1>4, <1>5, UpTo
<1>7. n \in 0..n
  BY <1>2
<1>8. Packed(format, some)[n] = Packed(format, members)[n]
  BY <1>6, <1>7
<1> QED BY <1>2, <1>3, <1>8 DEF SizeOf, some

LEMMA PrefixSize ==
  ASSUME NEW format \in Formats, NEW raw, format = "bin" <=> raw,
         NEW members, Pieces(raw, members), NEW n \in 0..Len(members)
  PROVE  Len(Made(format, SubSeq(members, 1, n)))
           = SizeOf(format, members, n) + Len(Piece(format, Closing))
<1> DEFINE some == SubSeq(members, 1, n)
<1>1. Pieces(raw, some) /\ Len(some) = n /\ SizeOf(format, some, n) = SizeOf(format, members, n)
  BY PackedPrefix
<1> HIDE DEF some
<1>2. Len(Made(format, some)) = SizeOf(format, some, Len(some)) + Len(Piece(format, Closing))
  BY <1>1, PackedHeld
<1> QED BY <1>1, <1>2 DEF some
=============================================================================
