----------------------------- MODULE ConfProofs -----------------------------
(***************************************************************************)
(* What the reader of a configuration holds after each of its lines, for   *)
(* any lines.  It is a recursive function, so this is by induction, for    *)
(* which come first two facts about natural numbers, in first-order form:  *)
(* a set has a least element, and a set with 0 and every successor has     *)
(* them all.                                                               *)
(***************************************************************************)
EXTENDS Conf, FiniteSetTheorems, WellFoundedInduction, TLAPS

\* A set of natural numbers has a least one.
LEMMA LeastNumber ==
  ASSUME NEW T, T \subseteq Nat, T # {}
  PROVE  \E x \in T : \A y \in T : x <= y
<1> DEFINE less == OpToRel(<, Nat)
<1>1. PICK x \in T : \A y \in T : <<y, x>> \notin less
  <2> HIDE DEF less
  <2>1. IsWellFoundedOn(less, Nat)
    BY NatLessThanWellFounded DEF less
  <2> QED BY <2>1, WFMin
<1>2. \A y \in T : ~(y < x)
  BY <1>1 DEF OpToRel
<1> QED BY <1>2

\* A set that holds 0, and with a number below n the next one, holds all up to n.
LEMMA UpTo ==
  ASSUME NEW n \in Nat, NEW T, 0 \in T,
         \A k \in 0..(n - 1) : k \in T => k + 1 \in T
  PROVE  0..n \subseteq T
<1>1. SUFFICES ASSUME (0..n) \ T # {} PROVE FALSE
  OBVIOUS
<1>2. PICK x \in (0..n) \ T : \A y \in (0..n) \ T : x <= y
  <2>1. (0..n) \ T \subseteq Nat
    OBVIOUS
  <2> QED BY <1>1, <2>1, LeastNumber
<1>3. x - 1 \in 0..(n - 1) /\ x - 1 \in T
  BY <1>2
<1>4. (x - 1) + 1 = x
  BY <1>2
<1> QED BY <1>2, <1>3, <1>4

----------------------------------------------------------------------------
(* The reader. *)

OfLines(lines) == /\ Len(lines) \in Nat /\ DOMAIN lines = 1..Len(lines)
                /\ \A i \in DOMAIN lines : IsLine(lines[i])
Shape(st) == /\ DOMAIN st = {"section", "settings", "okay", "reading"}
             /\ st.reading \in BOOLEAN

\* What the reader has after n lines is what it makes of the line n and what it
\* had before.
LEMMA ReadByLine ==
  ASSUME NEW lines, OfLines(lines)
  PROVE  \A n \in 0..Len(lines) :
           ReadUpTo(lines)[n] = IF n = 0 THEN Start
                                ELSE ReadLine(ReadUpTo(lines)[n - 1], lines[n])
<1> DEFINE len == Len(lines)
           Reads(f, k) == f = [n \in 0..k |-> IF n = 0 THEN Start
                                              ELSE ReadLine(f[n - 1], lines[n])]
           T == {k \in 0..len : \E f : Reads(f, k)}
<1>1. len \in Nat
  BY DEF OfLines
<1>2. 0 \in T
  <2>1. \E f : Reads(f, 0)
    <3>1. Reads([n \in 0..0 |-> Start], 0)
      OBVIOUS
    <3> HIDE DEF Reads
    <3> QED BY <3>1
  <2> QED BY <1>1, <2>1
<1>3. ASSUME NEW k \in 0..(len - 1), k \in T PROVE k + 1 \in T
  <2>1. PICK f : Reads(f, k)
    BY <1>3
  <2> DEFINE g == [n \in 0..(k + 1) |-> IF n = k + 1 THEN ReadLine(f[k], lines[k + 1])
                                        ELSE f[n]]
  <2>2. \A n \in 0..(k + 1) : g[n] = IF n = 0 THEN Start ELSE ReadLine(g[n - 1], lines[n])
    <3>1. \A n \in 0..k : f[n] = IF n = 0 THEN Start ELSE ReadLine(f[n - 1], lines[n])
      BY <2>1
    <3>2. \A n \in 0..k : g[n] = f[n]
      BY <1>1
    <3>3. g[k + 1] = ReadLine(g[k], lines[k + 1])
      BY <1>1, <3>2
    <3>4. TAKE n \in 0..(k + 1)
    <3>5. CASE n = k + 1
      BY <3>3, <3>5, <1>1
    <3>6. CASE n = 0
      BY <3>1, <3>2, <3>6, <1>1
    <3>7. CASE n \in 1..k
      <4> n - 1 \in 0..k
        BY <3>7
      <4> QED BY <3>1, <3>2, <3>7
    <3> HIDE DEF g
    <3> QED BY <3>5, <3>6, <3>7, <1>1
  <2>3. Reads(g, k + 1)
    <3> DEFINE h == [n \in 0..(k + 1) |-> IF n = 0 THEN Start
                                          ELSE ReadLine(g[n - 1], lines[n])]
    <3>1. DOMAIN g = DOMAIN h /\ \A n \in DOMAIN g : g[n] = h[n]
      BY <2>2
    <3>2. g = h
      <4>1. g = [n \in DOMAIN g |-> g[n]] /\ h = [n \in DOMAIN h |-> h[n]]
        OBVIOUS
      <4> HIDE DEF g, h
      <4> QED BY <3>1, <4>1
    <3> QED BY <3>2
  <2>4. k + 1 \in 0..len /\ \E h : Reads(h, k + 1)
    <3> HIDE DEF Reads, g
    <3> QED BY <1>1, <2>3
  <2> QED BY <2>4
<1>4. \E f : Reads(f, len)
  <2> HIDE DEF T
  <2>1. 0..len \subseteq T
    BY <1>1, <1>2, <1>3, UpTo
  <2>2. len \in T
    BY <1>1, <2>1
  <2> QED BY <2>2 DEF T
<1>5. Reads(ReadUpTo(lines), len)
  BY <1>4 DEF ReadUpTo
<1> QED BY <1>5

\* A line adds one entry at most, and changes none.
LEMMA LineAdds ==
  ASSUME NEW st, Shape(st), NEW line, IsLine(line), NEW next, next = ReadLine(st, line)
  PROVE  /\ Shape(next)
         /\ \/ next.settings = st.settings
            \/ \E key, value : next.settings = Insert(st.settings, key, value)
<1> DEFINE l == Seen(line)
<1>1. l.kind \in Skipped \cup {"section", "pair", "other"}
  BY DEF IsLine, Seen, Empty, Blank, Comment, Other, Section, Pair, Skipped
<1>2. CASE ~st.reading \/ l.kind \in Skipped
  <2>1. next = st
    BY <1>2 DEF ReadLine, Skipped
  <2> QED BY <2>1
<1>3. CASE st.reading /\ l.kind = "section"
  <2>1. next = [st EXCEPT !.section = l.name, !.okay = TRUE]
    BY <1>3 DEF ReadLine, Skipped
  <2> HIDE DEF l
  <2> QED BY <2>1 DEF Shape
<1>4. CASE st.reading /\ l.kind = "other"
  <2>1. next = [st EXCEPT !.reading = FALSE]
    BY <1>4 DEF ReadLine, Skipped
  <2> HIDE DEF l
  <2> QED BY <2>1 DEF Shape
<1>5. CASE st.reading /\ l.kind = "pair"
  <2>1. next = [st EXCEPT !.okay = TRUE,
                          !.settings = Insert(@, <<st.section, l.key>>, l.value)]
    BY <1>5 DEF ReadLine, Skipped, InsertPair
  <2> HIDE DEF l
  <2>2. Shape(next) /\ next.settings = Insert(st.settings, <<st.section, l.key>>, l.value)
    BY <2>1 DEF Shape
  <2> QED BY <2>2
<1> QED BY <1>1, <1>2, <1>3, <1>4, <1>5

\* One entry at most for each line.
LEMMA EntriesAreFew ==
  ASSUME NEW lines, OfLines(lines), NEW n \in 0..Len(lines)
  PROVE  /\ Shape(ReadUpTo(lines)[n])
         /\ IsFiniteSet(DOMAIN ReadUpTo(lines)[n].settings)
         /\ Cardinality(DOMAIN ReadUpTo(lines)[n].settings) <= n
<1> DEFINE R == ReadUpTo(lines)
           Few(k) == /\ Shape(R[k]) /\ IsFiniteSet(DOMAIN R[k].settings)
                     /\ Cardinality(DOMAIN R[k].settings) <= k
           T == {k \in 0..Len(lines) : Few(k)}
<1>1. Len(lines) \in Nat
  BY DEF OfLines
<1>2. Few(0)
  <2>1. R[0] = Start
    BY <1>1, ReadByLine
  <2>2. DOMAIN Start.settings = {} /\ Shape(Start)
    BY DEF Start, Shape
  <2> HIDE DEF R
  <2> QED BY <2>1, <2>2, FS_EmptySet
<1>3. ASSUME NEW k \in 0..(Len(lines) - 1), Few(k) PROVE Few(k + 1)
  <2>1. R[k + 1] = ReadLine(R[k], lines[k + 1]) /\ IsLine(lines[k + 1])
    <3>1. k + 1 \in 0..Len(lines) /\ k + 1 # 0 /\ (k + 1) - 1 = k /\ k + 1 \in DOMAIN lines
      BY <1>1 DEF OfLines
    <3> HIDE DEF R
    <3> QED BY <3>1, ReadByLine DEF OfLines, R
  <2>2. /\ Shape(R[k + 1])
        /\ \/ R[k + 1].settings = R[k].settings
           \/ \E key, value : R[k + 1].settings = Insert(R[k].settings, key, value)
    <3> HIDE DEF R
    <3> QED BY <1>3, <2>1, LineAdds
  <2>3. CASE R[k + 1].settings = R[k].settings
    <3> HIDE DEF R
    <3>1. Cardinality(DOMAIN R[k].settings) \in Nat
      BY <1>3, FS_CardinalityType
    <3> QED BY <1>3, <2>2, <2>3, <3>1
  <2>4. ASSUME NEW key, NEW value, R[k + 1].settings = Insert(R[k].settings, key, value)
        PROVE  Few(k + 1)
    <3> HIDE DEF R
    <3>1. DOMAIN R[k + 1].settings = DOMAIN R[k].settings \cup {key}
      BY <2>4 DEF Insert
    <3>2. Cardinality(DOMAIN R[k].settings) \in Nat
      BY <1>3, FS_CardinalityType
    <3>3. /\ IsFiniteSet(DOMAIN R[k].settings \cup {key})
          /\ Cardinality(DOMAIN R[k].settings \cup {key})
               \in {Cardinality(DOMAIN R[k].settings), Cardinality(DOMAIN R[k].settings) + 1}
      BY <1>3, FS_AddElement
    <3> QED BY <1>3, <2>2, <3>1, <3>2, <3>3
  <2> QED BY <2>2, <2>3, <2>4
<1> HIDE DEF Few
<1>4. 0..Len(lines) \subseteq T
  <2>1. 0 \in T
    BY <1>1, <1>2
  <2>2. \A k \in 0..(Len(lines) - 1) : k \in T => k + 1 \in T
    BY <1>1, <1>3
  <2> HIDE DEF T
  <2> QED BY <1>1, <2>1, <2>2, UpTo
<1> QED BY <1>4 DEF Few

\* A line that is what it looks like: a header, a pair, or nothing.
LEMMA PlainLine ==
  ASSUME NEW st, Shape(st), st.reading, NEW line, IsLine(line), Seen(line) = line,
         line.kind # "other", NEW next, next = ReadLine(st, line)
  PROVE  /\ next.reading
         /\ next.section = IF line.kind = "section" THEN line.name ELSE st.section
         /\ next.settings = IF line.kind = "pair"
                            THEN Insert(st.settings, <<st.section, line.key>>, line.value)
                            ELSE st.settings
<1>1. Seen(line) = line
  OBVIOUS
<1>2. line.kind \in Skipped \cup {"section", "pair"}
  <2>1. line.kind \in Skipped \cup {"section", "pair", "other"}
    BY DEF IsLine, Empty, Blank, Comment, Other, Section, Pair, Skipped
  <2> QED BY <2>1
<1>3. CASE line.kind \in Skipped
  <2>1. next = st
    BY <1>1, <1>3 DEF ReadLine, Skipped
  <2> QED BY <1>3, <2>1 DEF Skipped
<1>4. CASE line.kind = "section"
  <2>1. next = [st EXCEPT !.section = line.name, !.okay = TRUE]
    BY <1>1, <1>4 DEF ReadLine, Skipped
  <2> QED BY <1>4, <2>1 DEF Shape
<1>5. CASE line.kind = "pair"
  <2>1. next = [st EXCEPT !.okay = TRUE,
                          !.settings = Insert(@, <<st.section, line.key>>, line.value)]
    BY <1>1, <1>5 DEF ReadLine, Skipped, InsertPair
  <2> QED BY <1>5, <2>1 DEF Shape
<1> QED BY <1>2, <1>3, <1>4, <1>5

\* Section sec is the one that line n is in.
Within(lines, n, sec) ==
  \E j \in 1..n : /\ lines[j].kind = "section" /\ lines[j] = Section(sec)
                  /\ \A k \in (j + 1)..n : lines[k].kind # "section"
Lists(lines, i, sec) == lines[i].kind = "pair" /\ Within(lines, i, sec)

\* Of lines that all are what they look like, each value under a name comes from a
\* line in the section of that name.
LEMMA ValuesAsListed ==
  ASSUME NEW lines, OfLines(lines),
         \A i \in DOMAIN lines : Seen(lines[i]) = lines[i] /\ lines[i].kind # "other",
         NEW n \in 0..Len(lines), NEW sec, sec # ANONYMOUS_SECTION,
         NEW key, <<sec, key>> \in DOMAIN ReadUpTo(lines)[n].settings
  PROVE  \E i \in 1..n : /\ Lists(lines, i, sec)
                         /\ ReadUpTo(lines)[n].settings[<<sec, key>>] = lines[i].value
<1> DEFINE R == ReadUpTo(lines)
           From(k) ==
             /\ R[k].reading /\ (R[k].section = sec => Within(lines, k, sec))
             /\ \A w : <<sec, w>> \in DOMAIN R[k].settings =>
                  \E i \in 1..k : Lists(lines, i, sec) /\ R[k].settings[<<sec, w>>] = lines[i].value
           T == {k \in 0..Len(lines) : From(k)}
<1>1. Len(lines) \in Nat
  BY DEF OfLines
<1>2. From(0)
  <2>1. R[0] = Start
    BY <1>1, ReadByLine
  <2>2. Start.reading /\ Start.section = ANONYMOUS_SECTION /\ DOMAIN Start.settings = {}
    BY DEF Start
  <2> HIDE DEF R
  <2> QED BY <2>1, <2>2
<1>3. ASSUME NEW k \in 0..(Len(lines) - 1), From(k) PROVE From(k + 1)
  <2> DEFINE line == lines[k + 1]
             st == R[k]
             next == R[k + 1]
  <2>1. k + 1 \in DOMAIN lines /\ k + 1 \in 0..Len(lines) /\ k + 1 # 0 /\ (k + 1) - 1 = k /\ k \in 0..Len(lines)
    BY <1>1 DEF OfLines
  <2>2. next = ReadLine(st, line) /\ IsLine(line) /\ Seen(line) = line /\ line.kind # "other"
    <3> HIDE DEF R
    <3> QED BY <2>1, ReadByLine DEF OfLines, R
  <2>3. Shape(st)
    BY <2>1, EntriesAreFew
  <2>4. /\ st.reading /\ (st.section = sec => Within(lines, k, sec))
        /\ \A w : <<sec, w>> \in DOMAIN st.settings =>
             \E i \in 1..k : Lists(lines, i, sec) /\ st.settings[<<sec, w>>] = lines[i].value
    BY <1>3
  <2> HIDE DEF R
  <2>5. /\ next.reading
        /\ next.section = IF line.kind = "section" THEN line.name ELSE st.section
        /\ next.settings = IF line.kind = "pair"
                           THEN Insert(st.settings, <<st.section, line.key>>, line.value)
                           ELSE st.settings
    <3> HIDE DEF line, st, next
    <3> QED BY <2>2, <2>3, <2>4, PlainLine
  <2> HIDE DEF st, next
  <2>6. next.section = sec => Within(lines, k + 1, sec)
    <3>1. CASE line.kind = "section"
      <4>1. line = Section(line.name)
        BY <2>2, <3>1 DEF IsLine, Empty, Blank, Comment, Other, Section, Pair
      <4> QED BY <2>1, <2>5, <3>1, <4>1 DEF Within
    <3>2. CASE line.kind # "section"
      BY <2>1, <2>4, <2>5, <3>2 DEF Within
    <3> QED BY <3>1, <3>2
  <2>7. ASSUME NEW w, <<sec, w>> \in DOMAIN next.settings
        PROVE  \E i \in 1..(k + 1) : Lists(lines, i, sec) /\ next.settings[<<sec, w>>] = lines[i].value
    <3>1. CASE <<sec, w>> \in DOMAIN st.settings
      <4>1. PICK i \in 1..k : Lists(lines, i, sec) /\ st.settings[<<sec, w>>] = lines[i].value
        BY <2>4, <3>1
      <4>2. next.settings[<<sec, w>>] = st.settings[<<sec, w>>]
        BY <2>5, <3>1 DEF Insert
      <4> QED BY <4>1, <4>2
    <3>2. CASE <<sec, w>> \notin DOMAIN st.settings
      <4>1. line.kind = "pair" /\ <<sec, w>> = <<st.section, line.key>>
            /\ next.settings[<<sec, w>>] = line.value
        BY <2>5, <2>7, <3>2 DEF Insert
      <4>2. next.section = sec
        BY <2>5, <4>1
      <4>3. Lists(lines, k + 1, sec) /\ k + 1 \in 1..(k + 1)
        BY <2>1, <2>6, <4>1, <4>2 DEF Lists
      <4> QED BY <4>1, <4>3
    <3> QED BY <3>1, <3>2
  <2> QED BY <2>5, <2>6, <2>7 DEF next
<1> HIDE DEF From
<1>4. 0..Len(lines) \subseteq T
  <2>1. 0 \in T
    BY <1>1, <1>2
  <2>2. \A k \in 0..(Len(lines) - 1) : k \in T => k + 1 \in T
    BY <1>1, <1>3
  <2> HIDE DEF T
  <2> QED BY <1>1, <2>1, <2>2, UpTo
<1> QED BY <1>4 DEF From
=============================================================================
