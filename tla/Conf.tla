------------------------------- MODULE Conf -------------------------------
(***************************************************************************)
(* conf.cpp: an ini file read line by line into a map of sections and      *)
(* keys.  A line is what its author wrote; the readers see it through four *)
(* regular expressions, tried in the order blank, comment, section, pair.  *)
(* The last two search: a name in brackets anywhere in a line makes it a   *)
(* section header, and of several "=" the last that leaves a value is the  *)
(* one that splits.                                                        *)
(***************************************************************************)
EXTENDS Naturals, SequencesExt

Empty == [kind |-> "empty"]             \* no character at all
Blank == [kind |-> "blank"]             \* blanks and tabs
Comment == [kind |-> "comment"]
\* Anything else: a key without a value, a header with a blank in it, the
\* lone carriage return of a file with DOS line ends.
Other == [kind |-> "other"]
Section(name) == [kind |-> "section", name |-> name]
\* odd: "[" for a value with a name in brackets, "=" for one with an equals
\* sign in it, "" otherwise.
Pair(key, value, odd) ==
  [kind |-> "pair", key |-> key, value |-> value, odd |-> odd]
Skipped == {"empty", "blank", "comment"}
IsLine(line) ==
  \/ line \in {Empty, Blank, Comment, Other}
  \/ line.kind = "section" /\ line = Section(line.name)
  \/ line.kind = "pair" /\ line = Pair(line.key, line.value, line.odd)

\* What the expressions make of a line.
Seen(line) ==
  IF line.kind = "pair" /\ line.odd = "[" THEN Section("in brackets")
  ELSE IF line.kind = "pair" /\ line.odd = "="
       THEN Pair("key and half the value", "the other half", "")
  ELSE line

ANONYMOUS_SECTION == "anonymous"
Start == [section |-> ANONYMOUS_SECTION, settings |-> <<>>,
          okay |-> FALSE, reading |-> TRUE]

\* insert() on a map: what is at the key stays.
Insert(map, key, value) ==
  [k \in DOMAIN map \cup {key} |-> IF k \in DOMAIN map THEN map[k] ELSE value]

\* The bug: of two lines with one key the last one stays.
InsertPairWrong(st, line) ==
  [st EXCEPT !.okay = TRUE,
             !.settings = (<<st.section, line.key>> :> line.value) @@ @]

\* _settings[section]->insert(): of two lines with one key the first stays.
InsertPair(st, line) ==
  [st EXCEPT !.okay = TRUE,
             !.settings = Insert(@, <<st.section, line.key>>, line.value)]

\* A line that is neither skipped, a section nor a pair ends the reading: the
\* rest of the file is dropped, and nobody is told.
ReadLine(st, line) ==
  LET l == Seen(line) IN
  CASE ~st.reading -> st
    [] st.reading /\ l.kind \in Skipped -> st
    [] st.reading /\ l.kind = "section" ->
         [st EXCEPT !.section = l.name, !.okay = TRUE]
    [] st.reading /\ l.kind = "pair" -> InsertPair(st, l)
    [] st.reading /\ l.kind = "other" -> [st EXCEPT !.reading = FALSE]

\* What the first n lines leave, for each n.
ReadUpTo(lines) ==
  LET st[n \in 0..Len(lines)] == IF n = 0 THEN Start ELSE ReadLine(st[n - 1], lines[n])
  IN st

\* Conf::open() on a file.
OpenFile(lines) == ReadUpTo(lines)[Len(lines)]

\* Conf::open() on memory.  Lines that are skipped count as success, empty
\* lines are skipped at the end of a line only: a leading one ends it all.
OpenMemory(lines) ==
  LET st == OpenFile(lines)
      some == Len(lines) > 0 /\ lines[1].kind \notin {"empty", "other"}
  IN IF some THEN [st EXCEPT !.okay = TRUE] ELSE Start

Has(settings, sec, key) == <<sec, key>> \in DOMAIN settings
Get(settings, sec, key, default) ==
  IF Has(settings, sec, key) THEN settings[<<sec, key>>] ELSE default
KeysOf(settings, sec) == {at[2] : at \in {at \in DOMAIN settings : at[1] = sec}}

\* The values of keys numbered from 0 on, up to the first that is missing.
Numbered(settings, sec, prefix) ==
  LET key(n) == prefix \o ToString(n)
      gap(n) == ~Has(settings, sec, key(n))
      size == Cardinality(KeysOf(settings, sec))
      count == CHOOSE n \in 0..size : gap(n) /\ \A i \in 0..(n - 1) : ~gap(i)
  IN [i \in 1..count |-> settings[<<sec, key(i - 1)>>]]
=============================================================================
