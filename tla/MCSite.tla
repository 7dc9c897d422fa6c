------------------------------- MODULE MCSite -------------------------------
(* A small instance of Site for TLC: sites with an index page, directories, *)
(* a link, hidden files and doubled members, in the four formats.           *)
EXTENDS Site

REG == 33188      \* 0100644, 81A4 in hexadecimal
REG2 == 33060     \* 0100444, 8124: no digit ten
DIR == 16877      \* 040755
LNK == 41471      \* 0120777, A1FF
M(name, mode, body) == [name |-> name, mode |-> mode, body |-> body]
MCHeap == {<<>>, <<"junk">>}
Text(c) == <<Char(c)>>

Index == <<"/", "index", ".html">>
Secret == <<"/", "secret">>
Deep == <<"/", "dir", "/", "hidden">>
Hide == <<Line(Section("index")), Line(Pair("0", Index, "")),
          Line(Section("hide")), Line(Pair("0", Secret, "")),
          Line(Pair("1", Deep, ""))>>
Full == Hide \o <<Line(Comment), Line(Section("error")), Line(Pair("404", Secret, "")),
                  Line(Section("head")), Line(Pair("200", Deep, ""))>>
\* The one entry of [hide] is the last line and has no end.
Open_ == SubSeq(Hide, 1, 3) \o <<Unended(Pair("0", Secret, ""))>>
Broken == <<Line(Empty)>> \o Hide
Gaps == <<Line(Section("index")), Line(Pair("0", <<"/", "none">>, "")),
          Line(Pair("2", Index, "")), Line(Section("hide"))>>
        \o [i \in 1..3 |-> Line(Pair(ToString(i - 1), IF i = 2 THEN Secret ELSE Deep, ""))]
\* An index page without a slash.
Relative == <<Line(Section("index")), Line(Pair("0", Tail(Index), ""))>>
Mime == <<Line(Section("mime")), Line(Pair("text/x", <<".css">>, ""))>>

\* What find and cpio make of a directory, with modes of the owner's choice.
Tree(config, mode) ==
  <<M(<<".">>, DIR, <<>>), M(<<"index", ".html">>, mode, Text("index")),
    M(<<".config">>, mode, config), M(<<"secret">>, mode, Text("secret")),
    M(<<"dir">>, DIR, <<>>),
    M(<<"dir", "/", "index", ".html">>, mode, Text("page")),
    M(<<"dir", "/", "hidden">>, mode, Text("hidden"))>>
Extra(mode) ==
  <<M(<<"a", ".css">>, mode, [i \in 1..10 |-> Char("x")]),
    M(<<"a", ".css">>, mode, Text("second")), M(<<"link">>, LNK, Text("/a.css")),
    M(<<"a", "/", "b", "/", "c", "/", "d", ".css">>, mode, Text("deep"))>>
Archive_(format, members, uses) ==
  [format |-> format, members |-> members, uses |-> uses]

MCArchives ==
  {Archive_(f, Tree(Hide, REG), {"damage"}) : f \in Formats}
  \cup {Archive_(f, Tree(c, REG2), {"edit"}) : f \in Formats, c \in {Hide, Full}}
  \cup {Archive_(f, Tree(Hide \o Mime, REG2) \o Extra(REG2), {"edit"}) : f \in Formats}
  \cup {Archive_("bin", Tree(c, REG), {"edit"}) : c \in {Open_, Broken, Gaps, Relative}}
  \cup {Archive_("newc", Tree(Full \o Mime, REG) \o Extra(REG), {"browse"})}

MCEdits == {M(<<"/", "new", ".css">>, REG2, Text("new")),
            M(<<"/", "secret", "?", "q">>, REG2, Text("changed")),
            M(<<"/", "dir", "/", "..", "/", ".config">>, REG2, <<Line(Blank)>>),
            M(<<"index", ".html">>, REG2, Text("home"))}

Spelt(word) == [i \in DOMAIN word |-> [text |-> word[i], joined |-> i > 1]]
Ask_(cmd, name, words, body) ==
  [cmd |-> cmd, name |-> name, rest |-> FlattenSeq([i \in DOMAIN words |-> Spelt(words[i])]),
   body |-> body]
\* Among them a header that is GET, one that ends so, and a body.
MCRequests ==
  {Ask_("GET", <<"/">>, << >>, FALSE),
   Ask_("GET", <<"/", "a", ".css", "?", "q">>, << >>, FALSE),
   Ask_("GET", <<"/", ".", "/", "secret">>, << >>, FALSE),
   Ask_("GET", <<"/", "link">>, << <<"BUD", "GET">> >>, FALSE),
   Ask_("GET", <<"/", "none">>, << <<"GET">>, <<"header">> >>, FALSE),
   Ask_("POST", <<"/">>, << <<"body">> >>, TRUE)}

\* Spellings: with a query, with dots, with doubled and trailing slashes.
Plain == {Index, Secret, Deep, CONFIG, <<"/", "dir">>, <<"/", "a", ".css">>,
          <<"/", "link">>, <<"/", "none">>, <<"/", "new", ".css">>}
MCNames ==
  Plain \cup {p \o <<"?", "q">> : p \in Plain} \cup {p \o <<"/">> : p \in Plain}
  \cup {<<"/", "..">> \o p : p \in Plain} \cup {<<"/", ".">> \o p : p \in Plain}
  \cup {<<"/", "dir", "/", "..">> \o p : p \in Plain}
  \cup {<<"/", "x", "/", "y", "/", "..", "/", "..">> \o p : p \in Plain}
  \cup {Tail(p) : p \in Plain} \cup {<<"/">> \o p : p \in Plain}
  \cup {<<>>, <<"/">>, <<"/", "/">>, <<"/", ".">>, <<"?", "q">>, <<"/", "?", "q">>,
        <<"/", "dir", "/", "..">>, <<"/", "?", "/", "..", "/", "secret">>}
=============================================================================
