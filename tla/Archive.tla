------------------------------ MODULE Archive ------------------------------
(***************************************************************************)
(* ctxwrapper.cpp: the site.  The members of an archive are kept in        *)
(* _rootfs under their normalised path; the member "/.config" says which   *)
(* of them are index pages, hidden, error pages.  A name is a sequence of  *)
(* characters, but a word between slashes is one character here, and the   *)
(* extension of a file another.                                            *)
(***************************************************************************)
EXTENDS Conf

NUL == "NUL"
CONFIG == <<"/", ".config">>

\* What an archive holds, and in the content of .config a line; a last line
\* may lack its end.  Junk is memory nobody has written to.
Char(c) == [char |-> c]
Line(l) == [line |-> l]
Unended(l) == [unended |-> l]
Junk == [junk |-> TRUE]

----------------------------------------------------------------------------
(* Paths. *)

Before(s, n) == IF n = 0 THEN s ELSE SubSeq(s, 1, n - 1)
CString(s) == Before(s, SelectInSeq(s, LAMBDA c : c = NUL))

\* token(s, "/"): the parts between slashes, up to a NUL.  Of what is read so far
\* the parts that have ended, and the one that has not.
Unread == [parts |-> <<>>, part |-> <<>>]
Parts(st) == IF st.part = <<>> THEN st.parts ELSE Append(st.parts, st.part)
Scan(st, c) == IF c = "/" THEN [parts |-> Parts(st), part |-> <<>>]
               ELSE [st EXCEPT !.part = Append(@, c)]
Scanned(c) ==
  LET st[n \in 0..Len(c)] == IF n = 0 THEN Unread ELSE Scan(st[n - 1], c[n])
  IN st
Token(s) == LET c == CString(s) IN Parts(Scanned(c)[Len(c)])

\* A question mark that is the first character stays.
WithoutQuery(s) ==
  LET n == SelectInSeq(CString(s), LAMBDA c : c = "?")
  IN IF n = 1 THEN s ELSE Before(s, n)

\* The bug: ".." is taken for a name.
StepWrong(path, part) == IF part = <<".">> THEN path ELSE Append(path, part)

\* One part of a path: ".." goes up, at the root it stays.
Step(path, part) ==
  CASE part = <<"..">> -> IF path = <<>> THEN path ELSE Front(path)
    [] part = <<".">> -> path
    [] OTHER -> Append(path, part)

\* Where the first n parts lead, for each n.
Walk(parts) ==
  LET at[n \in 0..Len(parts)] == IF n = 0 THEN <<>> ELSE Step(at[n - 1], parts[n])
  IN at

\* The first n parts as a name, for each n.
Join(s, part) == s \o <<"/">> \o part
Joins(path) ==
  LET s[n \in 0..Len(path)] == IF n = 0 THEN <<>> ELSE Join(s[n - 1], path[n])
  IN s

\* The bug: the slash in front is left out.
JoinedWrong(path) == LET s == Joins(path)[Len(path)] IN SubSeq(s, 2, Len(s))

Joined(path) == Joins(path)[Len(path)]

\* filepath(): without a part the name stays as it was, query and all.
Normalised(s, parts) ==
  IF parts # <<>> THEN Joined(Walk(parts)[Len(parts)])
  ELSE IF s # <<>> /\ s[1] = "/" THEN s ELSE <<"/">> \o s
FilePath(s) == Normalised(s, Token(WithoutQuery(s)))

----------------------------------------------------------------------------
(* The site: _rootfs, and what updateinfo() has made of .config. *)

NoSite == [rootfs |-> <<>>, index |-> <<>>, hide |-> <<>>,
           head |-> <<>>, error |-> <<>>, mime |-> <<>>]
File(mode, body) == [mode |-> mode, body |-> body, visible |-> TRUE]

\* The file type in a mode: its bits above the twelfth.
C_ISDIR == 4
C_ISREG == 8
C_ISLNK == 10
Kind(mode) == (mode \div 4096) % 64

\* A line of .config in memory: the last one, when it has no end, goes on with
\* what lies behind the content, up to a NUL.
ConfigLine(cell, behind) ==
  IF "line" \in DOMAIN cell THEN cell.line
  ELSE IF "unended" \notin DOMAIN cell THEN Other
  ELSE LET l == cell.unended IN
       CASE behind = <<>> \/ l.kind \in {"section", "comment"} -> l
         [] behind # <<>> /\ l.kind = "pair" -> [l EXCEPT !.value = @ \o behind]
         [] OTHER -> Other

\* The entries 0, 1, ... of [index] and of [hide] are read in one loop, until
\* both have had a gap: what the one has behind its first gap counts as long
\* as the other goes on.
Entries(settings, sec) ==
  LET most == Cardinality(DOMAIN settings)
      has(s, n) == Has(settings, s, ToString(n))
      comes(n) == \E s \in {"index", "hide"} : \A i \in 0..(n - 1) : has(s, i)
      list[n \in 0..most] ==
        IF n = 0 THEN <<>>
        ELSE IF comes(n - 1) /\ has(sec, n - 1)
             THEN Append(list[n - 1], settings[<<sec, ToString(n - 1)>>])
        ELSE list[n - 1]
  IN list[most]

\* [head] and [error]: for a status code the content of a member.
Contents(settings, sec, rootfs) ==
  LET at(code) == settings[<<sec, code>>]
  IN [code \in {c \in KeysOf(settings, sec) :
                  at(c) \in DOMAIN rootfs /\ rootfs[at(c)].body # <<>>}
        |-> rootfs[at(code)].body]

\* [mime]: a type and its extensions.
Types(settings) ==
  LET types == KeysOf(settings, "mime")
      of(type) == ToSet(settings[<<"mime", type>>])
  IN [ext \in UNION {of(t) : t \in types} |-> CHOOSE t \in types : ext \in of(t)]

\* updateinfo(): without a .config that can be read all stays as it was, and a
\* member that is hidden once is not shown again.
UpdateInfo(site, behind) ==
  LET body == site.rootfs[CONFIG].body
      conf == OpenMemory([i \in DOMAIN body |-> ConfigLine(body[i], behind)])
      hide == Entries(conf.settings, "hide")
  IN IF CONFIG \notin DOMAIN site.rootfs \/ ~conf.okay THEN site
     ELSE [rootfs |-> [path \in DOMAIN site.rootfs |->
                         [site.rootfs[path] EXCEPT
                            !.visible = @ /\ path \notin ToSet(hide)]],
           index |-> Entries(conf.settings, "index"), hide |-> hide,
           head |-> Contents(conf.settings, "head", site.rootfs),
           error |-> Contents(conf.settings, "error", site.rootfs),
           mime |-> Types(conf.settings)]

\* The bug: of two members with one path the last one stays.
InputWrong(members) ==
  LET paths == [i \in DOMAIN members |-> FilePath(members[i].name)]
      last(path) == members[SelectLastInSeq(paths, LAMBDA p : p = path)]
  IN [path \in ToSet(paths) |-> File(last(path).mode, last(path).body)]

\* input(), called for each member: of two with one path the first one stays.
Input(members) ==
  LET paths == [i \in DOMAIN members |-> FilePath(members[i].name)]
      first(path) == members[SelectInSeq(paths, LAMBDA p : p = path)]
  IN [path \in ToSet(paths) |-> File(first(path).mode, first(path).body)]

Protected(name) == FilePath(name) = CONFIG

\* A member at a path where there is none.
Added(site, path, f) == [site EXCEPT !.rootfs = Insert(@, path, f)]

\* The bug: the member is replaced, and with it what .config says of it.
SetFileWrong(site, name, mode, body, behind) ==
  LET path == FilePath(name) IN
  IF Protected(name) THEN site
  ELSE IF path \in DOMAIN site.rootfs
       THEN [site EXCEPT !.rootfs[path] = File(mode, body)]
  ELSE UpdateInfo(Added(site, path, File(mode, body)), behind)

\* setfile(): a member that is there keeps its visibility.
SetFile(site, name, mode, body, behind) ==
  LET path == FilePath(name) IN
  IF Protected(name) THEN site
  ELSE IF path \in DOMAIN site.rootfs
       THEN [site EXCEPT !.rootfs[path].mode = mode, !.rootfs[path].body = body]
  ELSE UpdateInfo(Added(site, path, File(mode, body)), behind)

DelFile(site, name) ==
  IF Protected(name) THEN site
  ELSE [site EXCEPT !.rootfs = Restrict(@, DOMAIN @ \ {FilePath(name)})]

----------------------------------------------------------------------------
(* Requests and answers. *)

\* The first entry of seq that is in S, or else what else is.
FirstIn(seq, S, else) == LET n == SelectInSeq(seq, LAMBDA x : x \in S)
                         IN IF n = 0 THEN else ELSE seq[n]

\* getfile(): the root is the first index page that is there.
IndexFor(site, path) ==
  IF path \in {<<>>, <<"/">>} THEN FirstIn(site.index, DOMAIN site.rootfs, path)
  ELSE path
Path(site, name) == IndexFor(site, FilePath(name))
Found(site, name) ==
  /\ ~Protected(name)
  /\ Path(site, name) \in {p \in DOMAIN site.rootfs : site.rootfs[p].visible}

\* mimetype(), with two types for its table.
BuiltIn == [ext \in {".html"} |-> "text/html"] @@ [ext \in {".css"} |-> "text/css"]
TypeOfPath(types, path, ext) ==
  CASE path = <<"/">> -> "text/html"
    [] path # <<"/">> /\ ext \in DOMAIN types -> types[ext]
    [] OTHER -> "application/octet-stream"
MimeType(site, name) ==
  TypeOfPath(site.mime @@ BuiltIn, FilePath(name), Last(<<"/">> \o FilePath(name)))

\* An answer: status code, the head that [head] gives it (or none), type, body,
\* and the place to go to instead.
Answered(site, code, type, body, location) ==
  [code |-> code, type |-> type, body |-> body, location |-> location,
   head |-> LET c == ToString(code)
            IN IF c \in DOMAIN site.head THEN site.head[c] ELSE <<>>]
Success(site, name, body) ==
  Answered(site, 200, MimeType(site, name), body, <<>>)

\* The pages for 400 and 404, unless [error] has others.
DefaultPage == <<Char("a page of the program")>>
Failure(site, code) ==
  Answered(site, code, "text/html",
           LET c == ToString(code)
           IN IF c \in DOMAIN site.error THEN site.error[c] ELSE DefaultPage, <<>>)

Page(site, name) ==
  IF Found(site, name) THEN Success(site, name, site.rootfs[Path(site, name)].body)
  ELSE Failure(site, 404)

\* A directory is answered with the first index page below the name as it came in.
Directory(site, name) ==
  LET page(i) == Page(site, name \o site.index[i])
      there == {i \in 1..Len(site.index) : page(i).code = 200}
  IN IF there = {} THEN Failure(site, 404) ELSE page(Min(there))

\* The target of a symbolic link is printed as a C string, which its content is
\* not: what lies behind it goes along.
Content(site, name, file, behind) ==
  CASE Kind(file.mode) = C_ISREG -> Success(site, name, file.body)
    [] Kind(file.mode) = C_ISLNK /\ file.body # <<>> ->
         Answered(site, 301, "", <<>>, file.body \o behind)
    [] Kind(file.mode) = C_ISDIR -> Directory(site, name)
    [] OTHER -> Failure(site, 404)

\* getcontent()
GetContent(site, name, behind) ==
  IF Found(site, name)
  THEN Content(site, name, site.rootfs[Path(site, name)], behind)
  ELSE Failure(site, 404)

Request(site, cmd, name, behind) ==
  IF cmd = "GET" THEN GetContent(site, name, behind) ELSE Failure(site, 400)

\* The answers of a server without an archive.
DefaultAnswer(cmd, name) ==
  IF cmd # "GET" THEN Failure(NoSite, 400)
  ELSE IF name = <<"/">> THEN Answered(NoSite, 200, "text/html", DefaultPage, <<>>)
  ELSE Failure(NoSite, 404)
=============================================================================
