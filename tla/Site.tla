-------------------------------- MODULE Site --------------------------------
(***************************************************************************)
(* An archive on its way to a browser: it is made, it may be damaged, the  *)
(* server opens it, the owner of the CtxWrapper may edit it and save it,   *)
(* and a WebSrv thread answers the requests that come in on a connection   *)
(* of the plain HTTP port.                                                 *)
(***************************************************************************)
EXTENDS Cpio

CONSTANTS
  Archives,    \* [format, members, uses]: uses are what is explored of it
  Heap,        \* what may lie behind a block of memory, up to a NUL
  Edits,       \* [name, mode, body]: what setfile() is called with
  Requests,    \* [cmd, name, rest, body]: what browsers ask for
  Names,       \* the names that the properties try
  BufSize,     \* BUFSIZE, in letters of a request
  MaxEdits, MaxRequests \* bounds

ASSUME SiteAssumption == BufSize \in Nat /\ MaxEdits \in Nat /\ MaxRequests \in Nat

\* What a browser sends, as far as it is told apart: a letter is joined to the one
\* before it if there is no white space between them.
Letters == [text : STRING, joined : BOOLEAN]

\* The parts of a name in front of its query.
NameParts(name) == LET n == SelectInSeq(CString(name), LAMBDA c : c = "?")
                   IN Token(IF n = 0 THEN name ELSE SubSeq(name, 1, n - 1))

\* A name ends at a NUL, and the content of a member is content.
IsName(name) == name \in Seq(STRING \ {NUL})
IsMember(m) == /\ IsName(m.name) /\ m.mode \in Nat /\ m.body \in Seq(ToSet(m.body))
               /\ \A c \in ToSet(m.body) : /\ DOMAIN c \cap {"magic", "number"} = {}
                                           /\ "line" \in DOMAIN c => IsLine(c.line)
ASSUME NamesAssumption == \A name \in Names : IsName(name)
ASSUME RequestsAssumption ==
  \A r \in Requests : /\ r.cmd \in STRING /\ r.name \in Seq(STRING) \ {<<>>}
                       /\ r.rest \in Seq(Letters) /\ r.body \in BOOLEAN
ASSUME EditsAssumption == \A e \in Edits : IsMember(e)
ASSUME ArchivesAssumption ==
  \A a \in Archives : /\ a.format \in Formats /\ a.members \in Seq(ToSet(a.members))
                      /\ \A m \in ToSet(a.members) : IsMember(m)

\* What can be told apart in an archive: a name has a part and is not that of
\* the trailer, and the numbers have room in their fields.
Room(format, field, val) ==
  IF format = "bin" THEN field = "filesize" \/ val < 65536
  ELSE Shifts(val, Base(format), Width(format, field))[Width(format, field)] = 0
Packable(format, m) ==
  /\ NameParts(m.name) # <<>> /\ m.name[1] # C_TRAILER
  /\ Room(format, "mode", m.mode) /\ Room(format, "namesize", Len(m.name) + 1)
  /\ Room(format, "filesize", Len(m.body))
ASSUME PackedAssumption ==
  \A a \in Archives : \A m \in ToSet(a.members) : Packable(a.format, m)

VARIABLES
  archive,  \* as it was made
  file,     \* what is on disk
  site,     \* Server::_ctxwrapper
  type,     \* CPIO::_cpio_type
  norootfs, \* Server::_norootfs
  phase,    \* of the CtxWrapper: "made", "open", "saved", "closed"
  edits,    \* calls of setfile(), delfile() and updatecpio()
  saved,    \* <<the site as it was last saved>>, if it has not changed since
  whole,    \* has the file lost nothing, neither digit nor cell?
  conn,     \* "none", "open", "sending" an answer, "over"
  careful,  \* the manner of the browser
  asked,    \* requests of the browser
  transit,  \* letters it has sent that have not arrived
  wire,     \* letters that have arrived and are not read
  replies
disk == <<archive, file, whole>>
server == <<site, type, norootfs, phase, edits, saved>>
connection == <<conn, careful, asked, transit, wire, replies>>
vars == <<disk, server, connection>>

Init ==
  /\ archive \in Archives
  /\ file = Made(archive.format, archive.members)
  /\ site = NoSite /\ type = "none" /\ norootfs = TRUE
  /\ phase = "made" /\ edits = 0 /\ saved = <<>> /\ whole = TRUE
  /\ conn = "none" /\ careful = TRUE /\ asked = <<>> /\ transit = <<>> /\ wire = <<>>
  /\ replies = <<>>

----------------------------------------------------------------------------
(* The archive. *)

\* A full disk or a copy that broke off; nothing is left of a missing file.
Damage ==
  /\ phase = "made" /\ "damage" \in archive.uses
  /\ file = Made(archive.format, archive.members)
  /\ \E n \in 0..(Len(file) - 1) : file' = SubSeq(file, 1, n)
  /\ whole' = FALSE
  /\ UNCHANGED <<archive, server, connection>>

\* server() with a key "rootfs"; what opencpio() returns is not looked at.
\* After updatecpio() the archive has to be opened again.
Open ==
  /\ phase \in {"made", "saved"}
  /\ \E behind \in Heap : site' = OpenCpio(site, file, behind)
  /\ type' = TypeOf(file, type)
  /\ norootfs' = FALSE
  /\ phase' = "open"
  /\ UNCHANGED <<disk, edits, saved, connection>>

\* server() without that key.
StartWithout ==
  /\ phase = "made" /\ "browse" \in archive.uses
  /\ phase' = "open"
  /\ UNCHANGED <<disk, site, type, norootfs, edits, saved, connection>>

Editable == /\ phase = "open" /\ ~norootfs /\ conn = "none"
            /\ "edit" \in archive.uses

SetMember ==
  /\ Editable /\ edits < MaxEdits
  /\ \E e \in Edits, behind \in Heap :
       site' = SetFile(site, e.name, e.mode, e.body, behind)
  /\ edits' = edits + 1 /\ saved' = <<>>
  /\ UNCHANGED <<disk, type, norootfs, phase, connection>>

DelMember ==
  /\ Editable /\ edits < MaxEdits
  /\ \E e \in Edits : site' = DelFile(site, e.name)
  /\ edits' = edits + 1 /\ saved' = <<>>
  /\ UNCHANGED <<disk, type, norootfs, phase, connection>>

\* Has n a hexadecimal digit ten?
Ten(n) == \E i \in 0..7 : (n \div 16 ^ i) % 16 = 10
Spoilt(path) == LET f == site.rootfs[path]
                IN Ten(f.mode) \/ Ten(Len(f.body)) \/ Ten(Len(path) + 1)

\* updatecpio(): the members are written and the site is empty.
Save ==
  /\ Editable /\ edits < MaxEdits
  /\ edits' = edits + 1
  /\ file' = Update(type, site)
  /\ site' = [site EXCEPT !.rootfs = <<>>]
  /\ saved' = <<site>>
  /\ whole' = (whole /\ (type \in {"newc", "crc"} =>
                            \A path \in DOMAIN site.rootfs : ~Spoilt(path)))
  /\ phase' = "saved"
  /\ UNCHANGED <<archive, type, norootfs, connection>>

\* stop_server() with no connection left.
Close ==
  /\ phase = "open" /\ conn \in {"none", "over"}
  /\ site' = [site EXCEPT !.rootfs = <<>>]
  /\ phase' = "closed"
  /\ UNCHANGED <<disk, type, norootfs, edits, saved, connection>>

----------------------------------------------------------------------------
(* A connection: WebSrv::transfer() and its browser. *)

\* The letters of a request: cmd, name, version, and the rest, which are headers
\* and a body.  Behind a body nothing parts a request from the next one.
Words(r, glued) ==
  <<[text |-> r.cmd, joined |-> glued]>>
  \o [i \in 1..Len(r.name) |-> [text |-> r.name[i], joined |-> i > 1]]
  \o <<[text |-> "HTTP/1.1", joined |-> FALSE]>> \o r.rest
Glued == asked # <<>> /\ asked[Len(asked)].body

Connected == conn \in {"open", "sending"}

Accept ==
  /\ phase = "open" /\ conn = "none" /\ "browse" \in archive.uses
  /\ conn' = "open" /\ careful' \in BOOLEAN
  /\ UNCHANGED <<disk, server, asked, transit, wire, replies>>

\* A careful browser asks for one thing at a time, shortly, when it has the whole
\* answer to the last, and what it sends arrives in one piece.
Ask ==
  /\ Connected /\ Len(asked) < MaxRequests
  /\ \E r \in Requests :
       /\ careful => /\ conn = "open" /\ Len(replies) = Len(asked)
                     /\ Len(Words(r, Glued)) <= BufSize
       /\ asked' = Append(asked, r)
       /\ transit' = transit \o Words(r, Glued)
  /\ UNCHANGED <<disk, server, conn, careful, wire, replies>>

Arrive ==
  /\ Connected /\ transit # <<>>
  /\ \E n \in 1..Len(transit) :
       /\ careful => n = Len(transit)
       /\ wire' = wire \o SubSeq(transit, 1, n)
       /\ transit' = SubSeq(transit, n + 1, Len(transit))
  /\ UNCHANGED <<disk, server, conn, careful, asked, replies>>

\* web_hdrinfo(): what is read is cut into words, of which the first two count and
\* a third has to be there.  A read that ends in a word, or begins in one, has a
\* part of it for a word.
WordStarts(read) == {k \in DOMAIN read : k = 1 \/ ~read[k].joined}
NextWord(read, k) == Min({j \in WordStarts(read) : j > k})
Enough(read) == \E j, k \in WordStarts(read) : 1 < j /\ j < k
Cmd(read) == IF NextWord(read, 1) = 2 THEN read[1].text ELSE "another"
Name(read) == LET j == NextWord(read, 1)
              IN [i \in 1..(NextWord(read, j) - j) |-> read[j + i - 1].text]

Reply(cmd, name, behind) == IF norootfs THEN DefaultAnswer(cmd, name)
                            ELSE Request(site, cmd, name, behind)
Replies(cmd, name) == {Reply(cmd, name, behind) : behind \in Heap}

\* The bug: when the buffer was filled it is read again.
TakeWrong(n) == wire' = IF n < BufSize THEN SubSeq(wire, n + 1, Len(wire)) ELSE wire

\* recv(): what was read is gone, if it was looked at or not.
Take(n) == wire' = SubSeq(wire, n + 1, Len(wire))

\* One read is taken for one request and answered.
Serve ==
  /\ conn = "open" /\ wire # <<>>
  /\ \E n \in {IF Len(wire) < BufSize THEN Len(wire) ELSE BufSize} :
       LET read == SubSeq(wire, 1, n)
       IN /\ Take(n)
          /\ \/ ~Enough(read) /\ conn' = "over" /\ UNCHANGED replies
             \/ /\ Enough(read)
                /\ \E reply \in Replies(Cmd(read), Name(read)) :
                     replies' = Append(replies, reply)
                /\ conn' = "sending"
  /\ UNCHANGED <<disk, server, careful, asked, transit>>

\* send() returns, when the browser has read so much of the answer that the rest
\* fits the connection, or is gone; its result is not looked at.
Sent ==
  /\ conn = "sending"
  /\ conn' = "open"
  /\ UNCHANGED <<disk, server, careful, asked, transit, wire, replies>>

\* The bug: the loop goes on when select() has returned nothing.
IdleWrong ==
  /\ conn = "open" /\ wire = <<>>
  /\ UNCHANGED vars

\* select() runs into the timeout, or the browser has closed the connection.
Idle ==
  /\ conn = "open" /\ wire = <<>>
  /\ conn' = "over"
  /\ UNCHANGED <<disk, server, careful, asked, transit, wire, replies>>

Next == \/ Damage \/ Open \/ StartWithout \/ SetMember \/ DelMember \/ Save \/ Close
        \/ Accept \/ Ask \/ Arrive \/ Serve \/ Sent \/ Idle
Spec == Init /\ [][Next]_vars

\* The thread of the connection goes on where it does not wait: select() has a
\* timeout, so it reads, as Serve does, or is idle.  What Serve replies makes no
\* difference to fairness.  Sent is not fair: no timeout covers it, and a browser
\* need not read.
GoesOn == \/ conn = "open" /\ conn' \in {"sending", "over"} /\ \E n \in 1..Len(wire) : Take(n)
          \/ Idle
FairSpec == Spec /\ WF_<<conn, wire>>(GoesOn)

----------------------------------------------------------------------------
(* What is meant by a name, by an archive and by its .config. *)

\* A name is cut at its query.  Of its parts each name leads one level down and
\* each ".." one up, if there is one; on each level of the path that is meant
\* stands the name that was entered there last.
Level(depth, part) ==
  CASE part = <<"..">> -> IF depth = 0 THEN 0 ELSE depth - 1
    [] part = <<".">> -> depth
    [] OTHER -> depth + 1
Depths(parts) ==
  LET depth[n \in 0..Len(parts)] == IF n = 0 THEN 0 ELSE Level(depth[n - 1], parts[n])
  IN depth
Entered(parts, level) ==
  {n \in 1..Len(parts) : /\ parts[n] \notin {<<"..">>, <<".">>}
                         /\ Depths(parts)[n] = level}
Intended(name) ==
  LET parts == NameParts(name)
  IN Joined([level \in 1..Depths(parts)[Len(parts)] |->
                parts[Max(Entered(parts, level))]])

Root == <<>>
HasQuery(name) == Contains(name, "?")
Absolute(name) == name \in Seq(STRING) /\ name # <<>> /\ name[1] = "/"

\* The members as they were made: of those with one path the first counts.
MadeAt(path) ==
  LET n == SelectInSeq(archive.members, LAMBDA m : Intended(m.name) = path)
  IN IF n = 0 THEN {} ELSE {archive.members[n]}
MadePaths == {Intended(m.name) : m \in ToSet(archive.members)}

\* The lines of .config, if its author kept to what Conf can read: lines that
\* end, no brackets or second "=" in a value, none empty in front.
Config == UNION {ToSet(m.body) : m \in MadeAt(CONFIG)}
Sane ==
  /\ \A c \in Config : /\ "line" \in DOMAIN c
                       /\ c.line.kind # "other" /\ c.line = Seen(c.line)
  /\ \A m \in MadeAt(CONFIG) : m.body # <<>> /\ m.body[1].line.kind # "empty"

\* What its author wants nobody to see.
Private ==
  {CONFIG} \cup
  UNION {LET lines == m.body
             before(i) == {j \in 1..i : lines[j].line.kind = "section"}
             hides(i) == /\ lines[i].line.kind = "pair" /\ before(i) # {}
                         /\ lines[Max(before(i))].line = Section("hide")
         IN {lines[i].line.value : i \in {i \in DOMAIN lines : hides(i)}} :
         m \in MadeAt(CONFIG)}

----------------------------------------------------------------------------
(* Properties. *)

\* Paths of members begin with a slash or are empty, answers have one of the
\* program's four codes, and the counters keep to their bounds.
TypeOK ==
  /\ phase \in {"made", "open", "saved", "closed"}
  /\ type \in Formats \cup {"none"}
  /\ conn \in {"none", "open", "sending", "over"}
  /\ norootfs \in BOOLEAN /\ careful \in BOOLEAN /\ whole \in BOOLEAN
  /\ edits \in 0..MaxEdits /\ Len(asked) <= MaxRequests /\ Len(saved) <= 1
  /\ \A path \in DOMAIN site.rootfs : path # <<>> => path[1] = "/"
  /\ \A i \in DOMAIN replies : replies[i].code \in {200, 301, 400, 404}

\* No spelling of a name brings out what is hidden, nor .config: not after
\* members were set and deleted, not after the archive was saved and opened.
\* (filepath(), getfile(), updateinfo())
HiddenStaysHidden ==
  phase = "open" /\ ~norootfs /\ conn = "none" /\ whole /\ Sane =>
    \A name \in Names :
      LET answer == Request(site, "GET", name, <<>>)
      IN answer.code \in {200, 301} =>
           \A path \in Private \cap DOMAIN site.rootfs :
             site.rootfs[path].body # answer.body \o answer.location

\* A name is answered as the path it stands for, however it is spelled.  Not so
\* the root, and not a directory that is asked for with a query or whose index
\* pages are listed without a slash: see the README.  (filepath(), mimetype(),
\* getcontent())
SpellingIrrelevant ==
  phase = "open" /\ ~norootfs /\ conn = "none" =>
    \A name \in Names, behind \in Heap :
      LET path == Intended(name)
          directory == /\ path \in DOMAIN site.rootfs
                       /\ Kind(site.rootfs[path].mode) = C_ISDIR
          below == \A i \in 1..Len(site.index) : Absolute(site.index[i])
      IN path # Root /\ (directory => below /\ ~HasQuery(name)) =>
           Request(site, "GET", name, behind) = Request(site, "GET", path, behind)

\* Of a file that breaks off at most one member is not what it was: those that
\* are in the file whole are in the site, in every format.  (open(), parse_*())
DamageIsLocal ==
  phase = "open" /\ ~norootfs /\ edits = 0 /\ conn = "none" =>
    LET as(path, m) == /\ site.rootfs[path].mode = m.mode
                       /\ site.rootfs[path].body = m.body
        bad == {path \in DOMAIN site.rootfs :
                  ~ \E m \in MadeAt(path) : as(path, m)}
        size(n) == Len(Made(archive.format, SubSeq(archive.members, 1, n)))
        read == {n \in DOMAIN archive.members : size(n) - size(0) <= Len(file)}
    IN /\ Cardinality(bad) <= 1 /\ (whole => bad = {})
       /\ \A n \in read : LET path == Intended(archive.members[n].name)
                          IN path \in DOMAIN site.rootfs \ bad

\* A site that is saved and opened again answers as before, unless a number
\* with a digit ten was written.  Heads and error pages are left out: they may
\* have been those of members that were changed.  (update(), dump_*(), parse_*())
SavedSiteAnswersAlike ==
  phase = "open" /\ saved # <<>> /\ whole /\ Sane =>
    \A name \in Names :
      LET now == Request(site, "GET", name, <<>>)
          then == Request(saved[1], "GET", name, <<>>)
      IN /\ now.code = then.code /\ now.location = then.location
         /\ now.code = 200 => now.type = then.type /\ now.body = then.body

\* A browser that waits for its answers gets what the maker of the archive put
\* in: the files that are not hidden, 404 for names that are not there, and
\* never the answer to another request.  (opencpio() to WebSrv::transfer())
ServesWhatWasMade ==
  careful /\ whole /\ Sane /\ ~norootfs /\ edits = 0 =>
    /\ Len(replies) <= Len(asked)
    /\ \A i \in DOMAIN replies :
         LET path == Intended(asked[i].name)
             plain == {m \in MadeAt(path) : Kind(m.mode) = C_ISREG}
         IN /\ asked[i].cmd # "GET" <=> replies[i].code = 400
            /\ asked[i].cmd = "GET" /\ path \notin Private \cup {Root} =>
                 /\ \A m \in plain : /\ replies[i].code = 200
                                     /\ replies[i].body = m.body
                 /\ path \notin MadePaths => replies[i].code = 404

\* The answers to one request.
Right(r) == Replies(r.cmd, r.name)

\* A browser that waits has the right answer to each request but the last, whatever
\* its headers and its body are.  (WebSrv::transfer(), web_hdrinfo())
RightAnswers ==
  Connected /\ careful =>
    /\ Len(asked) <= Len(replies) + 1
    /\ \A i \in DOMAIN replies : i <= Len(asked) /\ replies[i] \in Right(asked[i])

\* No word of the requests is GET, nor ends so that a read that begins in it may
\* take it for GET, but the commands.
Unmistakable ==
  \A i \in DOMAIN asked :
    /\ \A k \in DOMAIN asked[i].name : asked[i].name[k] # "GET"
    /\ \A k \in DOMAIN asked[i].rest : asked[i].rest[k].text # "GET"

Good == {i \in DOMAIN replies : replies[i].code # 400}
Rising(f) == \A i, j \in DOMAIN f : i < j => f[i] < f[j]

\* Requests that come in together, in pieces or longer than the buffer may go
\* unanswered, or be taken for bad ones, but what else is answered are requests
\* of the browser, in their order, each at most once.  So far as they are
\* unmistakable: a header, a body or the end of a word that reads GET and comes to
\* stand in front of a read is answered as a request that the browser did not make.
AnswersInOrder ==
  Connected /\ Unmistakable =>
    \E of \in [Good -> DOMAIN asked] :
      Rising(of) /\ \A i \in Good : replies[i] \in Right(asked[of[i]])

\* A connection does not stay for ever: the timeout of select() ends it when the
\* browser has no more to ask, unless it stops reading an answer and stays.
ConnectionEnds == conn = "open" ~> conn = "over" \/ [](conn = "sending")
=============================================================================
