# TLA+ specifications of jackpot

jackpot is a SOCKS5 proxy over TLS. Two processes of the same program make a
tunnel: the *local endpoint* (client side), which applications connect to, and
the *remote endpoint* (server side), which connects to their targets. The
remote endpoint's TLS port also is a web site: whoever does not know the
*serial*, a path both sides are given, sees HTTP only.

This directory holds the models of that program, the TLC configurations that
check them on small instances, and proofs, checked by TLAPS, that hold for
every value of the constants. `PROJECT.json` says for each definition which
lines of the source it stands for. Paths below are relative to `src/`.

    tlc -config Relay.cfg MCRelay          # any run: the .cfg and its MC module
    tlapm LifecycleProofs.tla              # any module whose name ends in Proofs

## 1. The system

| component | source | state | operations | modules |
|---|---|---|---|---|
| connection life cycle | `server.cpp`, `socks5.cpp`, `client.cpp`, `websrv.cpp` | the lists of connection objects, their flags, thread, TLS session and descriptors, `Server::_running`, the condition variable | accept, start, worker, `stop()`, `cleanup_td`, destructors, SIGINT | Lifecycle |
| handshake and mode selection | `server.cpp` (`loc_accept`, `soc_accept`), `client.cpp` and `socks5.cpp` (`init`) | what each end believes the connection to be | connect, TLS handshake, request for the serial, answer, timeouts | Handshake |
| SOCKS5 session | `socks5.cpp` (`transfer`, `stage_*`) | the stage, the table of users, the connection to the target | greeting, login, request | Socks5Session |
| relay | `client.cpp` (`transfer`), `socks5.cpp` (`stage_conn`) | one thread and one buffer per endpoint; the buffers of three connections | `select`, read, blocking write, timeout, end | Relay, Pipe |
| web service | `websrv.cpp` | one connection, keep-alive timer | request, answer, timeout | Site; Handshake on the TLS port; Lifecycle |
| web archive | `ctxwrapper.cpp` | files by path, index, hidden files, error pages | look-up, set, delete; read from and written to an archive | Archive, Site |
| archive reader/writer | `cpio.cpp` | none but the file | parse and dump four formats | Cpio, Site |
| TLS wrapper | `tls.cpp` | context, registry of sessions `_sslcli` | handshake, read, write, close | partly: Handshake, Relay |
| sockets | `sock.cpp` | a descriptor, an address | bind, connect with a limit, resolve | partly: Startup, Handshake, Socks5Session |
| start, pid file | `main.cpp`, `server.cpp` | the pid file, the ports, the table of users | options, configuration, pid file, bind, exit | Startup |
| configuration | `conf.cpp` | sections and keys | parse a file or a block of memory, get, override | Conf |
| utilities | `utils.cpp` | none | splitting; logging | partly: Archive |

How they interact. The event loop thread (`main`, libev) accepts a connection,
allocates an object (`SOCKS5` on the TLS port, `WebSrv` on the web port,
`Client` at a local endpoint), starts a *detached* worker thread on it and
appends it to a list. The worker performs the handshake and serves the
connection with blocking calls; when it ends it calls `stop()`, which sets
`_done` and notifies the cleanup thread. The cleanup thread wakes up by
notification or by timeout and removes and deletes the objects that are done.
SIGINT stops the loop, joins the cleanup thread and deletes the rest. *No lock
protects the lists or the objects*: the locks in `stop()` are commented out.

What is hard in this code, and where it is treated:

* threads that share lists, objects and a condition variable without a lock;
  an object that is deleted while its own worker is still inside `stop()`; heap
  chunks that are reused for the next connection (Lifecycle);
* two ends that decide by different rules what they speak, over a network that
  may fall silent (Handshake);
* calls on blocking sockets that no timeout covers: a write to whoever does not
  read, the rest of a TLS record, the end of a TLS session, on a worker or on the
  cleanup thread that all sessions share (Lifecycle, Handshake, Relay, Site);
* a protocol in stages over records that may hold several messages
  (Socks5Session);
* blocking writes in a loop that relays both ways, closing ends, a timeout that
  writes into the stream (Relay);
* processes that test, create and remove one pid file, and are killed (Startup);
* a reader of configuration files that stops without a word at a line it does
  not understand, and takes some lines for others (Conf, Startup, Archive);
* a web site behind names that have many spellings, read from a file that may be
  cut short, with numbers in four formats, edited and written back (Archive,
  Cpio, Site); requests that a `recv()` cuts where it pleases (Site).

What makes each component correct:

| component | properties |
|---|---|
| life cycle | no traversal follows a node to a freed object or deletes one twice; a session keeps its object and descriptor; ended sessions are reaped although notifications get lost, and SIGINT ends the process, unless a delete is held in `SSL_shutdown()`; nothing but lost nodes is left at exit |
| handshake | two ends with one serial never disagree about the mode; SOCKS5 is spoken only after the serial; the application never sees HTTP; the handshake ends, unless the peer holds back a part of a record or does not read its page |
| SOCKS5 session | no target without a login; both ends at the same stage; success means a target; whoever waits is answered |
| relay | a prefix, in order, once; complete at a clean end; at most one notice, last; the tunnel is taken down, unless an end stays without reading or both endpoints wait for each other |
| web service | a browser that waits gets the right answer; one that does not gets answers in order, none twice, if its requests cannot be mistaken; a connection ends unless an answer is not read |
| archive | what is hidden and `.config` stay so under every spelling, through edits and saves; a file cut short loses one member at most besides those it has lost; a site saved and opened again answers alike |
| start | at most one process per pid file; the file goes with its process; the users in the file are asked for their passwords; one process alone gets to serve |

The hazards themselves, each at its line, are listed in `PROJECT.json`, with
the properties that watch them or a note where none does yet.

## 2. The modules

A definition whose name ends in `Wrong` is the definition after it with a bug
put in (a dropped guard, a missing reset, a swapped order). No other definition
uses it. Each property is run against one of them and must be found violated.
MC modules hold nothing but values for constants.

### Lifecycle

One connection object from `accept()` to `delete`. Actors are the event loop
thread, the cleanup thread and one worker per connection; one action is one
statement wherever another thread can act in between, so `stop()` is six steps
and a sweep is head, visit, destructor, unlink. Objects live in heap chunks
(`Slots`): `chunk` is the pointer a worker holds, `obj` what the chunk contains.
A freed chunk keeps its fields until an object *of the same size* is allocated
there, so a thread with an old pointer reads and writes somebody else's object.
`linked`, `tailbad` and `lost` describe a `std::list` under a `push_back` that
races with `remove_if`: a node may be lost, the tail may dangle, a link may be
written into a freed node (`PushLost`, `PushUnlinkRace`, `PushCrash`). `hit`
records the connections that another one's worker has struck; `fault` how the
process died: the model lets it crash, run into `std::terminate` or free twice,
where the code can. What a worker does while it serves is one step. `InShutdown`
says that a thread stands before the `SSL_shutdown()` of an open session, which
writes to a blocking socket: the step is possible and nothing forces it.

### Handshake

One connection between a peer and the TLS port of a remote endpoint. The peer
is a local endpoint (`ClientX` actions) or a browser (`BrowserX`); the remote
endpoint's steps are `ServerX`. Each has a control point and a belief: tunnel
or web. Wires are sequences with an end; the network may fall silent for good
(`NetFails`), upon which the blocking reads hang, as they do in the code.
Requests are reduced to the path they ask for: a serial or a path is a record of
the number of slashes it begins with and a name, because the two ends add the
slash by different rules. The remote endpoint's timeout is possible while it
waits in `select()` for the first byte of the first request. A browser may send a
record in two pieces (`Part`, then the rest): `select()` returns for the first
(`ServerSelect`), the read in `ServerFirst` waits for the whole (`ServerRecord`).
A page is written in pieces (`out`, `ServerAnswer`), as far as the connection,
which holds `Cap` records, takes them; the write fails when the peer is gone. The TLS handshake may also fail for want of a
certificate or a common version (`ServerNoTls`); no fairness forces that step.

### Socks5Session

The application, the local endpoint's `read_cli()` and the remote endpoint's
`transfer()`. Messages are records; a TLS record is a sequence of them:
`Relay(n)` puts the first `n` waiting messages into one record, as one `recv()`
does; `RelayTimeout` is the limit of the local endpoint's own `select()`, which may
end a negotiation at any point. `Reads` takes a record and looks at its first message only. One action per
stage and outcome. An application takes turns or (`eager`) sends ahead. After
the negotiation only what goes to the target (`taken`) is of interest.

### Relay and Pipe

The two relay loops are one piece of code in two places, and one set of actions
here, with the worker as parameter: `First(w)` is the descriptor it tests first
(the tunnel at the local endpoint, the target at the remote one). `ReadFirst`,
`ReadSecond`, `Write`, `Timeout` and, for the remote endpoint,
`WriteNotice`; `Reap` is the destructor, which first writes the end of the TLS
session and waits for that like for any write. Each direction of each of the three
connections holds `Cap` chunks. `Reset` is TCP's answer to data that reaches a
closed socket: it discards what that side had sent last. `Pipe` is what one
direction promises: the receiver's sequence is a prefix of 1, 2, 3, ...,
followed by a notice at most. `UpPipe` and `DownPipe` state that `Relay`
implements it, with `sent` and `got` of the two ends as the mapping.

### Conf and Startup

`Conf` is `conf.cpp` on lines that are classified: blank, comment, section,
pair, or none of these. `Seen` says what the regular expressions make of a
pair whose value holds a name in brackets (a section) or a second `=` (another
pair). `OpenFile` and `OpenMemory` are the two `open()`, which differ in what
they call success and in how an empty line in front is taken.

`Startup` has processes that start with a command line (`Launch` is `main()`
up to the choice of the role: file, options, the options whose meaning depends
on the role), set up TLS, test for the pid file and create it in two steps, bind
two ports (with the loop over the addresses of a name that always takes the
first), serve, and leave: by SIGINT, by a fault (whose handler calls `exit()`
and so runs the destructor), by being refused, or killed. The destructor tests
for the file and removes it in two steps. `mine` is `Server::_pidfile`,
`pidfiles` and `ports` are what processes share. `overlapped` and `killed`
remember whether two starts were between test and creation at once, and
whether a process was killed.

### Archive, Cpio and Site

`Archive` is `ctxwrapper.cpp` without state: a site is a record of `_rootfs` and
what `updateinfo()` has made of `.config`, and `SetFile`, `DelFile`,
`UpdateInfo`, `GetContent`, `Request` are functions on it. Names are sequences of
characters in which a word is one character, so `filepath()` is what the code
does with them. Two things come in from outside as parameters because they are memory the
code should not read: what lies behind the content of `.config` (`Conf` looks
for a NUL that is not there) and behind the target of a link (printed with `%s`).

`Cpio` reads and writes files that are sequences of cells, one for a magic
number, one for each number of a header, one for each character or byte. A
number is its digits, or raw in the binary format, so a digit that is written
wrongly is read wrongly. `Parse` reads what is not there as `Junk`, and a number
that is not there as zero, as the code does at the end of a file.

`Site` is the state machine above them: an archive is made (`Made`, what
`cpio -o` writes), may break off anywhere (`Damage`), is opened, edited, saved,
opened again, closed; a browser connects and asks, what it sends arrives in pieces,
and `Serve` reads at most `BufSize` letters of it. A letter of a request is what need
not be told apart further; `joined` says that no white space is in front of it. So
`web_hdrinfo()` has its words (`WordStarts`), and a read that ends or begins inside a
word has a part of it for a word. Headers and bodies are letters of the caller's
choice, `GET` among them, and behind a body the next request follows without a gap
(`Glued`). The first word of a read is its command, the second the name, and a third
has to be there (`Cmd`, `Name`, `Enough`). An answer is `sending` until the browser has
read enough of it (`Sent`), which no timeout covers.
A *careful* browser asks for one thing at a time, of less than a buffer, that
arrives at once; a hasty one does as it likes. `setfile()`, `delfile()` and
`updatecpio()` have no caller in this program; they are part of the class, and
are called here in any order, without a connection.

## 3. The runs

| run | instance | result |
|---|---|---|
| `lifecycle_mixed` | remote endpoint, SOCKS5 and WebSrv, 2 lists, a moving clock | traversals see live objects only; a session owns its object and descriptor; a double free takes two threads in one object; only lost nodes leak at exit; types |
| `lifecycle_clients` | local endpoint, 3 connections through *one* chunk | traversals again, with a chunk that is reused twice; a tunnel's descriptor is closed before its object goes |
| `lifecycle_live` | local endpoint, 2 connections, with fairness | an ended connection leaves the list and SIGINT ends the process, unless a delete is held in `SSL_shutdown()` |
| `handshake` | every pairing of serials (equal, different, empty, with a slash), local endpoint or browser, with fairness | the ends agree; only the serial opens a tunnel, and only first; the handshake ends, but for a record that is not completed or a page that is not read |
| `handshake_any200` | the same | **violated**: a page with status 200 is taken for the tunnel |
| `handshake_slash` | the same | **violated**: one serial with a leading slash at both ends does not tunnel |
| `socks5` | 6 offers, 2 tables, 2 pairs, 5 requests, with fairness | no target before the login; in step; success means a target; everybody who takes turns is answered |
| `socks5_open` | the same | **violated**: without users an application that also offers a password is refused |
| `relay` | 3 chunks each way, connections that hold 2, with fairness | both directions implement Pipe; complete at a clean end; taken down unless wedged or held by an end that does not read |
| `startup` | 3 processes, 3 starts; one with 56 files and odd command lines, two that rival for its file and ports; with fairness | one process per pid file; no file left behind; the users of a file are in the table; one alone gets to serve |
| `site` | 21 archives in 4 formats, broken off at every cell; 4 members to set or delete, 3 edits; 6 requests (headers and a body that read `GET` among them), 3 on a connection, 7 letters a read; 90 spellings; with fairness | hidden files, spellings, damage, saving, answers and their order; connections end unless an answer is not read |
| `relay_wedge` | 2 chunks each way, connections that hold 1, with fairness, ends that read and reaped workers too | **violated**: both endpoints wait in a write for ever |

Why the bounds are enough. Lifecycle: the races are between one connection's
worker, the sweep and the accept of one other; a reused chunk takes a second
connection, one struck by a worker whose chunk was reused in between a third.
The clock matters in one comparison only (idle or not), for which two values do.
Handshake: one connection has no influence on another here; `MaxSent` 2 lets
data follow the handshake, and `Cap` 1 holds up the one page of the site that takes
two records. Socks5Session: `CONNECT` with each kind of address
and one command that is not supported are all the cases `stage_requ` tells
apart; the offers have each method alone and both orders of those that matter.
Relay: a wedge takes one chunk more than a connection holds, each way; chunks
are told apart by their numbers, so a loss, a repetition or a swap shows.
Startup: what two processes can do to a file takes two starts, and a third
(`MaxLaunches` 3) finds what they left; one process reads the listings, because
what a file says does not depend on the others. Site: of each member only name,
mode and content matter, and each archive is there for something it has (a
name twice, a link, a directory in a directory, a content of ten bytes, gaps in
numbered entries, a line without end); three edits are set, delete, save; a
request that is longer than a buffer of seven letters has a tail that is read alone,
and two short ones fit in one read; three requests are one in front, one behind and
one in between; a header `GET`, a word that ends in it (`BUD`, `GET`) and a body are
in the requests of the run. Which
archives are damaged, edited or browsed (`uses`) keeps the three apart, which
do not act on each other: editing takes no connection, damage comes before all.

Deadlock is checked in Lifecycle, where the only end is that of the process
(`Terminated`). In the others a session or the last start ends and nothing happens any
more, and a silent network or a wedge stops them for good: `CHECK_DEADLOCK
FALSE`, and the liveness properties say which stops are meant.

Fairness. What the code guarantees is that a thread goes on where it does not wait
for somebody else. All its sockets block, and a timeout covers the waits in `select()`
only; so no step that completes an `SSL_read()`, an `SSL_write()`, a `send()` or an
`SSL_shutdown()` is fair while the other side does not do its part.

* Lifecycle: the event loop, the cleanup thread and every `stop()` run on, except
  `InShutdown`. Nobody has to connect, send or press Ctrl-C. The wait of the cleanup
  thread is a `wait_for`, so it needs no notification. `HeldUp` is the exception in
  `EndedIsReaped` and `SignalEndsProcess`: a thread that deletes stays in
  `SSL_shutdown()` for ever, for whichever connection. It keeps all other
  ended sessions in the list, and the `join()` of SIGINT from returning.
* Handshake: the local endpoint's worker, the remote one's, and the TLS handshake; a
  read waits for a whole record and the write of a page for room. That ended workers are
  reaped is no assumption of the model but the hypothesis `Reaped` of
  `ClientHandshakeEnds`, because Lifecycle shows it with an exception.
  `ServerHandshakeEnds` needs no hypothesis: from the `select()` on, the remote endpoint
  gets to a mode or an end, or is held for ever by what `ServerHeld` names.
* Socks5Session: the relay, the remote endpoint's worker, and an application that reads
  its replies.
* Relay: both loops (a `select()` on idle descriptors times out in the end) and the
  notice, where they do not wait in a write. No end has to send, read or close.
  `EndsUnlessHeld` has `Reaped` as its hypothesis. In `relay_wedge` the ends read and
  workers are reaped as well (`ReadingSpec`): the wedge happens even so.
* Startup: each process runs on until it serves, and until it is gone once it leaves;
  nobody has to start, interrupt or kill one.
* Site: `GoesOn`, the thread of a connection: it reads what has arrived, or its
  `select()` times out. `Sent` is not fair, and no browser has to ask or to read.

The violated properties are what the documentation or the usage text says; the
`findings` in `PROJECT.json` quote it. The wedge: the remote endpoint waits in
`SSL_write()` because the local one does not read the tunnel, and the local one
does not because it waits in `SSL_write()` in the other direction. The timeout
belongs to `select()`, which neither comes back to.

What the passing properties leave open on purpose: `ServingOwnsObject` and
`EndedIsReaped` exempt connections in `hit`, that is, those whose object was
struck by the late `stop()` of a worker whose chunk had been reused: this the
code does not prevent, and the process may crash in several other ways
(`fault`). `TunnelDescriptorClosed` exempts them too: their descriptor may leak. `ClientHandshakeEnds` exempts a silent network. `EndsUnlessHeld`
names the two ways in which a tunnel does not end: a worker that writes to an
application or target which stays and does not read (`Unread`), and the wedge. `DownComplete` and
`UpComplete` are about an end that closes after sending, with nothing unread in
the other direction: a half close ends the whole tunnel.

`PidFileExclusive` exempts histories in which two starts overlapped between
`access()` and the creation of the file, which the code does not prevent, and
`NoFileLeftBehind` those with a kill: a stale file has to be removed by hand
before the program starts again. `UsersAsListed` promises a user his password
only up to the first line the reader does not understand; users behind it do
not exist, and if none are left nobody has to log in.

The properties of Site hold under conditions that are worth knowing, because each
of them excludes something the code does:

* `Sane`: the last line of `.config` ends, none is empty in front, values have no
  brackets and no second `=`. Otherwise entries of `[hide]` are lost or read
  with what lies behind them, and the files they name are shown. Two lists of
  numbered entries are read in one loop, so one list may go on behind a gap
  as long as the other has none; a gap in both ends them.
* `whole`, for saved archives: in `newc` and `crc` no number has a hexadecimal
  digit ten. `to_hex()` writes `:` for it, which `from_hex()` does not read. Mode
  0644 of a regular file is 81A4, so every ordinary file is lost on a save, and a
  name or content of ten bytes takes the members behind it along.
* `path # Root` and, for directories, no query and index pages listed with a slash in
  front: `/?q` and `/dir?q` are answered 404, because the query is cut off behind the
  first character only and because an index page is looked up below the name as it came
  in, so that with `index0 = index.html` `/dir` and `/dir/` differ too. `//` and `/.` name the root:
  the first is answered 404, the second with the page but as `application/octet-stream`.
* `SavedSiteAnswersAlike` leaves out heads and error pages: after `setfile()` on a member
  that is there, they are those of its former content, until the archive is opened
  again. Between a save and the next opening the site is empty.
* `ServesWhatWasMade` and `RightAnswers` are about careful browsers; a hasty one has
  `AnswersInOrder` only: a `recv()` may hold two requests, of which the first is
  answered, or a part of one, which is answered 400 or ends the connection.
* `Unmistakable`, in `AnswersInOrder`: nothing in the requests reads `GET` but their
  commands. Every `recv()` is parsed for itself, so a header `GET`, a body that begins so,
  or a word that the end of a read cuts in front of `GET`, once it comes to stand at the
  front of a read, is answered as a request the browser never made, in the middle of the
  answers it waits for.
* The target of a link is printed up to a NUL that need not be there: any answer in `Heap`.

One thing the documentation says and no property states: `jackpot.conf.5` has a key
`page` in `[web]`, which nothing reads.

## 4. The proofs

All for every value of the constants.

* **LifecycleProofs**: `Inductive` (`IInv` is preserved by every step), `Invariant`,
  `TypeCorrect`, `TraversalSafe`, `SessionSafe`. Assumptions on the constants: a chunk
  has one class, a bound on connections, ordered clock bounds.
  `TraversalSeesLiveObjects` is not inductive: that the object at hand is live needs to
  know that every linked node's object is (`LinkedAlive`), except the one being unlinked
  and those the shutdown loop is past (`Swept`); that the cleanup thread and the
  shutdown loop never delete together (`Phases`, from the join); that the node
  remembered by `remove_if` stays linked (`Successor`); and who allocated where
  (`Allocation`). `ServingOwnsObject` needs that the sweep deletes objects that are done
  only, and that an unstruck session is not done (`Sessions`).
  About what is released: `DoubleFreeNeedsTwo` (DoubleFreeTakesTwo),
  `DescriptorsReleased` (TunnelDescriptorClosed) and `ExitDeletesAll`
  (ExitLeaksOnlyLost). Each has an invariant of its own, inductive relative to `IInv`: a
  deleted thread object or TLS session is still referred to only while the thread that
  deleted it is in `stop()` and has not cleared the pointer (`FreedInStop`); the
  descriptor in a freed chunk, or in one whose destructor is past `close()`, is closed
  (`DescriptorsClosed`); and a live object is in its list, lost, or just being accepted,
  and the shutdown loop is not past it (`NoneForgotten`). One lemma says what a `stop()`
  changes, and one that no other step touches these fields. The second was first stated
  without `hit`, passed in the run, and could not be proved: with four connections
  through one chunk a worker whose object was deleted twice over stores its descriptor
  in a chunk somebody else has, behind the close. The property now exempts the struck
  connections, which the run with three did not need.
  `TerminateNeedsRace`: a worker's object holds a joinable thread only while the main
  loop is accepting that connection and has not come to `detach()`
  (`JoinableInAccept`), so the `std::terminate` of a `stop()` comes from the worker that
  overtook its own `start()` or from one whose chunk was given to the new connection.
* **HandshakeProofs**: `EndsAgree` (SameMode), `AppIsClean` (AppSeesOnlyTunnelData),
  `SerialGuards` (TunnelOnlyOnSerial), `TypeCorrect`. The invariant ties each end's
  control point to what is on the wires.
* **Socks5SessionProofs**: `LoginGuards` (AuthBeforeConnect, inductive by itself),
  `KeepsStep` (InStep), `TypeCorrect`. InStep follows from `Turn`, which says for every
  control point of an application that takes turns what is in flight and at which stage
  the session is, and `ReplyComing`, which says that the reply to a request comes before
  anything else. `StreamIsClean` (StreamReachesTarget) holds for applications that send
  ahead too, so it cannot rest on `Turn`. Its invariant `SInv` says which messages of
  the negotiation may be under way at each stage and that each was sent once
  (`Upstream`), and which replies an application may still find at each of its control
  points (`Downstream`): at the stage that forwards nothing but payload is left.
  Assumptions: offers are non-empty sequences of methods, tables are sets of pairs.
* **StartupProofs**: `FileGuards` (PidFileExclusive) and `FilesAreRemoved`
  (NoFileLeftBehind), for any number of processes, command lines and files, from
  `Inductive`. `PidFileExclusive` is not inductive: it needs that a process about to
  create the file found none and is the only one about to (`Owned`, unless starts
  overlapped), that a refused process never calls the file its own (`Places`), and that
  a file that cannot be created is not there (`NeverThere`), for a process that fails
  there leaves with `_pidfile` set. `ServersListen`: a process that serves holds the
  ports its settings name, whatever the others do, hence no two serve on one port; from
  `PInv` (nobody is left on a port who is gone or has not come to it yet, and who is
  past a `bind()` holds that port). `TypeCorrect`. `ListedUsersServed` (UsersAsListed)
  follows a user from the line of a file into the table, for any file: the reader and
  the table are recursive functions (`ReadUpTo`, `Tables`), and what they hold after n
  steps is shown by induction. `Understood`: up to the first line that is not what it
  looks like, the reader is in the section the author means, and has for each key of
  `[user]` the value of its first line. What is read stays (`EntriesStay`), options
  overwrite none of it, the numbers without a gap are all counted because there are no
  more keys than lines (`NumberedIsLong`), and the first value of a name is the one that
  stays in the table. Assumptions: `None` is no process; command lines are numbered; the
  number of starts is a natural number; ports are integers; files are sequences of
  lines; `user0`, `user1`, ... are so many different keys.
* **ConfProofs**: what the reader of a configuration holds after each line, for any lines;
  both StartupProofs and SiteProofs rest on it. With it what an induction over numbers
  needs, in first-order form: a set of numbers has a least element, and one that holds 0
  and each successor holds all up to a bound. Both from the well-foundedness of `<`; the
  library's rules take an operator as a parameter, which no prover here can instantiate.
  `ValuesAsListed`: of lines that all are what they look like, each value under a name
  comes from a line in the section of that name.
* **ArchiveProofs**: what the operators of Archive and Cpio compute, for names, numbers
  and files of any length. They are recursive functions; `Recursion` says once that such
  a function exists and `Determined` that it is the only one, and each fact is an
  induction over its steps. `FilePathIsIntended`: `filepath()` leads where a
  name is meant to lead, for every name but those of the root. A number that `cpio -o`
  writes is the number that is read, in each of the four formats, where it has room in its
  field. What `Parse()` reads of *any* cells are members that can be written again; and of
  a file that was made, or of any beginning of one, it reads the members it has in full,
  in order, then at most one more (`MembersRead`): the cells are divided into pieces
  (`Laid`), the reader stands at the beginning of a piece after each member (`HeldAt`,
  `ReadingFollows`), and once it does not find a magic number it stays where it is
  (`StuckStays`). Assumption: `PackedAssumption`, names have a part, are not `TRAILER!!!`,
  and numbers have room in their fields.
* **SiteProofs**: `AnswersAreRight` (RightAnswers) for any archives, requests and
  buffer, from `Inductive`: a careful browser has one request under way, all of it in
  transit or all of it on the wire (`UnderWay`), so that what `recv()` cuts off is one
  request. `AnswersKeepOrder` (AnswersInOrder) is about a hasty one, of whose requests
  some are answered and some are swallowed or cut, inside a word too: as long as the
  requests are `Unmistakable`, its good answers are those of a
  rising selection of them. Stated with that selection as a function, it follows
  from `OInv`: each `GET` still ahead of the thread begins a request behind all those
  answered, with its name next to it; anything else that is read as a request is
  answered 400. The condition is on what the browser sends, not on the model: headers and
  bodies are any letters, and the run has some that break it. About the archive, after any edits: `EditsStayLocal` (one call of
  `setfile()` or `delfile()` changes one member at most, never `.config`, and makes no
  other member visible) and `SecretsAreKept` (a page or a redirect comes from a member
  that `.config` does not list under `[hide]`, and from `.config` only where `[index]`
  names it). They rest on `EInv`: what `[hide]` lists is invisible, because
  `.config` cannot be edited, a member that is replaced keeps its visibility and one that
  is added is looked up in `.config`. Both speak of what `.config`
  says; `HiddenStaysHidden` speaks of what its maker meant, which is more, and is only
  model-checked. `SpellingDoesNotMatter` (SpellingIrrelevant) needs no invariant: it
  holds of any site, because a path `filepath()` made is a name of itself
  (`AlikeAnswered`). `SiteTypes` (TypeOK) follows the contents around the circle of
  reading, editing and writing: that what a file holds are cells is not inductive, for
  what is written comes from members that were read, so `TInv` says of each site that its
  members can be written, each under a path (`SiteOK`), and of each file that its cells
  are readable. `DamageStaysLocal` (DamageIsLocal): until the first edit the file is the
  archive as it was made or a beginning of it, and the site is what `Parse()` makes of
  that (`DInv`, inductive relative to `TInv`); the rest is `MembersRead`. `MadeIsServed`
  (ServesWhatWasMade) is where these come together: a careful browser gets what was made.
  It needs the right answer to each request (`IInv`), a site that has all that was made
  (`DInv`), paths that are meant (`FilePathIsIntended`), and that nothing is hidden but
  what the author lists (`VInv`), for which the entries of `[hide]` are followed from the
  line of `.config` through the reader and the loop over numbered keys (`HiddenAsListed`).
  When a connection is over the site may be closed, so `SInv` keeps what held before.
  Where `.config` cannot be read, or its last line has no end and goes on with whatever is
  in memory, `SecretsAreKept` claims nothing. Assumptions: a size of the buffer, names without a NUL (`NamesAssumption`), members with a name, a mode and a
  content (`EditsAssumption`, `ArchivesAssumption`), targets of requests that are
  sequences of characters (`RequestsAssumption`), and `PackedAssumption` as above.
* **RelayProofs**: `UpRefines` and `DownRefines` (each direction implements `Pipe`, for
  connections of any capacity and any amount of data) and `TypeCorrect`. That the
  receiver has a prefix of what was sent says nothing of what is on its way, so it is
  not inductive. `FlowInductive` is: read from the receiver back to the sender, what was
  received, what is on a connection and what a worker has read and not yet written is 1,
  2, 3, ... up to the first worker that has left its loop, because only behind such a
  worker may something be missing (`Relayed`). Where everybody is still there it ends
  with the last chunk sent. The notice of a timeout is appended by a worker that has
  left its loop, so nothing follows it. One lemma for each kind of step, for any of the
  two directions (`Route`); a step moves what is under way on (`SameFlow`), does not
  touch it (`Quiet`), or cuts it behind a node that has closed (`ResetRelays`).
  `UpIsComplete` and `DownIsComplete` (UpComplete, DownComplete) add that nothing is
  missing at a clean end: `CInv` (`CountsInductive`) says that behind a worker that left
  its loop without a timeout or a failed write nothing is left unread (`Drained`),
  because a read finds the end of a connection only once it is empty, and that the
  numbers of chunks sent, on their way and received add up. Assumption: a connection
  holds one chunk at least.

Only model-checked: everything with fairness (TLAPS has no rules for it here):
`EndedIsReaped`, `SignalEndsProcess`, `ServerHandshakeEnds`,
`ClientHandshakeEnds`, `Answered`, `EndsUnlessHeld`, `LoneStartServes`,
`ConnectionEnds`; and two invariants of Site, which are about chosen archives:

* `HiddenStaysHidden` is not a theorem of all archives: entries of `[hide]` have to be
  numbered without a gap, and contents have to differ for a look at the answer to tell
  whose it is. The run's archives are chosen so. What holds of all is `SecretsAreKept`.
* `SavedSiteAnswersAlike` neither: a member that stands for the root itself, whose
  path is empty, comes back from a saved archive under another one.

## 5. What is abstracted

* The build without `USE_SMARTPOINTER`. A freed chunk is reused for an object of
  the same class only.
* Serials contain no blanks. A SOCKS5 message is never split over two reads, and its
  lengths are below 128 (the code reads them as signed characters).
* A write on a blocking socket takes the whole buffer, as it does without
  signal handlers that interrupt workers. A record of the tunnel is read whole:
  both ends write and read at most `BUFSIZE` bytes. In Handshake the local endpoint's
  records come whole, a browser's may come in parts.
* The answer to the serial and the first request are the first records on their
  connection, and their writes do not wait.
* Times are not measured: a timeout is possible whenever its wait is on.
* Startup: the local endpoint goes on with the name of a remote one that cannot be
  resolved, because server.cpp:89 stops at -1 only, an error of `getaddrinfo()` that this
  call cannot give; without an `ip` it stops. A command line is a function from options to values, so none is given
  twice; regular expressions by the kind of a line.
* Archive: of the built-in types two; letters of the magic numbers and fields of a header
  that the site does not use (inode, owner, times, checksum) are left out; the
  8-bit counter of the entries in `[index]` and `[hide]`, which wraps at 256, is a number; the
  members of a saved archive have one fixed order.
* Logging, formatting of pages and headers, certificates, ciphers.

## 6. Not modelled

* `TLS::_sslcli`, the registry of TLS sessions that all threads change without a lock:
  what a damaged `std::map` does is undefined. It holds addresses for messages and a
  descriptor for `setnonblock()`.
* `Conf::update()` and `del()`, which have no caller.
* `closecpio()` at shutdown while detached threads of the web port still answer: `Close`
  waits for the connection. The order of the shutdown itself is in Lifecycle.
* Resolving names beyond "which addresses are there", UDP and BIND of SOCKS5 (which the
  code refuses), logging, the parts of `utils.cpp` with no state.

## 7. Plan

Done: Lifecycle, Handshake, Socks5Session, Relay with Pipe, Conf, Startup, Archive, Cpio,
Site. In this order:

1. `Tunnel`: Handshake, Socks5Session and Relay one after the other; abstract
   specification: an authenticated pipe between an application and its target.
   Several tunnels under one cleanup thread that may wait in a destructor.
2. The order of a saved archive as a choice, and connections while a site is edited, should
   the program ever call `setfile()`.
3. A saved archive read back, as in `MembersRead` for one that was made, and from it what
   of `SavedSiteAnswersAlike` holds of all archives.
