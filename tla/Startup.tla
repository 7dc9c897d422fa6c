------------------------------ MODULE Startup ------------------------------
(***************************************************************************)
(* main.cpp and the set-up of the Server: processes that are started with  *)
(* a command line, read their configuration, guard themselves by a pid     *)
(* file, claim their ports, serve, and leave or are killed.  Each process  *)
(* is sequential; what they share is the file system and the ports.        *)
(***************************************************************************)
EXTENDS Conf, Integers

CONSTANTS
  Procs, None,
  Commands,     \* the command lines, a sequence
  CommandsOf,   \* for each process those it may be started with
  Split,        \* the tokens of a value between colons
  Addresses,    \* for each host name, for each of its addresses: is it ours?
  ReadOnly,     \* paths of pid files that cannot be created
  MaxLaunches   \* bound on starts

ASSUME ProcsAssumption == None \notin Procs
ASSUME CommandsAssumption == /\ DOMAIN Commands \subseteq Nat
                             /\ CommandsOf \in [Procs -> SUBSET DOMAIN Commands]
ASSUME FilesAssumption ==
  \A n \in DOMAIN Commands :
    LET lines == Commands[n].file
    IN /\ lines \in Seq({lines[i] : i \in DOMAIN lines})
       /\ \A i \in DOMAIN lines : IsLine(lines[i])
       \* user0, user1, ... are so many names
       /\ \A i, j \in 0..Len(lines) :
            i # j => "user" \o ToString(i) # "user" \o ToString(j)
ASSUME LaunchesAssumption == MaxLaunches \in Nat

VARIABLES
  pc,        \* where each process is, "off" when there is none
  cmd,       \* the number of its command line
  mine,      \* is Server::_pidfile set?
  users,     \* Server::_nmpwd
  pidfiles,  \* for each path of a pid file the process it names, or None
  ports,     \* for each port in use the process that listens there
  launches,
  killed,    \* has a process been killed?
  overlapped \* were two processes between their test and creation of a file?
vars == <<pc, cmd, mine, users, pidfiles, ports, launches, killed, overlapped>>

----------------------------------------------------------------------------
(* The command line and the configuration. *)

\* Options that go to the same key in either role.
OptionKey ==
  [i |-> <<"tls", "ip">>, p |-> <<"tls", "port">>,
   k |-> <<"main", "private_key">>, c |-> <<"main", "certificate">>,
   s |-> <<"main", "serial">>, t |-> <<"tls", "timeout">>,
   m |-> <<"main", "pidfile">>, g |-> <<"main", "timeout">>,
   j |-> <<"web", "timeout">>]
ServerKey == [e |-> <<"web", "rootfs">>, a |-> <<"web", "ip">>,
              w |-> <<"web", "port">>]
ClientKey == [a |-> <<"local", "ip">>, w |-> <<"local", "port">>]

\* Each option in table overrides what the file says.
Override(settings, opts, table) ==
  LET given(at) == {o \in DOMAIN table \cap DOMAIN opts : table[o] = at}
  IN [at \in DOMAIN settings \cup {table[o] : o \in DOMAIN table \cap DOMAIN opts} |->
        IF given(at) = {} THEN settings[at] ELSE opts[CHOOSE o \in given(at) : TRUE]]

\* The settings of a command line: file and common options first, then the
\* role they decide, then the options whose meaning depends on it.
FileSettings(c) == IF "n" \in DOMAIN c.opts THEN OpenFile(c.file).settings
                                            ELSE <<>>
Common(c) == Override(FileSettings(c), c.opts, OptionKey)
IsServer(c) == /\ Has(Common(c), "main", "private_key")
               /\ Has(Common(c), "main", "certificate")
Settings(c) ==
  Override(Common(c), c.opts, IF IsServer(c) THEN ServerKey ELSE ClientKey)

\* main() goes as far as Server::server() or client().
Accepted(c) ==
  /\ DOMAIN c.opts # {}
  /\ "n" \in DOMAIN c.opts => c.readable /\ OpenFile(c.file).okay

\* What main() makes of each command line: worked out once per start.
Parsed == [n \in DOMAIN Commands |->
  [accepted |-> Accepted(Commands[n]), settings |-> Settings(Commands[n])]]

\* What atoi() makes of a port is an int.
ASSUME PortsAssumption ==
  \A n \in DOMAIN Commands, sec \in {"tls", "web", "local"} :
    Has(Parsed[n].settings, sec, "port") => Parsed[n].settings[<<sec, "port">>] \in Int

PidPath(settings) == Get(settings, "main", "pidfile", None)
PidPaths == {PidPath(Parsed[n].settings) : n \in DOMAIN Commands} \ {None}

\* atoi() of a port that is no number is 0, and the default is taken.
PortOr(settings, sec, default) ==
  LET n == Get(settings, sec, "port", default) IN IF n > 0 THEN n ELSE default

\* socks5_initnmpwd(): user0, user1, ... up to the first that is missing; a
\* value without two tokens is passed over, of one name the first stays.
InsertUser(table, value) ==
  IF Len(Split[value]) > 1
  THEN Insert(table, Split[value][1], Split[value][2]) ELSE table
Tables(values) ==
  LET table[n \in 0..Len(values)] ==
        IF n = 0 THEN <<>> ELSE InsertUser(table[n - 1], values[n])
  IN table
UserTable(settings) ==
  LET values == Numbered(settings, "user", "user") IN Tables(values)[Len(values)]
----------------------------------------------------------------------------
Init ==
  /\ pc = [p \in Procs |-> "off"]
  /\ cmd = [p \in Procs |-> 0]
  /\ mine = [p \in Procs |-> FALSE] /\ users = [p \in Procs |-> <<>>]
  /\ pidfiles = [f \in PidPaths |-> None] /\ ports = <<>>
  /\ launches = 0 /\ killed = FALSE /\ overlapped = FALSE

Goto(p, l) == pc' = [pc EXCEPT ![p] = l]
Config(p) == IF pc[p] = "off" THEN <<>> ELSE Parsed[cmd[p]].settings
File(p) == PidPath(Config(p))
Server(p) == /\ Has(Config(p), "main", "private_key")
             /\ Has(Config(p), "main", "certificate")

\* main() up to the choice of the role; otherwise usage or a message, and exit.
Launch(p) ==
  /\ pc[p] = "off" /\ launches < MaxLaunches
  /\ launches' = launches + 1
  /\ \E c \in CommandsOf[p] :
       IF Parsed[c].accepted
       THEN Goto(p, "tls") /\ cmd' = [cmd EXCEPT ![p] = c]
       ELSE UNCHANGED <<pc, cmd>>
  /\ UNCHANGED <<mine, users, pidfiles, ports, killed, overlapped>>

\* TLS::init() sets the library up and reads key and certificate; it may fail.
InitTls(p) ==
  /\ pc[p] = "tls"
  /\ \/ Goto(p, IF File(p) # None THEN "test" ELSE "bind")
     \/ Goto(p, "leave")
  /\ UNCHANGED <<cmd, mine, users, pidfiles, ports, launches, killed, overlapped>>

Creating(p) == {q \in Procs \ {p} : /\ pc[q] = "create"
                                    /\ File(q) = File(p)}

\* The bug: the file is called its own before the test.
TestPidFileWrong(p) ==
  /\ pc[p] = "test"
  /\ mine' = [mine EXCEPT ![p] = TRUE]
  /\ IF pidfiles[File(p)] # None
     THEN Goto(p, "leave") /\ UNCHANGED overlapped
     ELSE Goto(p, "create") /\ overlapped' = (overlapped \/ Creating(p) # {})
  /\ UNCHANGED <<cmd, users, pidfiles, ports, launches, killed>>

\* pidfile(): the test.  A process that finds the file does not call it its
\* own, and leaves.
TestPidFile(p) ==
  /\ pc[p] = "test"
  /\ IF pidfiles[File(p)] # None
     THEN Goto(p, "leave") /\ UNCHANGED <<mine, overlapped>>
     ELSE /\ Goto(p, "create")
          /\ mine' = [mine EXCEPT ![p] = TRUE]
          /\ overlapped' = (overlapped \/ Creating(p) # {})
  /\ UNCHANGED <<cmd, users, pidfiles, ports, launches, killed>>

\* pidfile(): create or truncate the file and write the process number.
CreatePidFile(p) ==
  /\ pc[p] = "create"
  /\ LET f == File(p) IN
     IF f \in ReadOnly THEN Goto(p, "leave") /\ UNCHANGED pidfiles
     ELSE Goto(p, "bind") /\ pidfiles' = [pidfiles EXCEPT ![f] = p]
  /\ UNCHANGED <<cmd, mine, users, ports, launches, killed, overlapped>>

\* Socks::bind() by name, and listen(): it tries once for each address of the
\* name, but always the first of them.
CanListen(host, port) ==
  /\ \E i \in DOMAIN Addresses[host] : Addresses[host][1]
  /\ port \notin DOMAIN ports

\* A free port is taken.
With(p, port) == [n \in DOMAIN ports \cup {port} |->
                    IF n = port THEN p ELSE ports[n]]

TlsPort(p) == PortOr(Config(p), "tls", 443)
WebSection(p) == IF Server(p) THEN "web" ELSE "local"
WebPort(p) == PortOr(Config(p), WebSection(p), IF Server(p) THEN 80 ELSE 1080)
WebHost(p) == Get(Config(p), WebSection(p), "ip", "0.0.0.0")

\* The serial, and the TLS side: a listening port for a server, a name for a
\* client, which need not be known: getaddrinfo() says so by other codes than the
\* -1 that client() looks for.
BindTls(p) ==
  /\ pc[p] = "bind"
  /\ IF /\ Has(Config(p), "main", "serial")
        /\ IF Server(p)
           THEN CanListen(Get(Config(p), "tls", "ip", "0.0.0.0"), TlsPort(p))
           ELSE Has(Config(p), "tls", "ip")
     THEN /\ Goto(p, "local")
          /\ ports' = IF Server(p) THEN With(p, TlsPort(p)) ELSE ports
     ELSE Goto(p, "leave") /\ UNCHANGED ports
  /\ UNCHANGED <<cmd, mine, users, pidfiles, launches, killed, overlapped>>

\* The web or local port; then the users, and _running.
BindLocal(p) ==
  /\ pc[p] = "local"
  /\ IF CanListen(WebHost(p), WebPort(p))
     THEN /\ Goto(p, "serve")
          /\ ports' = With(p, WebPort(p))
          /\ users' = [users EXCEPT ![p] = IF Server(p)
                         THEN UserTable(Config(p)) ELSE <<>>]
     ELSE Goto(p, "leave") /\ UNCHANGED <<ports, users>>
  /\ UNCHANGED <<cmd, mine, pidfiles, launches, killed, overlapped>>

\* The bug: a socket is closed but still listed.
WithoutWrong(p) ==
  [n \in DOMAIN ports |-> IF ports[n] = p THEN None ELSE ports[n]]

\* The process is over: its ports are free again.
Without(p) == [n \in {n \in DOMAIN ports : ports[n] # p} |-> ports[n]]

Gone(p) ==
  /\ Goto(p, "off") /\ ports' = Without(p)
  /\ cmd' = [cmd EXCEPT ![p] = 0] /\ mine' = [mine EXCEPT ![p] = FALSE]
  /\ users' = [users EXCEPT ![p] = <<>>]

\* SIGINT: Server::stop() closes the listening sockets, main() returns.
Interrupt(p) ==
  /\ pc[p] = "serve"
  /\ Goto(p, "leave") /\ ports' = Without(p)
  /\ UNCHANGED <<cmd, mine, users, pidfiles, launches, killed, overlapped>>

\* SIGSEGV: sigsegt() calls exit(), which runs the destructor as well.
Fault(p) ==
  /\ pc[p] = "serve"
  /\ Goto(p, "leave")
  /\ UNCHANGED <<cmd, mine, users, pidfiles, ports, launches, killed, overlapped>>

\* The bug: a process that never served leaves without a look at the file.
TestOwnFileWrong(p) ==
  /\ pc[p] = "leave"
  /\ IF users[p] # <<>> THEN Goto(p, "remove") /\ UNCHANGED <<cmd, mine, users, ports>>
                       ELSE Gone(p)
  /\ UNCHANGED <<pidfiles, launches, killed, overlapped>>

\* ~Server(): whoever has set _pidfile removes what it finds under that path,
\* whether it wrote it or not; test and removal are two calls.
TestOwnFile(p) ==
  /\ pc[p] = "leave"
  /\ IF mine[p] /\ pidfiles[File(p)] # None
     THEN Goto(p, "remove") /\ UNCHANGED <<cmd, mine, users, ports>>
     ELSE Gone(p)
  /\ UNCHANGED <<pidfiles, launches, killed, overlapped>>

\* The bug: the file stays where it is.
RemoveFileWrong(p) ==
  /\ pc[p] = "remove"
  /\ Gone(p)
  /\ UNCHANGED <<pidfiles, launches, killed, overlapped>>

RemoveFile(p) ==
  /\ pc[p] = "remove"
  /\ pidfiles' = [pidfiles EXCEPT ![File(p)] = None]
  /\ Gone(p)
  /\ UNCHANGED <<launches, killed, overlapped>>

\* SIGKILL, SIGTERM, abort(), or SIGINT before its handler is installed: the
\* destructor does not run.
Kill(p) ==
  /\ pc[p] # "off"
  /\ killed' = TRUE
  /\ Gone(p)
  /\ UNCHANGED <<pidfiles, launches, overlapped>>

Setup(p) == \/ InitTls(p) \/ TestPidFile(p) \/ CreatePidFile(p)
            \/ BindTls(p) \/ BindLocal(p)
Leave(p) == TestOwnFile(p) \/ RemoveFile(p)
Next == \E p \in Procs : \/ Launch(p) \/ Setup(p) \/ Leave(p)
                         \/ Interrupt(p) \/ Fault(p) \/ Kill(p)
Spec == Init /\ [][Next]_vars

\* A process runs on until it serves, and until it is gone when it leaves.
Fairness == \A p \in Procs : WF_vars(Setup(p) \/ Leave(p))
FairSpec == Spec /\ Fairness

----------------------------------------------------------------------------
(* Properties *)

\* Every variable holds a value of its kind: Server and main() keep no others.
TypeOK ==
  /\ pc \in [Procs -> {"off", "tls", "test", "create", "bind", "local",
                       "serve", "leave", "remove"}]
  /\ cmd \in [Procs -> Nat]
  /\ mine \in [Procs -> BOOLEAN]
  /\ DOMAIN users = Procs
  /\ pidfiles \in [PidPaths -> Procs \cup {None}]
  /\ DOMAIN ports \subseteq Nat /\ \A n \in DOMAIN ports : ports[n] \in Procs
  /\ launches \in 0..MaxLaunches /\ killed \in BOOLEAN /\ overlapped \in BOOLEAN

Guarded(p) == File(p) # None /\ mine[p] /\ pc[p] \in {"bind", "local", "serve"}

\* As long as no two starts overlapped between the access() and the creation
\* in pidfile(), the file names the process it guards until that process
\* itself leaves: nobody else takes it over or removes it, a refused or failed
\* start least of all.  So there is at most one process per file.
PidFileExclusive ==
  overlapped \/ \A p \in Procs : Guarded(p) => pidfiles[File(p)] = p

\* Processes that end by themselves - refused, failed, interrupted, by SIGSEGV -
\* leave no pid file behind, in whatever order they came and went and even
\* when their starts overlapped; it takes a kill to leave a stale one.
NoFileLeftBehind ==
  killed \/ \A f \in PidPaths : pidfiles[f] # None =>
              \E p \in Procs : pc[p] # "off" /\ mine[p] /\ File(p) = f

\* What the author of a configuration file means: line i belongs to the
\* section named last above it.
WrittenIn(lines, i, sec) ==
  \E h \in 1..(i - 1) : /\ lines[h] = Section(sec)
                        /\ \A j \in (h + 1)..i : lines[j].kind # "section"
UserLine(lines, i, n) == /\ lines[i].kind = "pair" /\ WrittenIn(lines, i, "user")
                         /\ lines[i].key = "user" \o ToString(n)
Plain(line) == line.kind # "other" /\ (line.kind = "pair" => line.odd = "")

\* The users <<name, password>> of a file: those whose number has no gap
\* before it, whose entry is a name:password, who are the first of their number
\* and their name, and up to whom the reader trips over no line.
Promised(lines) ==
  LET at(n) == {i \in DOMAIN lines : UserLine(lines, i, n)}
      sound(i) == \A j \in 1..i : Plain(lines[j])
      good(n, i) ==
        /\ i \in at(n) /\ \A j \in at(n) : i <= j
        /\ \A m \in 0..n : \E j \in at(m) : sound(j)
        /\ Len(Split[lines[i].value]) > 1
        /\ \A m \in 0..(n - 1) : \A j \in at(m) :
             Split[lines[j].value][1] # Split[lines[i].value][1]
  IN {<<Split[lines[i].value][1], Split[lines[i].value][2]>> :
        i \in {i \in DOMAIN lines : \E n \in 0..Len(lines) : good(n, i)}}
PromisedBy == [n \in DOMAIN Commands |->
  IF "n" \in DOMAIN Commands[n].opts THEN Promised(Commands[n].file) ELSE {}]

\* Every such user is asked for his password by a serving remote endpoint: he
\* is in the table that socks5_initnmpwd() makes of what Conf::open() reads.
\* With an empty table nobody would be asked.
UsersAsListed ==
  \A p \in Procs : pc[p] = "serve" /\ Server(p) =>
    \A u \in PromisedBy[cmd[p]] :
      u[1] \in DOMAIN users[p] /\ users[p][u[1]] = u[2]

\* A process started alone, with what its role needs, a pid file that does not
\* exist and can be created and ports that are free, gets to serve: nothing
\* that earlier processes did stands in the way unless one was killed.
Complete(p) ==
  LET s == Config(p)
      ours(sec) == LET a == Addresses[Get(s, sec, "ip", "0.0.0.0")]
                   IN Len(a) > 0 /\ a[1]
  IN /\ Has(s, "main", "serial") /\ File(p) \notin ReadOnly
     /\ IF Server(p)
        THEN /\ ours("tls") /\ ours("web")
             /\ PortOr(s, "tls", 443) # PortOr(s, "web", 80)
        ELSE Has(s, "tls", "ip") /\ ours("local")
Alone(p) == \A q \in Procs \ {p} : pc[q] = "off"
LoneStartServes ==
  (\E p \in Procs : pc[p] = "test" /\ Alone(p) /\ Complete(p) /\ ~killed)
    ~> \/ \E p \in Procs : pc[p] = "serve" \/ (pc[p] # "off" /\ ~Alone(p))
       \/ killed
=============================================================================
