--------------------------- MODULE StartupProofs ---------------------------
(***************************************************************************)
(* For any number of processes, command lines and pid files: one process   *)
(* per file until two starts overlap, and no file left behind without a    *)
(* kill; who serves listens on ports of its own; and who is listed in a    *)
(* configuration file gets into the table of users.                        *)
(***************************************************************************)
EXTENDS Startup, ConfProofs

\* The variables the pid file is about.
Types ==
  /\ pc \in [Procs -> {"off", "tls", "test", "create", "bind", "local",
                       "serve", "leave", "remove"}]
  /\ cmd \in [Procs -> Nat]
  /\ \A p \in Procs : pc[p] # "off" => cmd[p] \in DOMAIN Commands
  /\ mine \in [Procs -> BOOLEAN]
  /\ pidfiles \in [PidPaths -> Procs \cup {None}]
  /\ killed \in BOOLEAN /\ overlapped \in BOOLEAN

\* Which processes come past pidfile(), and which call the file their own.
Places ==
  \A p \in Procs :
    /\ pc[p] \in {"test", "create"} => File(p) # None
    /\ pc[p] \in {"create", "remove"} => mine[p]
    /\ mine[p] => /\ File(p) # None
                  /\ pc[p] \in {"create", "bind", "local", "serve", "leave",
                                "remove"}

\* A file that cannot be created is never there.
NeverThere == \A f \in ReadOnly \cap PidPaths : pidfiles[f] = None

\* While no starts have overlapped: a file about to be created is not there and
\* nobody else is about to create it, and one that has been names its process
\* until that process is through with it.
Owned(p) ==
  /\ pc[p] = "create" => /\ pidfiles[File(p)] = None
                         /\ \A q \in Procs \ {p} :
                              pc[q] = "create" => File(q) # File(p)
  /\ mine[p] /\ pc[p] # "create" => \/ pidfiles[File(p)] = p
                                    \/ File(p) \in ReadOnly /\ pc[p] = "leave"
Ownership == overlapped \/ \A p \in Procs : Owned(p)

IInv == Types /\ Places /\ NeverThere /\ Ownership /\ NoFileLeftBehind

----------------------------------------------------------------------------
\* Without a process there are no settings, and no path.
LEMMA OffHasNoFile ==
  ASSUME NEW p \in Procs, pc[p] = "off"
  PROVE  File(p) = None
<1>1. Config(p) = <<>>
  BY DEF Config
<1>2. <<"main", "pidfile">> \notin DOMAIN << >>
  OBVIOUS
<1> QED BY <1>1, <1>2 DEF File, PidPath, Get, Has

\* The path in a process's settings is one of the paths of pid files.
LEMMA FileIsPath ==
  ASSUME Types, NEW p \in Procs, File(p) # None
  PROVE  File(p) \in PidPaths
<1>1. pc[p] # "off"
  BY OffHasNoFile
<1>2. File(p) = PidPath(Parsed[cmd[p]].settings) /\ cmd[p] \in DOMAIN Commands
  BY <1>1 DEF File, Config, Types
<1> QED BY <1>2 DEF PidPaths

\* A process that goes on keeps its settings, and so does one that others pass.
LEMMA FileStays ==
  ASSUME NEW p \in Procs, cmd'[p] = cmd[p], (pc[p] = "off") <=> (pc'[p] = "off")
  PROVE  File(p)' = File(p)
BY DEF File, Config

----------------------------------------------------------------------------
\* What a step of p leaves alone of the other processes.
Others(p) == \A q \in Procs \ {p} : /\ pc'[q] = pc[q] /\ cmd'[q] = cmd[q]
                                    /\ mine'[q] = mine[q] /\ File(q)' = File(q)

\* Steps that only move a process, none of them into or out of the handling of
\* its file.
LEMMA Moves ==
  ASSUME IInv, NEW p \in Procs, NEW l, Goto(p, l),
         pc[p] \in {"tls", "bind", "local", "serve"},
         l \in {"test", "bind", "local", "serve", "leave"},
         l = "test" => pc[p] = "tls" /\ File(p) # None,
         UNCHANGED <<cmd, mine, pidfiles, killed, overlapped>>
  PROVE  IInv'
<1>1. pc'[p] = l /\ \A q \in Procs \ {p} : pc'[q] = pc[q]
  BY DEF IInv, Types, Goto
<1>2. \A q \in Procs : File(q)' = File(q)
  BY <1>1, FileStays
<1>3. Types'
  BY <1>1 DEF IInv, Types, Goto
<1>4. Places'
  BY <1>1, <1>2 DEF IInv, Places
<1>5. NeverThere'
  BY DEF IInv, NeverThere
<1>6. Ownership'
  BY <1>1, <1>2 DEF IInv, Ownership, Owned, Places
<1>7. NoFileLeftBehind'
  BY <1>1, <1>2 DEF IInv, NoFileLeftBehind
<1> QED BY <1>3, <1>4, <1>5, <1>6, <1>7 DEF IInv

LEMMA LaunchKeeps ==
  ASSUME IInv, NEW p \in Procs, Launch(p)
  PROVE  IInv'
<1>1. CASE UNCHANGED <<pc, cmd>>
  <2>1. \A q \in Procs : File(q)' = File(q)
    BY <1>1, FileStays
  <2> QED BY <1>1, <2>1 DEF Launch, IInv, Types, Places, NeverThere, Ownership,
                            Owned, NoFileLeftBehind
<1>2. CASE \E c \in CommandsOf[p] : Goto(p, "tls") /\ cmd' = [cmd EXCEPT ![p] = c]
  <2>1. PICK c \in CommandsOf[p] : Goto(p, "tls") /\ cmd' = [cmd EXCEPT ![p] = c]
    BY <1>2
  <2>2. c \in DOMAIN Commands /\ c \in Nat
    BY CommandsAssumption
  <2>3. UNCHANGED <<mine, pidfiles, killed, overlapped>> /\ pc[p] = "off"
    BY DEF Launch
  <2>4. pc'[p] = "tls" /\ cmd'[p] = c /\ Others(p)
    <3>1. \A q \in Procs \ {p} : pc'[q] = pc[q] /\ cmd'[q] = cmd[q]
      BY <2>1 DEF IInv, Types, Goto
    <3> QED BY <2>1, <2>3, <3>1, FileStays DEF IInv, Types, Goto, Others
  <2>5. Types'
    BY <2>1, <2>2, <2>3, <2>4 DEF IInv, Types, Others, Goto
  <2>6. ~mine[p]
    BY <2>3 DEF IInv, Places
  <2>7. Places' /\ NeverThere'
    BY <2>3, <2>4, <2>6 DEF IInv, Places, NeverThere, Others
  <2>8. Ownership'
    BY <2>3, <2>4, <2>6 DEF IInv, Ownership, Owned, Others
  <2>9. NoFileLeftBehind'
    BY <2>3, <2>4, <2>6 DEF IInv, NoFileLeftBehind, Others
  <2> QED BY <2>5, <2>7, <2>8, <2>9 DEF IInv
<1> QED BY <1>1, <1>2 DEF Launch

\* Finding the file sends a process away without it; otherwise it is about to be
\* created, by nobody else unless two starts overlap.
LEMMA TestKeeps ==
  ASSUME IInv, NEW p \in Procs, TestPidFile(p)
  PROVE  IInv'
<1>1. /\ pc[p] = "test" /\ File(p) # None /\ ~mine[p]
      /\ UNCHANGED <<cmd, pidfiles, killed>>
  BY DEF TestPidFile, IInv, Places
<1>2. CASE pidfiles[File(p)] # None
  <2>1. pc'[p] = "leave" /\ UNCHANGED <<mine, overlapped>>
    BY <1>2 DEF TestPidFile, Goto, IInv, Types
  <2>2. Others(p) /\ File(p)' = File(p)
    BY <1>1, <1>2, <2>1, FileStays DEF TestPidFile, Goto, IInv, Types, Others
  <2>3. Types'
    BY <1>1, <1>2, <2>1 DEF TestPidFile, Goto, IInv, Types
  <2>4. Places' /\ NeverThere'
    BY <1>1, <2>1, <2>2 DEF IInv, Places, NeverThere, Others
  <2>5. Ownership'
    BY <1>1, <2>1, <2>2 DEF IInv, Ownership, Owned, Others
  <2>6. NoFileLeftBehind'
    BY <1>1, <2>1, <2>2 DEF IInv, NoFileLeftBehind, Others
  <2> QED BY <2>3, <2>4, <2>5, <2>6 DEF IInv
<1>3. CASE pidfiles[File(p)] = None
  <2>1. /\ pc'[p] = "create" /\ mine'[p]
        /\ overlapped' = (overlapped \/ Creating(p) # {})
    BY <1>3 DEF TestPidFile, Goto, IInv, Types
  <2>2. Others(p) /\ File(p)' = File(p)
    BY <1>1, <1>3, <2>1, FileStays DEF TestPidFile, Goto, IInv, Types, Others
  <2>3. Types'
    <3>1. overlapped' \in BOOLEAN
      BY <2>1
    <3> QED BY <1>1, <1>3, <2>1, <3>1 DEF TestPidFile, Goto, IInv, Types
  <2>4. Places' /\ NeverThere'
    BY <1>1, <2>1, <2>2 DEF IInv, Places, NeverThere, Others
  <2>5. Ownership'
    <3> SUFFICES ASSUME ~overlapped', NEW q \in Procs
                 PROVE  Owned(q)'
      BY DEF Ownership
    <3>1. ~overlapped /\ Creating(p) = {}
      BY <2>1
    <3>2. \A r \in Procs \ {p} : pc[r] = "create" => File(r) # File(p)
      BY <3>1 DEF Creating
    <3>3. CASE q = p
      BY <1>1, <1>3, <2>1, <2>2, <3>2, <3>3 DEF Owned, Others
    <3>4. CASE q # p
      <4>1. Owned(q)
        BY <3>1 DEF IInv, Ownership
      <4> QED BY <1>1, <2>1, <2>2, <3>2, <3>4, <4>1 DEF Owned, Others
    <3> QED BY <3>3, <3>4
  <2>6. NoFileLeftBehind'
    BY <1>1, <2>1, <2>2 DEF IInv, NoFileLeftBehind, Others
  <2> QED BY <2>3, <2>4, <2>5, <2>6 DEF IInv
<1> QED BY <1>2, <1>3

\* The creation makes the file name the process.
LEMMA CreateKeeps ==
  ASSUME IInv, NEW p \in Procs, CreatePidFile(p)
  PROVE  IInv'
<1>1. /\ pc[p] = "create" /\ mine[p] /\ File(p) \in PidPaths
      /\ UNCHANGED <<cmd, mine, killed, overlapped>>
  BY FileIsPath DEF CreatePidFile, IInv, Places
<1>2. PICK l \in {"leave", "bind"} : Goto(p, l) /\ (l = "leave" <=> File(p) \in ReadOnly)
  BY DEF CreatePidFile
<1>3. /\ l = "leave" => pidfiles' = pidfiles
      /\ l = "bind" => pidfiles' = [pidfiles EXCEPT ![File(p)] = p]
  BY <1>2 DEF CreatePidFile
<1>4. pc'[p] = l /\ Others(p) /\ File(p)' = File(p)
  BY <1>1, <1>2, FileStays DEF Goto, IInv, Types, Others
<1>5. Types'
  BY <1>1, <1>2, <1>3 DEF Goto, IInv, Types
<1>6. Places' /\ NeverThere'
  BY <1>1, <1>2, <1>3, <1>4 DEF IInv, Types, Places, NeverThere, Others
<1>7. Ownership'
  <2> SUFFICES ASSUME ~overlapped, NEW q \in Procs
               PROVE  Owned(q)'
    BY <1>1 DEF Ownership
  <2>1. Owned(p) /\ Owned(q)
    BY DEF IInv, Ownership
  <2>2. CASE q = p
    BY <1>1, <1>2, <1>3, <1>4, <2>1, <2>2 DEF Owned, IInv, Types
  <2>3. CASE q # p /\ l = "leave"
    BY <1>1, <1>3, <1>4, <2>1, <2>3 DEF Owned, Others
  <2>4. CASE q # p /\ l = "bind"
    <3>1. pc[q] = "create" => File(q) # File(p)
      BY <1>1, <2>1, <2>4 DEF Owned
    <3>2. mine[q] /\ pc[q] # "create" => File(q) # File(p)
      <4> SUFFICES ASSUME mine[q], pc[q] # "create", File(q) = File(p)
                   PROVE  FALSE
        OBVIOUS
      <4>1. pidfiles[File(p)] = None /\ File(p) \notin ReadOnly
        BY <1>1, <1>2, <2>1, <2>4 DEF Owned
      <4>2. pidfiles[File(q)] = q
        BY <2>1, <4>1 DEF Owned
      <4>3. q # None
        BY ProcsAssumption DEF ProcsAssumption
      <4> QED BY <4>1, <4>2, <4>3
    <3>3. mine[q] \/ pc[q] = "create" => File(q) \in PidPaths
      BY FileIsPath DEF IInv, Places
    <3>4. /\ pidfiles' = [pidfiles EXCEPT ![File(p)] = p]
          /\ pc'[q] = pc[q] /\ mine'[q] = mine[q] /\ File(q)' = File(q)
      BY <1>3, <1>4, <2>4 DEF Others
    <3>5. pc'[q] = "create" =>
            \A r \in Procs \ {q} : pc'[r] = "create" => File(r)' # File(q)'
      BY <1>2, <1>4, <2>1, <2>4 DEF Owned, Others
    <3>6. mine[q] \/ pc[q] = "create" => pidfiles'[File(q)] = pidfiles[File(q)]
      BY <3>1, <3>2, <3>3, <3>4 DEF IInv, Types
    <3>7. pc'[q] = "create" => pidfiles'[File(q)'] = None
      BY <2>1, <3>4, <3>6 DEF Owned
    <3>8. mine'[q] /\ pc'[q] # "create" =>
            \/ pidfiles'[File(q)'] = q
            \/ File(q)' \in ReadOnly /\ pc'[q] = "leave"
      BY <2>1, <3>4, <3>6 DEF Owned
    <3> QED BY <3>5, <3>7, <3>8 DEF Owned
  <2> QED BY <1>2, <2>2, <2>3, <2>4
<1>8. NoFileLeftBehind'
  BY <1>1, <1>2, <1>3, <1>4 DEF IInv, Types, NoFileLeftBehind, Others
<1> QED BY <1>5, <1>6, <1>7, <1>8 DEF IInv

\* A process that is gone and has nothing left to remove.
LEMMA GoneKeeps ==
  ASSUME IInv, NEW p \in Procs, Gone(p), UNCHANGED <<pidfiles, overlapped>>,
         killed' \in BOOLEAN, killed => killed',
         killed' \/ ~mine[p] \/ pidfiles[File(p)] = None
  PROVE  IInv'
<1>1. pc'[p] = "off" /\ ~mine'[p]
  BY DEF Gone, Goto, IInv, Types
<1>2. Others(p)
  BY <1>1, FileStays DEF Gone, Goto, IInv, Types, Others
<1>3. Types'
  BY <1>1 DEF Gone, Goto, IInv, Types
<1>4. Places' /\ NeverThere'
  BY <1>1, <1>2 DEF IInv, Places, NeverThere, Others
<1>5. Ownership'
  BY <1>1, <1>2 DEF IInv, Ownership, Owned, Others
<1>6. NoFileLeftBehind'
  BY <1>1, <1>2 DEF IInv, NoFileLeftBehind, Others
<1> QED BY <1>3, <1>4, <1>5, <1>6 DEF IInv

LEMMA TestOwnKeeps ==
  ASSUME IInv, NEW p \in Procs, TestOwnFile(p)
  PROVE  IInv'
<1>1. pc[p] = "leave" /\ UNCHANGED <<pidfiles, killed, overlapped>>
  BY DEF TestOwnFile
<1>2. CASE mine[p] /\ pidfiles[File(p)] # None
  <2>1. pc'[p] = "remove" /\ UNCHANGED <<cmd, mine>>
    BY <1>2 DEF TestOwnFile, Goto, IInv, Types
  <2>2. Others(p) /\ File(p)' = File(p)
    BY <1>1, <1>2, <2>1, FileStays DEF TestOwnFile, Goto, IInv, Types, Others
  <2>3. Types'
    BY <1>1, <1>2, <2>1 DEF TestOwnFile, Goto, IInv, Types
  <2>4. Places' /\ NeverThere'
    BY <1>1, <1>2, <2>1, <2>2 DEF IInv, Places, NeverThere, Others
  <2>5. ~(File(p) \in ReadOnly)
    BY <1>2, FileIsPath DEF IInv, Places, NeverThere
  <2>6. Ownership'
    BY <1>1, <1>2, <2>1, <2>2, <2>5 DEF IInv, Ownership, Owned, Others
  <2>7. NoFileLeftBehind'
    BY <1>1, <2>1, <2>2 DEF IInv, NoFileLeftBehind, Others
  <2> QED BY <2>3, <2>4, <2>6, <2>7 DEF IInv
<1>3. CASE ~(mine[p] /\ pidfiles[File(p)] # None)
  <2>1. Gone(p) /\ (~mine[p] \/ pidfiles[File(p)] = None)
    BY <1>3 DEF TestOwnFile, IInv, Types
  <2> QED BY <1>1, <2>1, GoneKeeps DEF IInv, Types
<1> QED BY <1>2, <1>3

\* What is removed is the process's own file, unless starts have overlapped.
LEMMA RemoveKeeps ==
  ASSUME IInv, NEW p \in Procs, RemoveFile(p)
  PROVE  IInv'
<1>1. /\ pc[p] = "remove" /\ mine[p] /\ File(p) \in PidPaths
      /\ pidfiles' = [pidfiles EXCEPT ![File(p)] = None]
      /\ UNCHANGED <<killed, overlapped>>
  BY FileIsPath DEF RemoveFile, IInv, Places
<1>2. pc'[p] = "off" /\ ~mine'[p]
  BY DEF RemoveFile, Gone, Goto, IInv, Types
<1>3. Others(p)
  BY <1>1, <1>2, FileStays DEF RemoveFile, Gone, Goto, IInv, Types, Others
<1>4. Types'
  BY <1>1, <1>2 DEF RemoveFile, Gone, Goto, IInv, Types
<1>5. Places' /\ NeverThere'
  BY <1>1, <1>2, <1>3 DEF IInv, Types, Places, NeverThere, Others
<1>6. Ownership'
  <2> SUFFICES ASSUME ~overlapped, NEW q \in Procs \ {p}
               PROVE  Owned(q)'
    BY <1>1, <1>2 DEF Ownership, Owned
  <2>1. pidfiles[File(p)] = p /\ Owned(q)
    BY <1>1 DEF IInv, Ownership, Owned
  <2>2. pidfiles[File(q)] = q => File(q) # File(p)
    BY <2>1
  <2> QED BY <1>1, <1>2, <1>3, <2>1, <2>2 DEF Owned, Others, IInv, Types
<1>7. NoFileLeftBehind'
  <2> SUFFICES ASSUME ~killed, NEW f \in PidPaths, pidfiles'[f] # None
               PROVE  \E q \in Procs : pc'[q] # "off" /\ mine'[q] /\ File(q)' = f
    BY <1>1 DEF NoFileLeftBehind
  <2>1. f # File(p) /\ pidfiles[f] # None
    BY <1>1 DEF IInv, Types
  <2>2. PICK q \in Procs : pc[q] # "off" /\ mine[q] /\ File(q) = f
    BY <2>1 DEF IInv, NoFileLeftBehind
  <2> QED BY <1>3, <2>1, <2>2 DEF Others
<1> QED BY <1>4, <1>5, <1>6, <1>7 DEF IInv

----------------------------------------------------------------------------
\* IInv holds at first and is preserved by every step.
THEOREM Inductive == Spec => []IInv
<1>1. Init => IInv
  <2> SUFFICES ASSUME Init PROVE IInv
    OBVIOUS
  <2>1. Types
    BY DEF Init, Types
  <2> QED BY <2>1 DEF Init, IInv, Places, NeverThere, Ownership, Owned,
                      NoFileLeftBehind
<1>2. IInv /\ [Next]_vars => IInv'
  <2> SUFFICES ASSUME IInv, [Next]_vars PROVE IInv'
    OBVIOUS
  <2>1. CASE UNCHANGED vars
    <3>1. \A q \in Procs : File(q)' = File(q)
      BY <2>1, FileStays DEF vars
    <3> QED BY <2>1, <3>1 DEF vars, IInv, Types, Places, NeverThere, Ownership,
                              Owned, NoFileLeftBehind
  <2>2. ASSUME NEW p \in Procs, Launch(p) PROVE IInv'
    BY <2>2, LaunchKeeps
  <2>3. ASSUME NEW p \in Procs, InitTls(p) PROVE IInv'
    BY <2>3, Moves DEF InitTls
  <2>4. ASSUME NEW p \in Procs, BindTls(p) PROVE IInv'
    BY <2>4, Moves DEF BindTls
  <2>5. ASSUME NEW p \in Procs, BindLocal(p) PROVE IInv'
    BY <2>5, Moves DEF BindLocal
  <2>6. ASSUME NEW p \in Procs, Interrupt(p) \/ Fault(p) PROVE IInv'
    BY <2>6, Moves DEF Interrupt, Fault
  <2>7. ASSUME NEW p \in Procs, Kill(p) PROVE IInv'
    BY <2>7, GoneKeeps DEF Kill
  <2>8. ASSUME NEW p \in Procs,
               \/ TestPidFile(p) \/ CreatePidFile(p)
               \/ TestOwnFile(p) \/ RemoveFile(p)
        PROVE  IInv'
    BY <2>8, TestKeeps, CreateKeeps, TestOwnKeeps, RemoveKeeps
  <2> QED BY <2>1, <2>2, <2>3, <2>4, <2>5, <2>6, <2>7, <2>8
          DEF Next, Setup, Leave
<1> QED BY <1>1, <1>2, PTL DEF Spec

\* At most one process per pid file, for any number of processes, until the
\* tests and creations of two starts overlap: pidfile() and ~Server().
THEOREM FileGuards == Spec => []PidFileExclusive
<1>1. IInv => PidFileExclusive
  BY DEF IInv, Ownership, Owned, PidFileExclusive, Guarded
<1> QED BY <1>1, Inductive, PTL

\* Without a kill no pid file outlives the processes that use it, overlapping
\* starts or not: ~Server() on every other way out.
THEOREM FilesAreRemoved == Spec => []NoFileLeftBehind
<1>1. IInv => NoFileLeftBehind
  BY DEF IInv
<1> QED BY <1>1, Inductive, PTL

----------------------------------------------------------------------------
(* The ports. *)

\* A process that is through with bind() and listen() holds the ports of its
\* settings: no other serves on them.  Only stop() and the end of the process
\* give them up.
Listens(p) ==
  /\ pc[p] \in {"local", "serve"} /\ Server(p) =>
       TlsPort(p) \in DOMAIN ports /\ ports[TlsPort(p)] = p
  /\ pc[p] = "serve" => WebPort(p) \in DOMAIN ports /\ ports[WebPort(p)] = p

\* Nobody is left on a port who is gone, or has not come to it yet.
Holders ==
  \A n \in DOMAIN ports : pc[ports[n]] \in {"local", "serve", "leave", "remove"}

PInv ==
  /\ DOMAIN users = Procs /\ launches \in 0..MaxLaunches
  /\ DOMAIN ports \subseteq Nat /\ \A n \in DOMAIN ports : ports[n] \in Procs
  /\ Holders
  /\ \A p \in Procs : Listens(p)

\* A port is a natural number, whatever the settings say.
LEMMA PortIsNat ==
  ASSUME Types, NEW p \in Procs, NEW sec \in {"tls", "web", "local"}, NEW d \in Nat
  PROVE  PortOr(Config(p), sec, d) \in Nat
<1>1. Has(Config(p), sec, "port") => Config(p)[<<sec, "port">>] \in Int
  <2>1. CASE pc[p] = "off"
    <3>1. Config(p) = <<>> /\ <<sec, "port">> \notin DOMAIN << >>
      BY <2>1 DEF Config
    <3> QED BY <3>1 DEF Has
  <2>2. CASE pc[p] # "off"
    <3>1. Config(p) = Parsed[cmd[p]].settings /\ cmd[p] \in DOMAIN Commands
      BY <2>2 DEF Config, Types
    <3> QED BY <3>1, PortsAssumption DEF PortsAssumption
  <2> QED BY <2>1, <2>2
<1>2. Get(Config(p), sec, "port", d) \in Int
  BY <1>1 DEF Get
<1> QED BY <1>2 DEF PortOr

LEMMA PortsAreNat ==
  ASSUME Types, NEW p \in Procs
  PROVE  TlsPort(p) \in Nat /\ WebPort(p) \in Nat
<1>1. WebSection(p) \in {"tls", "web", "local"}
  BY DEF WebSection
<1>2. (IF Server(p) THEN 80 ELSE 1080) \in Nat /\ 443 \in Nat
  OBVIOUS
<1>3. TlsPort(p) \in Nat
  BY <1>2, PortIsNat DEF TlsPort
<1>4. WebPort(p) \in Nat
  BY <1>1, <1>2, PortIsNat DEF WebPort
<1> QED BY <1>3, <1>4

\* The settings of a process that goes on, and of those that others pass.
LEMMA PortsStay ==
  ASSUME NEW p \in Procs, cmd'[p] = cmd[p], (pc[p] = "off") <=> (pc'[p] = "off")
  PROVE  /\ TlsPort(p)' = TlsPort(p) /\ WebPort(p)' = WebPort(p)
         /\ Server(p)' = Server(p)
BY DEF TlsPort, WebPort, WebSection, Server, Config

\* Steps without a port that leave p's file, or go on towards its own.
LEMMA PortsAlone ==
  ASSUME Types, PInv, NEW p \in Procs,
         pc' = [pc EXCEPT ![p] = pc'[p]],
         pc[p] \in {"local", "serve", "leave", "remove"} =>
           pc'[p] \in {"leave", "remove"},
         pc'[p] \notin {"local", "serve"},
         \A q \in Procs \ {p} : cmd'[q] = cmd[q],
         UNCHANGED ports, DOMAIN users' = Procs, launches' \in 0..MaxLaunches
  PROVE  PInv'
<1>1. \A q \in Procs \ {p} : pc'[q] = pc[q]
  BY DEF Types
<1>2. Holders'
  BY <1>1 DEF PInv, Holders
<1>3. \A q \in Procs : Listens(q)'
  <2> TAKE q \in Procs
  <2>1. CASE q = p
    BY <2>1 DEF Listens
  <2>2. CASE q # p
    BY <1>1, <2>2, PortsStay DEF PInv, Listens
  <2> QED BY <2>1, <2>2
<1> QED BY <1>2, <1>3 DEF PInv

\* stop(), or the end of a process.
LEMMA PortsFreed ==
  ASSUME Types, PInv, NEW p \in Procs,
         pc' = [pc EXCEPT ![p] = pc'[p]], pc'[p] \notin {"local", "serve"},
         \A q \in Procs \ {p} : cmd'[q] = cmd[q],
         ports' = Without(p), DOMAIN users' = Procs, UNCHANGED launches
  PROVE  PInv'
<1>1. \A q \in Procs \ {p} : pc'[q] = pc[q]
  BY DEF Types
<1>2. /\ DOMAIN ports' = {n \in DOMAIN ports : ports[n] # p}
      /\ \A n \in DOMAIN ports' : ports'[n] = ports[n]
  BY DEF Without
<1>3. Holders'
  BY <1>1, <1>2 DEF PInv, Holders
<1>4. \A q \in Procs : Listens(q)'
  <2> TAKE q \in Procs
  <2>1. CASE q = p
    BY <2>1 DEF Listens
  <2>2. CASE q # p
    <3>1. /\ TlsPort(q)' = TlsPort(q) /\ WebPort(q)' = WebPort(q)
          /\ Server(q)' = Server(q) /\ pc'[q] = pc[q] /\ Listens(q)
      BY <1>1, <2>2, PortsStay DEF PInv
    <3> QED BY <1>2, <2>2, <3>1 DEF Listens
  <2> QED BY <2>1, <2>2
<1> QED BY <1>2, <1>3, <1>4 DEF PInv

\* A port that was free is taken by p, or none.
LEMMA BindKeepsPorts ==
  ASSUME Types, PInv, NEW p \in Procs, BindTls(p) \/ BindLocal(p)
  PROVE  PInv'
<1>1. UNCHANGED <<cmd, launches>> /\ pc[p] \in {"bind", "local"} /\ DOMAIN users' = Procs
  BY DEF BindTls, BindLocal, PInv
<1>2. CASE pc' = [pc EXCEPT ![p] = "leave"] /\ UNCHANGED ports
  BY <1>1, <1>2, PortsAlone DEF Types, PInv
<1>3. ASSUME NEW l \in {"local", "serve"}, NEW n \in Nat,
             pc' = [pc EXCEPT ![p] = l], ports' = With(p, n),
             n \notin DOMAIN ports, n \in {TlsPort(p), WebPort(p)},
             l = "local" => n = TlsPort(p),
             l = "serve" => n = WebPort(p) /\ pc[p] = "local"
      PROVE  PInv'
  <2>1. /\ DOMAIN ports' = DOMAIN ports \cup {n} /\ ports'[n] = p
        /\ \A k \in DOMAIN ports : ports'[k] = ports[k]
    BY <1>3 DEF With
  <2>2. pc'[p] = l /\ \A q \in Procs \ {p} : pc'[q] = pc[q]
    BY <1>3 DEF Types
  <2>3. Holders'
    BY <2>1, <2>2 DEF PInv, Holders
  <2>4. ASSUME NEW q \in Procs PROVE Listens(q)'
    <3>1. /\ TlsPort(q)' = TlsPort(q) /\ WebPort(q)' = WebPort(q)
          /\ Server(q)' = Server(q) /\ Listens(q)
      BY <1>1, <2>2, PortsStay DEF PInv
    <3>2. CASE q = p
      BY <1>3, <2>1, <2>2, <3>1, <3>2 DEF Listens
    <3>3. CASE q # p
      BY <2>1, <2>2, <3>1, <3>3 DEF Listens
    <3> QED BY <3>2, <3>3
  <2> QED BY <1>1, <1>3, <2>1, <2>3, <2>4 DEF PInv
\* A client resolves a name and takes no port yet.
<1>4. CASE /\ pc' = [pc EXCEPT ![p] = "local"] /\ ~Server(p)
           /\ UNCHANGED ports /\ pc[p] = "bind"
  <2>1. pc'[p] = "local" /\ \A q \in Procs \ {p} : pc'[q] = pc[q]
    BY <1>4 DEF Types
  <2>2. Holders'
    BY <1>4, <2>1 DEF PInv, Holders
  <2>3. ASSUME NEW q \in Procs PROVE Listens(q)'
    <3>1. /\ TlsPort(q)' = TlsPort(q) /\ WebPort(q)' = WebPort(q)
          /\ Server(q)' = Server(q) /\ Listens(q)
      BY <1>1, <1>4, <2>1, PortsStay DEF PInv
    <3> QED BY <1>4, <2>1, <3>1 DEF Listens
  <2> QED BY <1>1, <1>4, <2>2, <2>3 DEF PInv
<1>5. CASE BindTls(p)
  <2>1. pc[p] = "bind" /\ TlsPort(p) \in Nat
    BY <1>5, PortsAreNat DEF BindTls
  <2>2. \/ Goto(p, "leave") /\ UNCHANGED ports
        \/ Goto(p, "local") /\ ~Server(p) /\ UNCHANGED ports
        \/ /\ Goto(p, "local") /\ ports' = With(p, TlsPort(p))
           /\ TlsPort(p) \notin DOMAIN ports
    BY <1>5 DEF BindTls, CanListen
  <2> QED BY <1>2, <1>3, <1>4, <2>1, <2>2 DEF Goto
<1>6. CASE BindLocal(p)
  <2>1. pc[p] = "local" /\ WebPort(p) \in Nat
    BY <1>6, PortsAreNat DEF BindLocal
  <2>2. \/ Goto(p, "leave") /\ UNCHANGED ports
        \/ /\ Goto(p, "serve") /\ ports' = With(p, WebPort(p))
           /\ WebPort(p) \notin DOMAIN ports
    BY <1>6 DEF BindLocal, CanListen
  <2> QED BY <1>2, <1>3, <2>1, <2>2 DEF Goto
<1> QED BY <1>5, <1>6

\* Every step keeps the ports.
THEOREM PortsInductive == Spec => []PInv
<1>1. Init => PInv
  BY LaunchesAssumption DEF Init, PInv, Holders, Listens, LaunchesAssumption
<1>2. IInv /\ PInv /\ [Next]_vars => PInv'
  <2> SUFFICES ASSUME Types, Places, PInv, [Next]_vars PROVE PInv'
    BY DEF IInv
  <2>1. CASE UNCHANGED vars
    <3>1. \A q \in Procs : Listens(q)'
      BY <2>1, PortsStay DEF vars, PInv, Listens
    <3> QED BY <2>1, <3>1 DEF vars, PInv, Holders
  <2>2. ASSUME NEW p \in Procs, Launch(p) PROVE PInv'
    <3>1. launches' \in 0..MaxLaunches /\ UNCHANGED <<users, ports>> /\ pc[p] = "off"
      BY <2>2, LaunchesAssumption DEF Launch, PInv, LaunchesAssumption
    <3>2. CASE UNCHANGED <<pc, cmd>>
      <4>1. \A q \in Procs : Listens(q)'
        BY <3>1, <3>2, PortsStay DEF PInv, Listens
      <4> QED BY <3>1, <3>2, <4>1 DEF PInv, Holders
    <3>3. CASE \E c \in CommandsOf[p] : Goto(p, "tls") /\ cmd' = [cmd EXCEPT ![p] = c]
      <4>1. pc' = [pc EXCEPT ![p] = pc'[p]] /\ pc'[p] = "tls"
        BY <3>3 DEF Goto, Types
      <4>2. \A q \in Procs \ {p} : cmd'[q] = cmd[q]
        BY <3>3 DEF Types
      <4> QED BY <3>1, <4>1, <4>2, PortsAlone DEF PInv
    <3> QED BY <2>2, <3>2, <3>3 DEF Launch
  <2>3. ASSUME NEW p \in Procs,
               InitTls(p) \/ TestPidFile(p) \/ CreatePidFile(p) \/ Fault(p)
        PROVE  PInv'
    <3>1. /\ UNCHANGED <<cmd, users, ports, launches>>
          /\ pc[p] \in {"tls", "test", "create", "serve"}
          /\ \E l \in {"test", "bind", "leave", "create"} :
               Goto(p, l) /\ (pc[p] = "serve" => l = "leave")
      BY <2>3 DEF InitTls, TestPidFile, CreatePidFile, Fault
    <3>2. /\ pc' = [pc EXCEPT ![p] = pc'[p]] /\ pc'[p] \notin {"local", "serve"}
          /\ pc[p] = "serve" => pc'[p] = "leave"
      BY <3>1 DEF Goto, Types
    <3> QED BY <3>1, <3>2, PortsAlone DEF PInv
  <2>4. ASSUME NEW p \in Procs, BindTls(p) \/ BindLocal(p) PROVE PInv'
    BY <2>4, BindKeepsPorts
  <2>5. ASSUME NEW p \in Procs, Interrupt(p) PROVE PInv'
    <3>1. pc' = [pc EXCEPT ![p] = pc'[p]] /\ pc'[p] = "leave"
      BY <2>5 DEF Interrupt, Goto, Types
    <3> QED BY <2>5, <3>1, PortsFreed DEF Interrupt, PInv
  <2>6. ASSUME NEW p \in Procs, Gone(p), UNCHANGED launches PROVE PInv'
    <3>1. pc' = [pc EXCEPT ![p] = pc'[p]] /\ pc'[p] = "off"
      BY <2>6 DEF Gone, Goto, Types
    <3>2. \A q \in Procs \ {p} : cmd'[q] = cmd[q]
      BY <2>6 DEF Gone, Types
    <3>3. DOMAIN users' = Procs /\ ports' = Without(p)
      BY <2>6 DEF Gone, PInv
    <3> QED BY <2>6, <3>1, <3>2, <3>3, PortsFreed
  <2>7. ASSUME NEW p \in Procs, TestOwnFile(p) PROVE PInv'
    <3>1. CASE Goto(p, "remove") /\ UNCHANGED <<cmd, mine, users, ports>>
      <4>1. pc' = [pc EXCEPT ![p] = pc'[p]] /\ pc'[p] = "remove"
        BY <3>1 DEF Goto, Types
      <4> QED BY <2>7, <3>1, <4>1, PortsAlone DEF TestOwnFile, PInv
    <3> QED BY <2>6, <2>7, <3>1 DEF TestOwnFile
  <2>8. ASSUME NEW p \in Procs, RemoveFile(p) \/ Kill(p) PROVE PInv'
    BY <2>6, <2>8 DEF RemoveFile, Kill
  <2> QED BY <2>1, <2>2, <2>3, <2>4, <2>5, <2>7, <2>8 DEF Next, Setup, Leave
<1> QED BY <1>1, <1>2, Inductive, PTL DEF Spec

\* Every variable holds a value of its kind, for all settings whose ports are
\* ints: main() and Server.
THEOREM TypeCorrect == Spec => []TypeOK
<1>1. IInv /\ PInv => TypeOK
  BY DEF IInv, Types, PInv, TypeOK
<1> QED BY <1>1, Inductive, PortsInductive, PTL

\* Two processes that serve never do so on one port, and each has those of its
\* settings: Socks::bind() and listen() in Server::server() and client().
THEOREM ServersListen == Spec => [](\A p \in Procs : Listens(p))
<1>1. PInv => \A p \in Procs : Listens(p)
  BY DEF PInv
<1> QED BY <1>1, PortsInductive, PTL
-----------------------------------------------------------------------------
(* The users of a file. *)

\* What is read once stays as it was read.
LEMMA EntriesStay ==
  ASSUME NEW lines, OfLines(lines), NEW n \in 0..Len(lines),
         NEW at \in DOMAIN ReadUpTo(lines)[n].settings
  PROVE  /\ at \in DOMAIN OpenFile(lines).settings
         /\ OpenFile(lines).settings[at] = ReadUpTo(lines)[n].settings[at]
<1> DEFINE R == ReadUpTo(lines)
           Stays(d) == /\ at \in DOMAIN R[n + d].settings
                       /\ R[n + d].settings[at] = R[n].settings[at]
           T == {d \in 0..(Len(lines) - n) : Stays(d)}
<1>1. Len(lines) \in Nat /\ n \in Nat /\ Len(lines) - n \in Nat /\ n + 0 = n
  BY DEF OfLines
<1>2. 0 \in T
  BY <1>1
<1>3. ASSUME NEW d \in 0..((Len(lines) - n) - 1), Stays(d) PROVE Stays(d + 1)
  <2>1. R[n + (d + 1)] = ReadLine(R[n + d], lines[n + (d + 1)]) /\ IsLine(lines[n + (d + 1)])
    <3>1. /\ n + (d + 1) \in 0..Len(lines) /\ n + (d + 1) # 0
          /\ (n + (d + 1)) - 1 = n + d /\ n + (d + 1) \in DOMAIN lines
      BY <1>1 DEF OfLines
    <3> HIDE DEF R
    <3> QED BY <3>1, ReadByLine DEF OfLines, R
  <2>2. Shape(R[n + d])
    <3>1. n + d \in 0..Len(lines)
      BY <1>1
    <3> QED BY <3>1, EntriesAreFew
  <2>3. \/ R[n + (d + 1)].settings = R[n + d].settings
        \/ \E key, value : R[n + (d + 1)].settings = Insert(R[n + d].settings, key, value)
    <3> HIDE DEF R
    <3> QED BY <2>1, <2>2, LineAdds
  <2> HIDE DEF R
  <2> QED BY <1>3, <2>3 DEF Insert
<1>4. 0..(Len(lines) - n) \subseteq T
  <2>1. \A d \in 0..((Len(lines) - n) - 1) : d \in T => d + 1 \in T
    <3> HIDE DEF Stays
    <3> QED BY <1>1, <1>3
  <2> HIDE DEF T
  <2> QED BY <1>1, <1>2, <2>1, UpTo
<1>5. Len(lines) - n \in T
  <2> HIDE DEF T
  <2> QED BY <1>1, <1>4
<1>6. n + (Len(lines) - n) = Len(lines)
  BY <1>1
<1> QED BY <1>5, <1>6 DEF OpenFile

\* Line n is in the section "user", and the lines up to n that set a key there.
InUser(lines, n) ==
  \E h \in 1..n : /\ lines[h] = Section("user")
                  /\ \A j \in (h + 1)..n : lines[j].kind # "section"
Lines(lines, key, n) ==
  {j \in 1..n : /\ lines[j].kind = "pair" /\ WrittenIn(lines, j, "user")
                /\ lines[j].key = key}
Understood(lines, n) ==
  LET st == ReadUpTo(lines)[n]
  IN /\ st.reading
     /\ st.section = "user" <=> InUser(lines, n)
     /\ \A key :
          /\ <<"user", key>> \in DOMAIN st.settings <=> Lines(lines, key, n) # {}
          /\ \A j \in Lines(lines, key, n) :
               (\A i \in Lines(lines, key, n) : j <= i) =>
                 st.settings[<<"user", key>>] = lines[j].value

\* A line moves the section on, or adds a line to those of a key.
LEMMA NextLine ==
  ASSUME NEW lines, OfLines(lines), NEW k \in Nat, k + 1 \in 1..Len(lines),
         Plain(lines[k + 1])
  PROVE  /\ InUser(lines, k + 1) <=> IF lines[k + 1].kind = "section"
                                     THEN lines[k + 1].name = "user" ELSE InUser(lines, k)
         /\ \A key : Lines(lines, key, k + 1) =
              Lines(lines, key, k) \cup
              {j \in {k + 1} : lines[j].kind = "pair" /\ InUser(lines, k) /\ lines[j].key = key}
<1> DEFINE line == lines[k + 1]
<1>1. IsLine(line) /\ Len(lines) \in Nat
  BY DEF OfLines
<1>2. line.kind = "section" => line = Section(line.name)
  BY <1>1 DEF IsLine, Empty, Blank, Comment, Other, Section, Pair
<1>3. line.kind = "section" => (line = Section("user") <=> line.name = "user")
  BY <1>2 DEF Section
<1>4. line.kind # "section" => line # Section("user")
  BY DEF Section
<1>5. InUser(lines, k + 1) <=> IF line.kind = "section" THEN line.name = "user"
                               ELSE InUser(lines, k)
  <2>1. CASE line.kind = "section"
    <3>1. ASSUME InUser(lines, k + 1) PROVE line.name = "user"
      <4>1. PICK h \in 1..(k + 1) : /\ lines[h] = Section("user")
                                    /\ \A j \in (h + 1)..(k + 1) : lines[j].kind # "section"
        BY <3>1 DEF InUser
      <4>2. h = k + 1
        BY <2>1, <4>1
      <4> QED BY <1>3, <2>1, <4>1, <4>2
    <3>2. ASSUME line.name = "user" PROVE InUser(lines, k + 1)
      <4>1. /\ k + 1 \in 1..(k + 1) /\ lines[k + 1] = Section("user")
            /\ \A j \in ((k + 1) + 1)..(k + 1) : lines[j].kind # "section"
        BY <1>3, <2>1, <3>2
      <4> QED BY <4>1 DEF InUser
    <3> QED BY <2>1, <3>1, <3>2
  <2>2. CASE line.kind # "section"
    <3>1. ASSUME NEW h \in 1..(k + 1)
          PROVE  (/\ lines[h] = Section("user")
                  /\ \A j \in (h + 1)..(k + 1) : lines[j].kind # "section")
                 <=> (/\ h \in 1..k /\ lines[h] = Section("user")
                      /\ \A j \in (h + 1)..k : lines[j].kind # "section")
      BY <1>4, <2>2
    <3>2. 1..k \subseteq 1..(k + 1)
      OBVIOUS
    <3> HIDE DEF line
    <3> QED BY <2>2, <3>1, <3>2 DEF InUser
  <2> QED BY <2>1, <2>2
<1>6. line.kind = "pair" => (WrittenIn(lines, k + 1, "user") <=> InUser(lines, k))
  <2> SUFFICES ASSUME line.kind = "pair"
               PROVE  WrittenIn(lines, k + 1, "user") <=> InUser(lines, k)
    OBVIOUS
  <2>1. ASSUME NEW h \in 1..k
        PROVE  (\A j \in (h + 1)..(k + 1) : lines[j].kind # "section")
               <=> \A j \in (h + 1)..k : lines[j].kind # "section"
    OBVIOUS
  <2>2. (k + 1) - 1 = k
    OBVIOUS
  <2> QED BY <2>1, <2>2 DEF WrittenIn, InUser
<1>7. ASSUME NEW key
      PROVE  Lines(lines, key, k + 1) = Lines(lines, key, k) \cup
        {j \in {k + 1} : lines[j].kind = "pair" /\ InUser(lines, k) /\ lines[j].key = key}
  <2>1. 1..(k + 1) = (1..k) \cup {k + 1}
    OBVIOUS
  <2> QED BY <1>6, <2>1 DEF Lines
<1> QED BY <1>5, <1>7

\* Up to the first line that is not what it looks like, the reader has understood
\* what the author of the file meant.
LEMMA FileIsUnderstood ==
  ASSUME NEW lines, OfLines(lines), NEW n \in 0..Len(lines),
         \A j \in 1..n : Plain(lines[j])
  PROVE  Understood(lines, n)
<1> DEFINE R == ReadUpTo(lines)
           T == {k \in 0..n : Understood(lines, k)}
<1>1. Len(lines) \in Nat /\ n \in Nat
  BY DEF OfLines
<1>2. Understood(lines, 0)
  <2>1. R[0] = Start
    BY <1>1, ReadByLine
  <2>2. ~InUser(lines, 0) /\ \A key : Lines(lines, key, 0) = {}
    BY DEF InUser, Lines
  <2> QED BY <2>1, <2>2 DEF Understood, Start, ANONYMOUS_SECTION
<1>3. ASSUME NEW k \in 0..(n - 1), Understood(lines, k) PROVE Understood(lines, k + 1)
  <2> DEFINE line == lines[k + 1]
             st == R[k]
             next == R[k + 1]
  <2>1. /\ k \in Nat /\ k \in 0..Len(lines) /\ k + 1 \in 0..Len(lines) /\ k + 1 # 0
        /\ (k + 1) - 1 = k /\ k + 1 \in DOMAIN lines /\ k + 1 \in 1..n /\ k + 1 \in 1..Len(lines)
    BY <1>1 DEF OfLines
  <2>2. next = ReadLine(st, line) /\ IsLine(line) /\ Plain(line) /\ Shape(st)
    BY <2>1, ReadByLine, EntriesAreFew DEF OfLines
  <2>3. /\ st.reading
        /\ st.section = "user" <=> InUser(lines, k)
        /\ \A key : /\ <<"user", key>> \in DOMAIN st.settings <=> Lines(lines, key, k) # {}
                    /\ \A j \in Lines(lines, key, k) :
                         (\A i \in Lines(lines, key, k) : j <= i) =>
                           st.settings[<<"user", key>>] = lines[j].value
    BY <1>3 DEF Understood
  <2> HIDE DEF R
  <2>4. /\ next.reading
        /\ next.section = IF line.kind = "section" THEN line.name ELSE st.section
        /\ next.settings = IF line.kind = "pair"
                           THEN Insert(st.settings, <<st.section, line.key>>, line.value)
                           ELSE st.settings
    <3> HIDE DEF line, st, next
    <3>1. Seen(line) = line /\ line.kind # "other"
      BY <2>2 DEF Plain, Seen
    <3> QED BY <2>2, <2>3, <3>1, PlainLine
  <2>5. /\ InUser(lines, k + 1) <=> IF line.kind = "section" THEN line.name = "user"
                                    ELSE InUser(lines, k)
        /\ \A key : Lines(lines, key, k + 1) = Lines(lines, key, k) \cup
             {j \in {k + 1} : lines[j].kind = "pair" /\ InUser(lines, k) /\ lines[j].key = key}
    BY <2>1, <2>2, NextLine
  <2>6. ASSUME NEW key
        PROVE  /\ <<"user", key>> \in DOMAIN next.settings <=> Lines(lines, key, k + 1) # {}
               /\ \A j \in Lines(lines, key, k + 1) :
                    (\A i \in Lines(lines, key, k + 1) : j <= i) =>
                      next.settings[<<"user", key>>] = lines[j].value
    <3>1. CASE ~(line.kind = "pair" /\ InUser(lines, k) /\ line.key = key)
      <4>1. Lines(lines, key, k + 1) = Lines(lines, key, k)
        BY <2>5, <3>1
      <4>2. /\ <<"user", key>> \in DOMAIN next.settings <=> <<"user", key>> \in DOMAIN st.settings
            /\ <<"user", key>> \in DOMAIN st.settings =>
                 next.settings[<<"user", key>>] = st.settings[<<"user", key>>]
        <5> HIDE DEF line, st, next
        <5> QED BY <2>3, <2>4, <3>1 DEF Insert
      <4> HIDE DEF line, st, next
      <4> QED BY <2>3, <4>1, <4>2
    <3>2. CASE line.kind = "pair" /\ InUser(lines, k) /\ line.key = key
      <4>1. Lines(lines, key, k + 1) = Lines(lines, key, k) \cup {k + 1}
        BY <2>5, <3>2
      <4>2. next.settings = Insert(st.settings, <<"user", key>>, line.value)
        <5> HIDE DEF line, st, next
        <5> QED BY <2>3, <2>4, <3>2
      <4>3. \A j \in Lines(lines, key, k) : j \in Nat /\ j < k + 1
        BY <2>1 DEF Lines
      <4>4. CASE Lines(lines, key, k) = {}
        <5>1. <<"user", key>> \notin DOMAIN st.settings
          BY <2>3, <4>4
        <5>2. /\ <<"user", key>> \in DOMAIN next.settings
              /\ next.settings[<<"user", key>>] = line.value
          <6> HIDE DEF line, st, next
          <6> QED BY <4>2, <5>1 DEF Insert
        <5> QED BY <4>1, <4>4, <5>2
      <4>5. CASE Lines(lines, key, k) # {}
        <5>1. <<"user", key>> \in DOMAIN st.settings
          BY <2>3, <4>5
        <5>2. /\ <<"user", key>> \in DOMAIN next.settings
              /\ next.settings[<<"user", key>>] = st.settings[<<"user", key>>]
          <6> HIDE DEF line, st, next
          <6> QED BY <4>2, <5>1 DEF Insert
        <5>3. ASSUME NEW j \in Lines(lines, key, k + 1),
                     \A i \in Lines(lines, key, k + 1) : j <= i
              PROVE  j \in Lines(lines, key, k) /\ \A i \in Lines(lines, key, k) : j <= i
          BY <2>1, <4>1, <4>3, <4>5, <5>3
        <5> HIDE DEF line, st, next
        <5> QED BY <2>3, <4>1, <5>2, <5>3
      <4> QED BY <4>4, <4>5
    <3> QED BY <3>1, <3>2
  <2>7. next.section = "user" <=> InUser(lines, k + 1)
    <3> HIDE DEF line, st, next
    <3> QED BY <2>3, <2>4, <2>5
  <2> QED BY <2>4, <2>6, <2>7 DEF Understood, R
<1>4. 0..n \subseteq T
  <2>1. 0 \in T /\ \A k \in 0..(n - 1) : k \in T => k + 1 \in T
    BY <1>1, <1>2, <1>3
  <2> HIDE DEF T
  <2> QED BY <1>1, <2>1, UpTo
<1> QED BY <1>1, <1>4

\* The entry of a user whom Promised() lists: of number n, in line i.
Good(lines, n, i) ==
  LET at(m) == {j \in DOMAIN lines : UserLine(lines, j, m)}
  IN /\ i \in at(n) /\ \A j \in at(n) : i <= j
     /\ \A m \in 0..n : \E j \in at(m) : \A k \in 1..j : Plain(lines[k])
     /\ Len(Split[lines[i].value]) > 1
     /\ \A m \in 0..(n - 1) : \A j \in at(m) :
          Split[lines[j].value][1] # Split[lines[i].value][1]
\* What a map of settings has at user0 to user<n>, of which the last is line i.
Numbers(lines, settings, n, i) ==
  \A m \in 0..n : \E j \in DOMAIN lines :
    /\ UserLine(lines, j, m) /\ (m = n => j = i)
    /\ <<"user", "user" \o ToString(m)>> \in DOMAIN settings
    /\ settings[<<"user", "user" \o ToString(m)>>] = lines[j].value

\* Those entries are read, each from the first line of its number.
LEMMA GoodIsRead ==
  ASSUME NEW lines, OfLines(lines), NEW n \in Nat, NEW i, Good(lines, n, i)
  PROVE  Numbers(lines, OpenFile(lines).settings, n, i)
<1> SUFFICES ASSUME NEW m \in 0..n
             PROVE  \E j \in DOMAIN lines :
                      /\ UserLine(lines, j, m) /\ (m = n => j = i)
                      /\ <<"user", "user" \o ToString(m)>> \in DOMAIN OpenFile(lines).settings
                      /\ OpenFile(lines).settings[<<"user", "user" \o ToString(m)>>]
                           = lines[j].value
  BY DEF Numbers
<1> DEFINE at == {j \in DOMAIN lines : UserLine(lines, j, m)}
           key == "user" \o ToString(m)
<1>1. Len(lines) \in Nat /\ DOMAIN lines = 1..Len(lines) /\ at \subseteq Nat
  BY DEF OfLines
<1>2. PICK s \in at : \A k \in 1..s : Plain(lines[k])
  BY DEF Good
<1>3. PICK j \in at : \A k \in at : j <= k
  <2> HIDE DEF at
  <2> QED BY <1>1, <1>2, LeastNumber
<1>4. m = n => j = i
  <2> SUFFICES ASSUME m = n PROVE j = i
    OBVIOUS
  <2>1. i \in at /\ \A k \in at : i <= k
    BY DEF Good
  <2> HIDE DEF at
  <2> QED BY <1>1, <1>3, <2>1
<1>5. Understood(lines, j)
  <2>1. j \in 0..Len(lines) /\ j <= s /\ s \in Nat
    BY <1>1, <1>3, <1>2
  <2>2. \A k \in 1..j : Plain(lines[k])
    BY <1>2, <2>1
  <2> QED BY <2>1, <2>2, FileIsUnderstood
<1>6. j \in Lines(lines, key, j) /\ \A k \in Lines(lines, key, j) : j <= k
  <2>1. j \in 1..j
    BY <1>1, <1>3
  <2>2. j \in Lines(lines, key, j)
    BY <1>3, <2>1 DEF Lines, UserLine
  <2>3. Lines(lines, key, j) \subseteq at
    BY <1>1, <1>3 DEF Lines, UserLine
  <2> HIDE DEF at
  <2> QED BY <1>3, <2>2, <2>3
<1>7. /\ <<"user", key>> \in DOMAIN ReadUpTo(lines)[j].settings
      /\ ReadUpTo(lines)[j].settings[<<"user", key>>] = lines[j].value
  <2> HIDE DEF key
  <2> QED BY <1>5, <1>6 DEF Understood
<1>8. /\ <<"user", key>> \in DOMAIN OpenFile(lines).settings
      /\ OpenFile(lines).settings[<<"user", key>>] = lines[j].value
  <2>1. j \in 0..Len(lines)
    BY <1>1, <1>3
  <2> HIDE DEF key
  <2> QED BY <1>7, <2>1, EntriesStay
<1> QED BY <1>3, <1>4, <1>8

\* No option of the command line sets a user.
LEMMA OptionsSetNoUsers ==
  ASSUME NEW settings, NEW opts, NEW at, at[1] = "user",
         NEW table \in {OptionKey, ServerKey, ClientKey}
  PROVE  /\ at \in DOMAIN Override(settings, opts, table) <=> at \in DOMAIN settings
         /\ at \in DOMAIN settings => Override(settings, opts, table)[at] = settings[at]
<1>1. \A o \in DOMAIN table : table[o][1] # "user"
  BY DEF OptionKey, ServerKey, ClientKey
<1> QED BY <1>1 DEF Override

\* The users of a file are those in the settings of the process.
LEMMA UsersOfFile ==
  ASSUME NEW c, NEW at, at[1] = "user"
  PROVE  /\ at \in DOMAIN Settings(c) <=> at \in DOMAIN FileSettings(c)
         /\ at \in DOMAIN FileSettings(c) => Settings(c)[at] = FileSettings(c)[at]
<1>1. PICK table \in {ServerKey, ClientKey} : Settings(c) = Override(Common(c), c.opts, table)
  BY DEF Settings
<1> QED BY <1>1, OptionsSetNoUsers DEF Common

\* There are no more of them than lines in the file.
LEMMA UsersAreFew ==
  ASSUME NEW c, OfLines(c.file), "n" \in DOMAIN c.opts
  PROVE  /\ IsFiniteSet(KeysOf(Settings(c), "user"))
         /\ Cardinality(KeysOf(Settings(c), "user")) <= Len(c.file)
<1> DEFINE D == DOMAIN OpenFile(c.file).settings
           K == KeysOf(Settings(c), "user")
           S == {at \in D : at[1] = "user"}
           f == [at \in S |-> at[2]]
<1>1. IsFiniteSet(D) /\ Cardinality(D) <= Len(c.file) /\ Len(c.file) \in Nat
  BY EntriesAreFew DEF OfLines, OpenFile
<1>2. IsFiniteSet(S) /\ Cardinality(S) <= Cardinality(D)
  <2>1. S \in SUBSET D
    OBVIOUS
  <2> HIDE DEF S, D
  <2> QED BY <1>1, <2>1, FS_Subset
<1>3. K = {at[2] : at \in S}
  <2>1. {at \in DOMAIN Settings(c) : at[1] = "user"} = S
    BY UsersOfFile DEF FileSettings
  <2> QED BY <2>1 DEF KeysOf
<1>4. f \in Surjection(S, K)
  BY <1>3 DEF Surjection
<1>5. IsFiniteSet(K) /\ Cardinality(K) <= Cardinality(S)
  <2> HIDE DEF S, K, f
  <2> QED BY <1>2, <1>4, FS_Surjection
<1>6. Cardinality(D) \in Nat /\ Cardinality(S) \in Nat /\ Cardinality(K) \in Nat
  <2> HIDE DEF S, K, D
  <2> QED BY <1>1, <1>2, <1>5, FS_CardinalityType
<1> HIDE DEF S, K, D
<1> QED BY <1>1, <1>2, <1>5, <1>6 DEF K

\* Those that are numbered without a gap are counted.
LEMMA NumberedIsLong ==
  ASSUME NEW settings, NEW n \in Nat, NEW len \in Nat,
         IsFiniteSet(KeysOf(settings, "user")), Cardinality(KeysOf(settings, "user")) <= len,
         \A i, j \in 0..len : i # j => "user" \o ToString(i) # "user" \o ToString(j),
         \A m \in 0..n : Has(settings, "user", "user" \o ToString(m))
  PROVE  /\ Len(Numbered(settings, "user", "user")) \in Nat
         /\ n < Len(Numbered(settings, "user", "user"))
         /\ \A m \in 0..n : Numbered(settings, "user", "user")[m + 1]
                              = settings[<<"user", "user" \o ToString(m)>>]
<1> DEFINE key(k) == "user" \o ToString(k)
           gap(k) == ~Has(settings, "user", key(k))
           K == KeysOf(settings, "user")
           size == Cardinality(K)
           Least(k) == gap(k) /\ \A i \in 0..(k - 1) : ~gap(i)
           count == CHOOSE k \in 0..size : Least(k)
<1>1. size \in Nat /\ size <= len
  <2> HIDE DEF K
  <2> QED BY FS_CardinalityType DEF K
<1>2. \E k \in 0..size : gap(k)
  <2> SUFFICES ASSUME \A k \in 0..size : ~gap(k) PROVE FALSE
    OBVIOUS
  <2> DEFINE f == [k \in 0..size |-> key(k)]
  <2>1. \A k \in 0..size : key(k) \in K
    <3> SUFFICES ASSUME NEW k \in 0..size PROVE key(k) \in K
      OBVIOUS
    <3>1. <<"user", key(k)>> \in DOMAIN settings
      BY DEF Has
    <3> HIDE DEF key
    <3> QED BY <3>1 DEF KeysOf
  <2>2. f \in [0..size -> K]
    <3> HIDE DEF key, K, size
    <3> QED BY <2>1
  <2>3. IsFiniteSet(0..size) /\ Cardinality(0..size) = size + 1
    <3> HIDE DEF size
    <3>1. /\ IsFiniteSet(0..size)
          /\ Cardinality(0..size) = IF 0 > size THEN 0 ELSE size - 0 + 1
      BY <1>1, FS_Interval
    <3> QED BY <1>1, <3>1
  <2>4. \E x, y \in 0..size : x # y /\ f[x] = f[y]
    <3>1. Cardinality(K) < Cardinality(0..size)
      BY <1>1, <2>3
    <3> HIDE DEF f, K
    <3> QED BY <2>2, <2>3, <3>1, FS_PigeonHole DEF K
  <2>5. 0..size \subseteq 0..len
    <3> HIDE DEF size
    <3> QED BY <1>1
  <2> HIDE DEF size
  <2> QED BY <2>4, <2>5
<1> HIDE DEF gap
<1>3. \E k \in 0..size : Least(k)
  <2> HIDE DEF size
  <2> DEFINE T == {k \in 0..size : gap(k)}
  <2>1. PICK k \in T : \A i \in T : k <= i
    <3>1. T \subseteq Nat /\ T # {}
      BY <1>1, <1>2
    <3> HIDE DEF T
    <3> QED BY <3>1, LeastNumber
  <2>2. \A i \in 0..(k - 1) : ~gap(i)
    BY <1>1, <2>1
  <2> QED BY <2>1, <2>2
<1>4. count \in 0..size /\ Least(count)
  BY <1>3
<1>5. Numbered(settings, "user", "user") = [i \in 1..count |-> settings[<<"user", key(i - 1)>>]]
  BY DEF Numbered, gap
<1> HIDE DEF count, size
<1>6. count \in Nat /\ n < count
  <2>1. \A m \in 0..n : ~gap(m)
    BY DEF gap
  <2> QED BY <1>1, <1>4, <2>1
<1> DEFINE num == Numbered(settings, "user", "user")
<1>7. Len(num) = count
  <2> DEFINE V == {settings[<<"user", key(i - 1)>>] : i \in 1..count}
  <2> HIDE DEF key
  <2>1. num \in [1..count -> V]
    BY <1>5
  <2> HIDE DEF V, num
  <2>2. num \in Seq(V)
    BY <1>6, <2>1
  <2> QED BY <1>6, <2>1, <2>2
<1>8. ASSUME NEW m \in 0..n PROVE num[m + 1] = settings[<<"user", key(m)>>]
  <2>1. m + 1 \in 1..count /\ (m + 1) - 1 = m
    BY <1>6
  <2> HIDE DEF key
  <2> QED BY <1>5, <2>1
<1> QED BY <1>6, <1>7, <1>8

\* The table after each value is what InsertUser() makes of the one before.
LEMMA TableByValue ==
  ASSUME NEW values, Len(values) \in Nat
  PROVE  \A n \in 0..Len(values) :
           Tables(values)[n] = IF n = 0 THEN <<>>
                               ELSE InsertUser(Tables(values)[n - 1], values[n])
<1> DEFINE len == Len(values)
           Makes(f, k) == f = [n \in 0..k |-> IF n = 0 THEN <<>>
                                              ELSE InsertUser(f[n - 1], values[n])]
           T == {k \in 0..len : \E f : Makes(f, k)}
<1>1. 0 \in T
  <2>1. \E f : Makes(f, 0)
    <3>1. Makes([n \in 0..0 |-> <<>>], 0)
      OBVIOUS
    <3> HIDE DEF Makes
    <3> QED BY <3>1
  <2> QED BY <2>1
<1>2. ASSUME NEW k \in 0..(len - 1), k \in T PROVE k + 1 \in T
  <2>1. PICK f : Makes(f, k)
    BY <1>2
  <2> DEFINE g == [n \in 0..(k + 1) |-> IF n = k + 1 THEN InsertUser(f[k], values[k + 1])
                                        ELSE f[n]]
             h == [n \in 0..(k + 1) |-> IF n = 0 THEN <<>>
                                        ELSE InsertUser(g[n - 1], values[n])]
  <2>2. \A n \in 0..(k + 1) : g[n] = h[n]
    <3>1. \A n \in 0..k : f[n] = IF n = 0 THEN <<>> ELSE InsertUser(f[n - 1], values[n])
      BY <2>1
    <3>2. /\ \A n \in 0..k : g[n] = f[n]
          /\ g[k + 1] = InsertUser(g[k], values[k + 1])
      OBVIOUS
    <3>3. \A n \in 0..(k + 1) : h[n] = IF n = 0 THEN <<>> ELSE InsertUser(g[n - 1], values[n])
      OBVIOUS
    <3> HIDE DEF g, h
    <3>4. TAKE n \in 0..(k + 1)
    <3>5. CASE n = k + 1
      BY <3>2, <3>3, <3>5
    <3>6. CASE n = 0
      BY <3>1, <3>2, <3>3, <3>6
    <3>7. CASE n \in 1..k
      <4> n - 1 \in 0..k
        BY <3>7
      <4> QED BY <3>1, <3>2, <3>3, <3>7
    <3> QED BY <3>5, <3>6, <3>7
  <2>3. Makes(g, k + 1)
    <3>1. g = [n \in 0..(k + 1) |-> g[n]] /\ h = [n \in 0..(k + 1) |-> h[n]]
      OBVIOUS
    <3>2. g = h
      <4> HIDE DEF g, h
      <4> QED BY <2>2, <3>1
    <3> QED BY <3>2
  <2>4. k + 1 \in 0..len /\ \E e : Makes(e, k + 1)
    <3> HIDE DEF Makes, g
    <3> QED BY <2>3
  <2> QED BY <2>4
<1>3. \E f : Makes(f, len)
  <2> HIDE DEF T
  <2>1. 0..len \subseteq T
    BY <1>1, <1>2, UpTo
  <2>2. len \in T
    BY <2>1
  <2> QED BY <2>2 DEF T
<1>4. Makes(Tables(values), len)
  BY <1>3 DEF Tables
<1> QED BY <1>4

\* A name whose value comes before any other value of that name gets into the
\* table, and keeps its password.
LEMMA TableHasUser ==
  ASSUME NEW values, Len(values) \in Nat, NEW n \in 1..Len(values),
         Len(Split[values[n]]) > 1,
         \A m \in 1..(n - 1) : Split[values[m]][1] # Split[values[n]][1]
  PROVE  /\ Split[values[n]][1] \in DOMAIN Tables(values)[Len(values)]
         /\ Tables(values)[Len(values)][Split[values[n]][1]] = Split[values[n]][2]
<1> DEFINE t == Tables(values)
           name == Split[values[n]][1]
           Right(k) == IF k < n THEN name \notin DOMAIN t[k]
                       ELSE name \in DOMAIN t[k] /\ t[k][name] = Split[values[n]][2]
           T == {k \in 0..Len(values) : Right(k)}
<1>1. Right(0)
  BY TableByValue
<1>2. ASSUME NEW k \in 0..(Len(values) - 1), Right(k) PROVE Right(k + 1)
  <2>1. t[k + 1] = InsertUser(t[k], values[k + 1])
    <3>1. k + 1 \in 0..Len(values) /\ k + 1 # 0 /\ (k + 1) - 1 = k
      OBVIOUS
    <3> QED BY <3>1, TableByValue
  <2> HIDE DEF t
  <2>2. CASE k + 1 < n
    <3>1. Split[values[k + 1]][1] # name /\ k < n
      BY <2>2
    <3> HIDE DEF name
    <3> QED BY <1>2, <2>1, <2>2, <3>1 DEF InsertUser, Insert
  <2>3. CASE k + 1 = n
    <3>1. t[n] = Insert(t[k], name, Split[values[n]][2]) /\ name \notin DOMAIN t[k]
      BY <1>2, <2>1, <2>3 DEF InsertUser
    <3> HIDE DEF name
    <3> QED BY <2>3, <3>1 DEF Insert
  <2>4. CASE k + 1 > n
    <3>1. name \in DOMAIN t[k] /\ t[k][name] = Split[values[n]][2]
      BY <1>2, <2>4
    <3> HIDE DEF name
    <3> QED BY <2>1, <2>4, <3>1 DEF InsertUser, Insert
  <2> QED BY <2>2, <2>3, <2>4
<1> HIDE DEF Right
<1>3. 0..Len(values) \subseteq T
  <2>1. 0 \in T /\ \A k \in 0..(Len(values) - 1) : k \in T => k + 1 \in T
    BY <1>1, <1>2
  <2> HIDE DEF T
  <2> QED BY <2>1, UpTo
<1>4. Right(Len(values))
  BY <1>3
<1> QED BY <1>4 DEF Right

\* Whatever the files and the options: every user whom the author of a file lists
\* is in the table that is made of it.
LEMMA TableAsListed ==
  ASSUME NEW c \in DOMAIN Commands, NEW u \in PromisedBy[c]
  PROVE  /\ u[1] \in DOMAIN UserTable(Parsed[c].settings)
         /\ UserTable(Parsed[c].settings)[u[1]] = u[2]
<1> DEFINE lines == Commands[c].file
           settings == Settings(Commands[c])
           values == Numbered(settings, "user", "user")
<1>1. OfLines(lines) /\ \A i, j \in 0..Len(lines) :
                         i # j => "user" \o ToString(i) # "user" \o ToString(j)
  <2>1. /\ lines \in Seq({lines[i] : i \in DOMAIN lines})
        /\ \A i \in DOMAIN lines : IsLine(lines[i])
        /\ \A i, j \in 0..Len(lines) :
             i # j => "user" \o ToString(i) # "user" \o ToString(j)
    BY FilesAssumption DEF FilesAssumption
  <2> DEFINE V == {lines[i] : i \in DOMAIN lines}
  <2>2. Len(lines) \in Nat /\ DOMAIN lines = 1..Len(lines)
    <3> HIDE DEF lines, V
    <3>1. lines \in Seq(V)
      BY <2>1 DEF V
    <3> QED BY <3>1
  <2> QED BY <2>1, <2>2 DEF OfLines
<1>2. "n" \in DOMAIN Commands[c].opts /\ u \in Promised(lines)
  BY DEF PromisedBy
<1>3. PICK i \in DOMAIN lines, n \in 0..Len(lines) :
        /\ Good(lines, n, i)
        /\ u = <<Split[lines[i].value][1], Split[lines[i].value][2]>>
  BY <1>2 DEF Promised, Good
<1>4. n \in Nat /\ Len(lines) \in Nat
  BY <1>1 DEF OfLines
<1>5. Numbers(lines, OpenFile(lines).settings, n, i)
  BY <1>1, <1>3, <1>4, GoodIsRead
<1>6. Numbers(lines, settings, n, i)
  <2> SUFFICES ASSUME NEW m \in 0..n
               PROVE  \E j \in DOMAIN lines :
                        /\ UserLine(lines, j, m) /\ (m = n => j = i)
                        /\ <<"user", "user" \o ToString(m)>> \in DOMAIN settings
                        /\ settings[<<"user", "user" \o ToString(m)>>] = lines[j].value
    BY DEF Numbers
  <2> DEFINE at == <<"user", "user" \o ToString(m)>>
  <2>1. PICK j \in DOMAIN lines :
          /\ UserLine(lines, j, m) /\ (m = n => j = i)
          /\ at \in DOMAIN OpenFile(lines).settings
          /\ OpenFile(lines).settings[at] = lines[j].value
    BY <1>5 DEF Numbers
  <2>2. FileSettings(Commands[c]) = OpenFile(lines).settings /\ at[1] = "user"
    BY <1>2 DEF FileSettings
  <2> HIDE DEF at
  <2>3. at \in DOMAIN settings /\ settings[at] = lines[j].value
    BY <2>1, <2>2, UsersOfFile
  <2> QED BY <2>1, <2>3 DEF at
<1> HIDE DEF settings
<1>7. /\ Len(values) \in Nat /\ n < Len(values)
      /\ \A m \in 0..n : values[m + 1] = settings[<<"user", "user" \o ToString(m)>>]
  <2>1. \A m \in 0..n : Has(settings, "user", "user" \o ToString(m))
    BY <1>6 DEF Numbers, Has
  <2>2. /\ IsFiniteSet(KeysOf(settings, "user"))
        /\ Cardinality(KeysOf(settings, "user")) <= Len(lines)
    BY <1>1, <1>2, UsersAreFew DEF settings
  <2> HIDE DEF lines
  <2> QED BY <1>1, <1>4, <2>1, <2>2, NumberedIsLong
<1>8. \A m \in 0..n : \E j \in DOMAIN lines :
        UserLine(lines, j, m) /\ (m = n => j = i) /\ values[m + 1] = lines[j].value
  BY <1>6, <1>7 DEF Numbers
<1> HIDE DEF values
<1>9. values[n + 1] = lines[i].value /\ n + 1 \in 1..Len(values)
  <2>1. \E j \in DOMAIN lines : j = i /\ values[n + 1] = lines[j].value
    BY <1>4, <1>8
  <2> QED BY <1>4, <1>7, <2>1
<1>10. ASSUME NEW k \in 1..((n + 1) - 1)
       PROVE  Split[values[k]][1] # Split[values[n + 1]][1]
  <2>1. k - 1 \in 0..(n - 1) /\ k - 1 \in 0..n /\ (k - 1) + 1 = k
    BY <1>4
  <2>2. PICK j \in DOMAIN lines : UserLine(lines, j, k - 1) /\ values[k] = lines[j].value
    BY <1>8, <2>1
  <2>3. Split[lines[j].value][1] # Split[lines[i].value][1]
    BY <1>3, <2>1, <2>2 DEF Good
  <2> QED BY <1>9, <2>2, <2>3
<1>11. Len(Split[values[n + 1]]) > 1
  BY <1>3, <1>9 DEF Good
<1>12. /\ Split[values[n + 1]][1] \in DOMAIN Tables(values)[Len(values)]
       /\ Tables(values)[Len(values)][Split[values[n + 1]][1]] = Split[values[n + 1]][2]
  BY <1>7, <1>9, <1>10, <1>11, TableHasUser
<1>13. UserTable(Parsed[c].settings) = Tables(values)[Len(values)]
  BY DEF UserTable, Parsed, values, settings
<1> QED BY <1>3, <1>9, <1>12, <1>13

\* A serving remote endpoint has the table of its settings.
HasTable == \A p \in Procs : pc[p] = "serve" /\ Server(p) => users[p] = UserTable(Config(p))

LEMMA TableStays ==
  ASSUME Types, DOMAIN users = Procs, HasTable, [Next]_vars
  PROVE  HasTable'
<1> SUFFICES ASSUME NEW q \in Procs, pc'[q] = "serve", Server(q)'
             PROVE  users'[q] = UserTable(Config(q)')
  BY DEF HasTable
<1>1. CASE pc[q] = "serve" /\ UNCHANGED <<cmd[q], users[q]>>
  <2>1. Config(q)' = Config(q)
    BY <1>1 DEF Config
  <2> QED BY <1>1, <2>1 DEF HasTable, Server
<1>2. ASSUME NEW p \in Procs, Next, Launch(p) \/ Setup(p) \/ Leave(p) \/ Interrupt(p)
                                      \/ Fault(p) \/ Kill(p)
      PROVE  \/ pc[q] = "serve" /\ UNCHANGED <<cmd[q], users[q]>>
             \/ p = q /\ BindLocal(p)
  <2>1. ASSUME q # p
        PROVE  pc'[q] = pc[q] /\ cmd'[q] = cmd[q] /\ users'[q] = users[q]
    <3>1. CASE Launch(p)
      BY <2>1, <3>1 DEF Launch, Goto, Types
    <3>2. CASE Setup(p)
      BY <2>1, <3>2 DEF Setup, InitTls, TestPidFile, CreatePidFile, BindTls, BindLocal,
                        Goto, Types
    <3>3. CASE Leave(p)
      BY <2>1, <3>3 DEF Leave, TestOwnFile, RemoveFile, Gone, Goto, Types
    <3>4. CASE Interrupt(p) \/ Fault(p) \/ Kill(p)
      BY <2>1, <3>4 DEF Interrupt, Fault, Kill, Gone, Goto, Types
    <3> QED BY <1>2, <3>1, <3>2, <3>3, <3>4
  <2>2. CASE q = p
    <3>1. CASE Launch(p)
      BY <2>2, <3>1 DEF Launch, Goto, Types
    <3>2. CASE InitTls(p) \/ TestPidFile(p) \/ CreatePidFile(p) \/ BindTls(p)
      BY <2>2, <3>2 DEF InitTls, TestPidFile, CreatePidFile, BindTls, Goto, Types
    <3>3. CASE Leave(p)
      BY <2>2, <3>3 DEF Leave, TestOwnFile, RemoveFile, Gone, Goto, Types
    <3>4. CASE Interrupt(p) \/ Fault(p) \/ Kill(p)
      BY <2>2, <3>4 DEF Interrupt, Fault, Kill, Gone, Goto, Types
    <3> QED BY <1>2, <2>2, <3>1, <3>2, <3>3, <3>4 DEF Setup
  <2> QED BY <2>1, <2>2
<1>3. CASE BindLocal(q)
  <2>1. pc' = [pc EXCEPT ![q] = "serve"] /\ UNCHANGED cmd /\ pc[q] = "local"
    BY <1>3 DEF BindLocal, Goto, Types
  <2>2. Config(q)' = Config(q)
    BY <2>1 DEF Config, Types
  <2>3. Server(q)
    BY <2>2 DEF Server
  <2>4. users' = [users EXCEPT ![q] = UserTable(Config(q))]
    BY <1>3, <2>1, <2>3 DEF BindLocal, Goto, Types
  <2> QED BY <2>2, <2>4
<1>4. CASE UNCHANGED vars
  BY <1>1, <1>4 DEF vars
<1> QED BY <1>1, <1>2, <1>3, <1>4 DEF Next

\* Every user whom a configuration file lists is asked for his password by the
\* remote endpoint that was started with it, for any files, options and passwords:
\* Conf::open(), Server::server() and socks5_initnmpwd().
THEOREM ListedUsersServed == Spec => []UsersAsListed
<1>1. Init => HasTable
  BY DEF Init, HasTable
<1>2. IInv /\ PInv /\ HasTable /\ [Next]_vars => HasTable'
  BY TableStays DEF IInv, PInv
<1>3. IInv /\ HasTable => UsersAsListed
  <2> SUFFICES ASSUME IInv, HasTable, NEW p \in Procs, pc[p] = "serve", Server(p),
                      NEW u \in PromisedBy[cmd[p]]
               PROVE  u[1] \in DOMAIN users[p] /\ users[p][u[1]] = u[2]
    BY DEF UsersAsListed
  <2>1. cmd[p] \in DOMAIN Commands /\ Config(p) = Parsed[cmd[p]].settings
    BY DEF IInv, Types, Config
  <2> QED BY <2>1, TableAsListed DEF HasTable
<1> QED BY <1>1, <1>2, <1>3, Inductive, PortsInductive, PTL DEF Spec
=============================================================================
