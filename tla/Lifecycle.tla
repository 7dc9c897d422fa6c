------------------------------ MODULE Lifecycle ------------------------------
(***************************************************************************)
(* The life of a connection object (SOCKS5, WebSrv or Client): accepted by *)
(* the event loop thread, served by a detached worker thread of its own,   *)
(* marked done by stop(), unlinked and deleted by the cleanup thread, or   *)
(* deleted by the event loop thread when SIGINT shuts the process down.    *)
(*                                                                         *)
(* Nothing in the program serialises these threads except the join of the  *)
(* cleanup thread at shutdown: the lists, the objects and Server::_running *)
(* are shared without a lock, and the notification of the condition        *)
(* variable is sent without its mutex.  One action is one statement        *)
(* wherever another thread can act between two statements.                 *)
(*                                                                         *)
(* A heap chunk (slot) is reused once freed, and a freed object keeps its  *)
(* fields until then: a thread that still holds the pointer of a deleted   *)
(* object reads and writes whatever the chunk holds now, or crashes.       *)
(***************************************************************************)
EXTENDS Integers

CONSTANTS
  IsSrv,      \* Server::_issrv: remote endpoint (TRUE) or local endpoint (FALSE)
  MaxConns,   \* bound on the connections accepted in one behaviour
  Slots,      \* heap chunks in which connection objects are allocated
  KindOf,     \* the class of object a chunk has the size of
  NoSlot,     \* a null pointer to a connection object
  StartClock, MaxClock,  \* bounds on time()
  STimeout    \* Server::_stimeout

Kinds == IF IsSrv THEN {"socks5", "websrv"} ELSE {"client"}

ASSUME IsSrvAssumption    == IsSrv \in BOOLEAN
ASSUME MaxConnsAssumption == MaxConns \in Nat \ {0}
ASSUME SlotsAssumption    == NoSlot \notin Slots /\ KindOf \in [Slots -> Kinds]
ASSUME ClockAssumption    == /\ StartClock \in Nat /\ MaxClock \in Nat
                             /\ StartClock <= MaxClock /\ STimeout \in Nat

Conns   == 1..MaxConns   \* accepted connections, numbered in accept order; also their workers
Loop    == -1            \* the event loop (main) thread
Cleanup == -2            \* the cleanup thread
Actors  == Conns \cup {Loop, Cleanup}
None    == 0             \* no owner, no descriptor, the head of a list
End     == MaxConns + 1  \* the end() of a list

VARIABLES
  running,   \* Server::_running
  born,      \* number of connections accepted so far
  chunk,     \* connection -> chunk its object was allocated in (the worker's `self')
  obj,       \* chunk -> the object's fields
  linked,    \* connections whose list node can be reached from the list head
  tailbad,   \* lists whose tail pointer is a node that cannot be reached
  lost,      \* connections whose node was dropped from its list by a race
  pc,        \* what each thread does next
  again,     \* workers that call stop() once more after the one inside init()
  walk,      \* list and nodes the cleanup thread or the shutdown loop stands at
  clock,     \* time()
  closed,    \* connections whose accepted descriptor has been closed
  hit,       \* history: connections whose flags or descriptor another one's worker wrote
  fault      \* how the process died, if it did

vars == <<running, born, chunk, obj, linked, tailbad, lost, pc, again, walk,
          clock, closed, hit, fault>>

Object == [own    : Conns \cup {None},   \* which connection lives in the chunk
           srun   : BOOLEAN,             \* SOCKS5::_running, Client::_running
           wrun   : BOOLEAN,             \* WebSrv::_running
           done   : BOOLEAN,
           web    : BOOLEAN,             \* SOCKS5::_iswebsrv
           srv    : BOOLEAN,             \* _server has been set
           ssl    : {"null", "open", "freed"},
           fd     : Conns \cup {None},   \* the accepted descriptor the object holds
           td     : {"null", "joinable", "detached", "freed"},
           latest : 0..MaxClock]

\* The list the cleanup thread scans first.
FirstList == IF IsSrv THEN "socks5" ELSE "client"

\* A traversal that is about to read the head of list k.
AtHead(k) == [list |-> k, cur |-> None, nxt |-> None]

\* The constructor: every field reset, nothing owned yet.
Fresh(i) == [own |-> i, srun |-> FALSE, wrun |-> FALSE, done |-> FALSE, web |-> FALSE,
             srv |-> FALSE, ssl |-> "null", fd |-> None, td |-> "null", latest |-> 0]

Init ==
  /\ running = TRUE
  /\ born = 0
  /\ chunk = [i \in Conns |-> NoSlot]
  /\ obj = [s \in Slots |-> Fresh(None)]
  /\ linked = {} /\ tailbad = {} /\ lost = {}
  /\ pc = [a \in Actors |-> IF a = Loop THEN "idle" ELSE IF a = Cleanup THEN "test" ELSE "unborn"]
  /\ again = {}
  /\ walk = [a \in {Loop, Cleanup} |-> AtHead(FirstList)]
  /\ clock = StartClock
  /\ closed = {} /\ hit = {}
  /\ fault = "none"

-----------------------------------------------------------------------------
(* Helpers.                                                                  *)
(* A definition whose name ends in "Wrong" is the definition after it with a *)
(* bug put in; no other definition uses it.  Each property is tried against  *)
(* one of them: it must notice the bug.                                      *)

Up == fault = "none" /\ pc[Loop] # "exit"   \* the process exists

Kind(i) == KindOf[chunk[i]]
ListOf(k) == {i \in linked : Kind(i) = k}

\* j is the node after i in list k.  Nodes are pushed in accept order, so a
\* list is always ordered by connection number.
IsNext(k, i, j) ==
  \/ j \in ListOf(k) /\ j > i /\ \A m \in ListOf(k) : m > i => m >= j
  \/ j = End /\ \A m \in ListOf(k) : m <= i

\* The object a thread is working on.
At(a) == IF a \in Conns THEN chunk[a] ELSE chunk[walk[a].cur]
This(a) == obj[At(a)]

\* _cv_cleanup.notify_one(): wakes the cleanup thread if it waits, else is lost.
Notify(f) == IF f[Cleanup] = "wait" THEN [f EXCEPT ![Cleanup] = "head"] ELSE f

Goto(a, label) == pc' = [pc EXCEPT ![a] = label]
Die(how) == /\ fault' = how
            /\ UNCHANGED <<running, born, chunk, obj, linked, tailbad, lost, pc, again, walk,
                           clock, closed, hit>>

\* The connection whose object worker a writes to although it is not its own.
Struck(a) == IF a \in Conns /\ This(a).own # a THEN {This(a).own} \ {None} ELSE {}

\* What only the event loop thread changes, and what only it and the cleanup thread change.
SameLoop == UNCHANGED <<running, born, chunk, clock>>
SameList == UNCHANGED <<linked, tailbad, lost, walk>>

-----------------------------------------------------------------------------
(* The event loop thread: accept, construct, start the worker, link. *)

\* accept(), new, and the worker thread created inside start().  The new
\* object's _running is false, so start() always creates the thread.
Accept(s) ==
  /\ pc[Loop] = "idle" /\ born < MaxConns /\ obj[s].own = None
  /\ born' = born + 1
  /\ chunk' = [chunk EXCEPT ![born + 1] = s]
  /\ obj' = [obj EXCEPT ![s] = Fresh(born + 1)]
  /\ pc' = [pc EXCEPT ![Loop] = "assign", ![born + 1] = "start"]
  /\ UNCHANGED <<running, linked, tailbad, lost, again, walk, clock, closed, hit, fault>>

\* The pointer returned by new thread(...) is stored in the object.
Assign ==
  /\ pc[Loop] = "assign"
  /\ obj' = [obj EXCEPT ![chunk[born]].td = "joinable"]
  /\ Goto(Loop, "detach")
  /\ SameLoop /\ SameList /\ UNCHANGED <<again, closed, hit, fault>>

\* _td->detach(), on whatever _td is by now.
Detach ==
  /\ pc[Loop] = "detach"
  /\ IF obj[chunk[born]].td = "joinable"
     THEN /\ obj' = [obj EXCEPT ![chunk[born]].td = "detached"]
          /\ Goto(Loop, "push")
          /\ SameLoop /\ SameList /\ UNCHANGED <<again, closed, hit, fault>>
     ELSE Die("segv")

\* The cleanup thread is inside the removal of the last node of list k: both
\* threads are writing the list's tail.
Racing(k) ==
  /\ pc[Cleanup] = "unlink" /\ Kind(walk[Cleanup].cur) = k
  /\ \A m \in ListOf(k) : m <= walk[Cleanup].cur

\* push_back() when the list's tail can be reached.
PushLinked ==
  /\ pc[Loop] = "push" /\ Kind(born) \notin tailbad
  /\ linked' = linked \cup {born}
  /\ Goto(Loop, "idle")
  /\ SameLoop /\ UNCHANGED <<obj, tailbad, lost, walk, again, closed, hit, fault>>

\* push_back() behind an unreachable tail, or overwritten by a racing removal:
\* no traversal from the head will ever see the node.
PushLost ==
  /\ pc[Loop] = "push" /\ (Kind(born) \in tailbad \/ Racing(Kind(born)))
  /\ lost' = lost \cup {born}
  /\ Goto(Loop, "idle")
  /\ SameLoop /\ UNCHANGED <<obj, linked, tailbad, walk, again, closed, hit, fault>>

-----------------------------------------------------------------------------
(* Traversal of the lists, by remove_if and by the shutdown loop. *)

\* The bug: the second list is forgotten.
HasNextListWrong(k) == FALSE

\* The list scanned after this one, when there is one.
HasNextList(k) == k = "socks5"

\* Thread a moves to node j of its list, or past its end.  `finished' is where
\* the thread goes when no list is left.
StepTo(a, j, finished) ==
  \/ /\ j # End
     /\ walk' = [walk EXCEPT ![a] = [@ EXCEPT !.cur = j, !.nxt = None]]
     /\ Goto(a, "visit")
  \/ /\ j = End /\ HasNextList(walk[a].list)
     /\ walk' = [walk EXCEPT ![a] = AtHead("websrv")]
     /\ Goto(a, "head")
  \/ /\ j = End /\ ~HasNextList(walk[a].list)
     /\ walk' = [walk EXCEPT ![a] = AtHead(FirstList)]
     /\ Goto(a, finished)

\* Where a thread goes when its traversal is over.
Finished(a) == IF a = Cleanup THEN "test" ELSE "clear"

Head(a) ==
  /\ pc[a] = "head"
  /\ \E j \in Conns \cup {End} :
       IsNext(walk[a].list, None, j) /\ StepTo(a, j, Finished(a))
  /\ SameLoop /\ UNCHANGED <<obj, linked, tailbad, lost, again, closed, hit, fault>>

\* The two orders in which unlink and push_back of the list's end can meet that
\* leave the tail pointing at a node behind the removed one.
PushUnlinkRace ==
  /\ pc[Loop] = "push" /\ Racing(Kind(born))
  /\ linked' = linked \ {walk[Cleanup].cur}
  /\ lost' = lost \cup {born}
  /\ tailbad' = tailbad \cup {Kind(born)}
  /\ \/ /\ HasNextList(walk[Cleanup].list)
        /\ walk' = [walk EXCEPT ![Cleanup] = AtHead("websrv")]
        /\ pc' = [pc EXCEPT ![Loop] = "idle", ![Cleanup] = "head"]
     \/ /\ ~HasNextList(walk[Cleanup].list)
        /\ walk' = [walk EXCEPT ![Cleanup] = AtHead(FirstList)]
        /\ pc' = [pc EXCEPT ![Loop] = "idle", ![Cleanup] = "test"]
  /\ SameLoop /\ UNCHANGED <<obj, again, closed, hit, fault>>

\* The link is written into the node that is being freed.
PushCrash == pc[Loop] = "push" /\ Racing(Kind(born)) /\ Die("segv")

-----------------------------------------------------------------------------
(* The cleanup thread *)

TestRunning ==
  /\ pc[Cleanup] = "test"
  /\ Goto(Cleanup, IF running THEN "lock" ELSE "ended")
  /\ SameLoop /\ SameList /\ UNCHANGED <<obj, again, closed, hit, fault>>

\* _mutex_cleanup is taken by this thread only, so the lock is always free; it
\* is released while the thread waits.
WaitFor ==
  /\ pc[Cleanup] = "lock"
  /\ Goto(Cleanup, "wait")
  /\ SameLoop /\ SameList /\ UNCHANGED <<obj, again, closed, hit, fault>>

\* The bug: wait() in the place of wait_for(): there is no timeout.
WaitTimeoutWrong == FALSE

\* wait_for returns without a notification after _stimeout seconds.
WaitTimeout ==
  /\ pc[Cleanup] = "wait"
  /\ Goto(Cleanup, "head")
  /\ SameLoop /\ SameList /\ UNCHANGED <<obj, again, closed, hit, fault>>

\* The bug: the idle test taken for what it looks like, now - _latest.
ReapableWrong(o) == o.done \/ clock - o.latest > STimeout

\* The predicate of remove_if: the subtraction is the source's, _latest - now.
Reapable(o) == o.done \/ o.latest - clock > STimeout

\* remove_if reads the node's successor, then calls the predicate, which
\* deletes the object when it is reapable.
Visit ==
  /\ pc[Cleanup] = "visit"
  /\ \E j \in Conns \cup {End} :
       /\ IsNext(walk[Cleanup].list, walk[Cleanup].cur, j)
       /\ \/ /\ Reapable(This(Cleanup))
             /\ walk' = [walk EXCEPT ![Cleanup].nxt = j]
             /\ Goto(Cleanup, "delete")
          \/ /\ ~Reapable(This(Cleanup))
             /\ StepTo(Cleanup, j, Finished(Cleanup))
  /\ SameLoop /\ UNCHANGED <<obj, linked, tailbad, lost, again, closed, hit, fault>>

\* The bug: the predicate deletes the object and answers false: its node stays.
UnlinkWrong ==
  /\ pc[Cleanup] = "unlink"
  /\ StepTo(Cleanup, walk[Cleanup].nxt, Finished(Cleanup))
  /\ SameLoop /\ UNCHANGED <<obj, linked, tailbad, lost, again, closed, hit, fault>>

\* The node leaves the list; removing the last node repairs the tail.
Unlink ==
  /\ pc[Cleanup] = "unlink"
  /\ linked' = linked \ {walk[Cleanup].cur}
  /\ tailbad' = IF Racing(Kind(walk[Cleanup].cur)) THEN tailbad \ {Kind(walk[Cleanup].cur)}
                ELSE tailbad
  /\ StepTo(Cleanup, walk[Cleanup].nxt, Finished(Cleanup))
  /\ SameLoop /\ UNCHANGED <<obj, lost, again, closed, hit, fault>>

-----------------------------------------------------------------------------
(* SOCKS5::stop() and Client::stop(), by the object's worker or, from the    *)
(* destructor, by the thread that deletes the object.                        *)

\* Where stop() returns to: a worker whose init() failed calls it once more, a
\* destructor goes on to close the connection.
TunReturn(a, f) ==
  IF a \notin Conns THEN [f EXCEPT ![a] = "close"]
  ELSE IF a \in again THEN [f EXCEPT ![a] = "t_test"]
  ELSE [f EXCEPT ![a] = "ended"]

\* if (_running && ! _iswebsrv) _done = true;
TunTest(a) ==
  /\ pc[a] = "t_test"
  /\ \/ /\ This(a).srun /\ ~This(a).web
        /\ obj' = [obj EXCEPT ![At(a)].done = TRUE]
        /\ hit' = hit \cup Struck(a)
        /\ Goto(a, "t_run")
        /\ UNCHANGED again
     \/ /\ ~(This(a).srun /\ ~This(a).web)
        /\ pc' = TunReturn(a, pc)
        /\ again' = again \ {a}
        /\ UNCHANGED <<obj, hit>>
  /\ SameLoop /\ SameList /\ UNCHANGED <<closed, fault>>

\* _running = false;
TunRun(a) ==
  /\ pc[a] = "t_run"
  /\ obj' = [obj EXCEPT ![At(a)].srun = FALSE]
  /\ hit' = hit \cup Struck(a)
  /\ Goto(a, "t_notify")
  /\ SameLoop /\ SameList /\ UNCHANGED <<again, closed, fault>>

TunNotify(a) ==
  /\ pc[a] = "t_notify"
  /\ LET f == [pc EXCEPT ![a] = "t_td"] IN pc' = IF This(a).srv THEN Notify(f) ELSE f
  /\ SameLoop /\ SameList /\ UNCHANGED <<obj, again, closed, hit, fault>>

\* if (_td != nullptr) delete _td;  A thread object must be detached when it is
\* destroyed, and must not be destroyed twice.
DeleteThread(a, here, next, back) ==
  /\ pc[a] = here
  /\ \/ /\ This(a).td = "detached"
        /\ obj' = [obj EXCEPT ![At(a)].td = "freed"]
        /\ Goto(a, next)
        /\ SameLoop /\ SameList /\ UNCHANGED <<again, closed, hit, fault>>
     \/ /\ This(a).td = "null"
        /\ pc' = back
        /\ again' = again \ {a}
        /\ SameLoop /\ SameList /\ UNCHANGED <<obj, closed, hit, fault>>
     \/ This(a).td = "joinable" /\ Die("terminate")
     \/ This(a).td = "freed" /\ Die("doublefree")

TunThread(a) == DeleteThread(a, "t_td", "t_null", TunReturn(a, pc))

\* The bug: the pointer to the deleted thread object is kept.
TunNullWrong(a) ==
  /\ pc[a] = "t_null"
  /\ pc' = TunReturn(a, pc)
  /\ again' = again \ {a}
  /\ SameLoop /\ SameList /\ UNCHANGED <<obj, closed, hit, fault>>

\* _td = nullptr;
TunNull(a) ==
  /\ pc[a] = "t_null"
  /\ obj' = [obj EXCEPT ![At(a)].td = "null"]
  /\ pc' = TunReturn(a, pc)
  /\ again' = again \ {a}
  /\ SameLoop /\ SameList /\ UNCHANGED <<closed, hit, fault>>

-----------------------------------------------------------------------------
(* WebSrv::stop(), for a WebSrv object and for a SOCKS5 object that serves   *)
(* HTTP.  In the second case _td_web is null: the thread is _td_socks5.      *)

\* The bug: a worker that has stopped goes on to delete its object.
WebReturnWrong(a, f) == [f EXCEPT ![a] = "free"]

WebReturn(a, f) == [f EXCEPT ![a] = IF a \in Conns THEN "ended" ELSE "free"]

\* WebSrv::_server and WebSrv::_ssl are set by WebSrv::init().
WebServer(a) == IF KindOf[At(a)] = "socks5" THEN This(a).web ELSE This(a).srv

WebTest(a) ==
  /\ pc[a] = "w_test"
  /\ \/ /\ This(a).wrun
        /\ obj' = [obj EXCEPT ![At(a)].done = TRUE]
        /\ hit' = hit \cup Struck(a)
        /\ Goto(a, "w_run")
     \/ /\ ~This(a).wrun
        /\ pc' = WebReturn(a, pc)
        /\ UNCHANGED <<obj, hit>>
  /\ SameLoop /\ SameList /\ UNCHANGED <<again, closed, fault>>

WebRun(a) ==
  /\ pc[a] = "w_run"
  /\ obj' = [obj EXCEPT ![At(a)].wrun = FALSE]
  /\ hit' = hit \cup Struck(a)
  /\ Goto(a, IF WebServer(a) THEN "w_ssl" ELSE "w_td")
  /\ SameLoop /\ SameList /\ UNCHANGED <<again, closed, fault>>

\* if (_ssl != nullptr) { close(_ssl); ...
WebSsl(a) ==
  /\ pc[a] = "w_ssl"
  /\ \/ /\ This(a).ssl = "open"
        /\ obj' = [obj EXCEPT ![At(a)].ssl = "freed"]
        /\ Goto(a, "w_sslnull")
        /\ SameLoop /\ SameList /\ UNCHANGED <<again, closed, hit, fault>>
     \/ /\ This(a).ssl = "null"
        /\ Goto(a, "w_fd")
        /\ SameLoop /\ SameList /\ UNCHANGED <<obj, again, closed, hit, fault>>
     \/ This(a).ssl = "freed" /\ Die("doublefree")

\* ... _ssl = nullptr; }
WebSslNull(a) ==
  /\ pc[a] = "w_sslnull"
  /\ obj' = [obj EXCEPT ![At(a)].ssl = "null"]
  /\ Goto(a, "w_fd")
  /\ SameLoop /\ SameList /\ UNCHANGED <<again, closed, hit, fault>>

\* if (_fd_cli > 0) { close(_fd_cli); _fd_cli = -1; }
WebFd(a) ==
  /\ pc[a] = "w_fd"
  /\ closed' = closed \cup ({This(a).fd} \ {None})
  /\ obj' = [obj EXCEPT ![At(a)].fd = None]
  /\ hit' = hit \cup Struck(a)
  /\ Goto(a, "w_notify")
  /\ SameLoop /\ SameList /\ UNCHANGED <<again, fault>>

WebNotify(a) ==
  /\ pc[a] = "w_notify"
  /\ pc' = Notify([pc EXCEPT ![a] = "w_td"])
  /\ SameLoop /\ SameList /\ UNCHANGED <<obj, again, closed, hit, fault>>

WebThread(a) ==
  /\ pc[a] = "w_td"
  /\ \/ /\ KindOf[At(a)] = "websrv"
        /\ DeleteThread(a, "w_td", "w_null", WebReturn(a, pc))
     \/ /\ KindOf[At(a)] # "websrv"
        /\ pc' = WebReturn(a, pc)
        /\ SameLoop /\ SameList /\ UNCHANGED <<obj, again, closed, hit, fault>>

WebNull(a) ==
  /\ pc[a] = "w_null"
  /\ obj' = [obj EXCEPT ![At(a)].td = "null"]
  /\ pc' = WebReturn(a, pc)
  /\ SameLoop /\ SameList /\ UNCHANGED <<again, closed, hit, fault>>

StopStep(a) ==
  \/ TunTest(a) \/ TunRun(a) \/ TunNotify(a) \/ TunThread(a) \/ TunNull(a)
  \/ WebTest(a) \/ WebRun(a) \/ WebSsl(a) \/ WebSslNull(a) \/ WebFd(a)
  \/ WebNotify(a) \/ WebThread(a) \/ WebNull(a)

-----------------------------------------------------------------------------
(* The destructors, run by the cleanup thread or by the shutdown loop *)

\* ~WebSrv is its stop(); ~SOCKS5 skips its own part when it serves HTTP.
Delete(a) ==
  /\ pc[a] = "delete"
  /\ Goto(a, IF KindOf[At(a)] = "websrv" \/ This(a).web THEN "w_test" ELSE "t_test")
  /\ SameLoop /\ SameList /\ UNCHANGED <<obj, again, closed, hit, fault>>

\* The bug: the destructor closes the TLS session, but not the descriptor.
CloseWrong(a) ==
  /\ pc[a] = "close"
  /\ obj' = [obj EXCEPT ![At(a)].ssl = IF This(a).srv THEN "null" ELSE @]
  /\ Goto(a, IF KindOf[At(a)] = "client" THEN "free" ELSE "w_test")
  /\ SameLoop /\ SameList /\ UNCHANGED <<again, closed, hit, fault>>

\* ~SOCKS5 and ~Client close the TLS session and the accepted descriptor after
\* stop(); ~SOCKS5 then runs its base class's destructor.  A thread for which
\* SSL_shutdown() does not return never takes this step: see InShutdown.
Close(a) ==
  /\ pc[a] = "close"
  /\ closed' = closed \cup ({This(a).fd} \ {None})
  /\ obj' = [obj EXCEPT ![At(a)].ssl = IF This(a).srv THEN "null" ELSE @]
  /\ Goto(a, IF KindOf[At(a)] = "client" THEN "free" ELSE "w_test")
  /\ SameLoop /\ SameList /\ UNCHANGED <<again, hit, fault>>

\* operator delete: the chunk can be allocated again, its contents stay.
Free(a) ==
  /\ pc[a] = "free"
  /\ obj' = [obj EXCEPT ![At(a)].own = None]
  /\ Goto(a, IF a = Cleanup THEN "unlink" ELSE "next")
  /\ SameLoop /\ SameList /\ UNCHANGED <<again, closed, hit, fault>>

DestroyStep(a) == Delete(a) \/ StopStep(a) \/ Close(a) \/ Free(a)

-----------------------------------------------------------------------------
(* The worker thread of connection i *)

\* The prologue of init().  WebSrv::init() cannot fail; the others go on to the
\* TLS handshake.
WorkerInit(i) ==
  /\ pc[i] = "start"
  /\ \/ /\ KindOf[chunk[i]] = "websrv"
        /\ obj' = [obj EXCEPT ![chunk[i]].wrun = TRUE, ![chunk[i]].srv = TRUE,
                              ![chunk[i]].fd = i]
        /\ Goto(i, "serve")
     \/ /\ KindOf[chunk[i]] # "websrv"
        /\ obj' = [obj EXCEPT ![chunk[i]].srun = TRUE, ![chunk[i]].srv = TRUE,
                              ![chunk[i]].fd = i]
        /\ Goto(i, "handshake")
  /\ SameLoop /\ SameList /\ UNCHANGED <<again, closed, hit, fault>>

\* soc_accept() / loc_accept() returned true.
HandshakeTunnel(i) ==
  /\ pc[i] = "handshake"
  /\ obj' = [obj EXCEPT ![chunk[i]].ssl = "open"]
  /\ Goto(i, "serve")
  /\ SameLoop /\ SameList /\ UNCHANGED <<again, closed, hit, fault>>

\* soc_accept() returned false: WebSrv::init(), _iswebsrv = true.
HandshakeWeb(i) ==
  /\ pc[i] = "handshake" /\ Kind(i) = "socks5"
  /\ obj' = [obj EXCEPT ![chunk[i]].wrun = TRUE, ![chunk[i]].web = TRUE,
                        ![chunk[i]].ssl = "open", ![chunk[i]].fd = i]
  /\ Goto(i, "serve")
  /\ SameLoop /\ SameList /\ UNCHANGED <<again, closed, hit, fault>>

\* No TLS session, no answer in time, or refused: init() calls stop() and returns
\* false, upon which the thread function calls stop() once more.
HandshakeFail(i) ==
  /\ pc[i] = "handshake"
  /\ again' = again \cup {i}
  /\ Goto(i, "t_test")
  /\ SameLoop /\ SameList /\ UNCHANGED <<obj, closed, hit, fault>>

\* transfer() moved data or answered a request.
Serve(i) ==
  /\ pc[i] = "serve" /\ This(i).latest # clock
  /\ obj' = [obj EXCEPT ![chunk[i]].latest = clock]
  /\ SameLoop /\ SameList /\ UNCHANGED <<pc, again, closed, hit, fault>>

\* transfer() leaves its loop and calls the stop() of the class it belongs to.
ServeEnd(i) ==
  /\ pc[i] = "serve"
  /\ Goto(i, IF Kind(i) = "websrv" \/ This(i).web THEN "w_test" ELSE "t_test")
  /\ SameLoop /\ SameList /\ UNCHANGED <<obj, again, closed, hit, fault>>

\* The chunk under the worker's pointer has been freed: any access may crash.
UseAfterFree(i) == pc[i] \notin {"unborn", "ended"} /\ This(i).own = None /\ Die("segv")

Worker(i) ==
  \/ WorkerInit(i) \/ HandshakeTunnel(i) \/ HandshakeWeb(i) \/ HandshakeFail(i)
  \/ Serve(i) \/ ServeEnd(i) \/ UseAfterFree(i)

-----------------------------------------------------------------------------
(* SIGINT: stop() on the event loop thread, then exit() *)

\* The bug: _running stays true.
SignalWrong ==
  /\ pc[Loop] = "idle"
  /\ Goto(Loop, "notify")
  /\ SameLoop /\ SameList /\ UNCHANGED <<obj, again, closed, hit, fault>>

\* stop_server(), stop_client(): the watchers and the loop are gone.
Signal ==
  /\ pc[Loop] = "idle"
  /\ running' = FALSE
  /\ Goto(Loop, "notify")
  /\ SameList /\ UNCHANGED <<born, chunk, clock, obj, again, closed, hit, fault>>

SignalNotify ==
  /\ pc[Loop] = "notify"
  /\ pc' = Notify([pc EXCEPT ![Loop] = "join"])
  /\ SameLoop /\ SameList /\ UNCHANGED <<obj, again, closed, hit, fault>>

\* The bug: the cleanup thread is not joined.
JoinWrong ==
  /\ pc[Loop] = "join"
  /\ Goto(Loop, "head")
  /\ SameLoop /\ SameList /\ UNCHANGED <<obj, again, closed, hit, fault>>

Join ==
  /\ pc[Loop] = "join" /\ pc[Cleanup] = "ended"
  /\ Goto(Loop, "head")
  /\ SameLoop /\ SameList /\ UNCHANGED <<obj, again, closed, hit, fault>>

\* for (auto& it : _lst) delete it;
ShutdownVisit ==
  /\ pc[Loop] = "visit"
  /\ Goto(Loop, "delete")
  /\ SameLoop /\ SameList /\ UNCHANGED <<obj, again, closed, hit, fault>>

ShutdownNext ==
  /\ pc[Loop] = "next"
  /\ \E j \in Conns \cup {End} :
       IsNext(walk[Loop].list, walk[Loop].cur, j) /\ StepTo(Loop, j, Finished(Loop))
  /\ SameLoop /\ UNCHANGED <<obj, linked, tailbad, lost, again, closed, hit, fault>>

Clear ==
  /\ pc[Loop] = "clear"
  /\ linked' = {}
  /\ Goto(Loop, "exit")
  /\ SameLoop /\ UNCHANGED <<obj, tailbad, lost, walk, again, closed, hit, fault>>

-----------------------------------------------------------------------------
Tick ==
  /\ clock < MaxClock
  /\ clock' = clock + 1
  /\ UNCHANGED <<running, born, chunk, obj, linked, tailbad, lost, pc, again, walk, closed,
                 hit, fault>>

LoopStep ==
  \/ Assign \/ Detach \/ PushLinked \/ PushLost \/ PushUnlinkRace \/ PushCrash
  \/ SignalNotify \/ Join \/ Head(Loop) \/ ShutdownVisit \/ ShutdownNext \/ Clear
  \/ DestroyStep(Loop)

CleanupStep ==
  \/ TestRunning \/ WaitFor \/ WaitTimeout \/ Head(Cleanup) \/ Visit \/ Unlink
  \/ DestroyStep(Cleanup)

\* The process has exited or died.
Terminated == ~Up /\ UNCHANGED vars

Next ==
  \/ /\ Up
     /\ \/ \E s \in Slots : Accept(s)
        \/ Signal
        \/ LoopStep
        \/ CleanupStep
        \/ \E i \in Conns : Worker(i)
        \/ \E i \in Conns : StopStep(i)
        \/ Tick
  \/ Terminated

Spec == Init /\ [][Next]_vars

\* Thread a stands before TLS::close() of an open session.  SSL_shutdown() writes to
\* a blocking socket that has no timeout: it returns when the socket takes the
\* write or the peer goes, which may be never.
InShutdown(a) ==
  /\ pc[a] \in {"close", "w_ssl"} /\ This(a).ssl = "open"
  /\ pc[a] = "close" => This(a).srv

\* Threads that are not blocked keep running: the event loop thread inside a
\* callback, the cleanup thread (its wait is timed), a worker inside stop().
\* Nobody has to connect, send, close or press Ctrl-C, and no SSL_shutdown() has
\* to return.
Fairness ==
  /\ WF_vars(Up /\ ~InShutdown(Loop) /\ LoopStep)
  /\ WF_vars(Up /\ ~InShutdown(Cleanup) /\ CleanupStep)
  /\ \A i \in Conns : WF_vars(Up /\ ~InShutdown(i) /\ StopStep(i))

FairSpec == Spec /\ Fairness
-----------------------------------------------------------------------------
(* Properties *)

TunStop == {"t_test", "t_run", "t_notify", "t_td", "t_null"}
WebStop == {"w_test", "w_run", "w_ssl", "w_sslnull", "w_fd", "w_notify", "w_td", "w_null"}
DestroyPC == TunStop \cup WebStop \cup {"delete", "close", "free"}

WorkerPC  == TunStop \cup WebStop \cup {"unborn", "start", "handshake", "serve", "ended"}
CleanupPC == DestroyPC \cup {"test", "lock", "wait", "head", "visit", "unlink", "ended"}
LoopPC    == DestroyPC \cup {"idle", "assign", "detach", "push", "notify", "join", "head",
                             "visit", "next", "clear", "exit"}

\* The control points of each thread.
PCOf(a) == IF a = Loop THEN LoopPC ELSE IF a = Cleanup THEN CleanupPC ELSE WorkerPC
PcOK(f) == /\ f \in [Actors -> WorkerPC \cup CleanupPC \cup LoopPC]
           /\ \A a \in Actors : f[a] \in PCOf(a)

\* Every variable keeps its type: object fields, list contents, thread positions.
TypeOK ==
  /\ running \in BOOLEAN
  /\ born \in 0..MaxConns
  /\ chunk \in [Conns -> Slots \cup {NoSlot}]
  /\ obj \in [Slots -> Object]
  /\ linked \subseteq Conns /\ lost \subseteq Conns /\ again \subseteq Conns
  /\ closed \subseteq Conns /\ hit \subseteq Conns
  /\ tailbad \subseteq Kinds
  /\ PcOK(pc)
  /\ walk \in [{Loop, Cleanup} -> [list : Kinds, cur : Conns \cup {None},
                                   nxt : Conns \cup {None, End}]]
  /\ clock \in StartClock..MaxClock
  /\ fault \in {"none", "segv", "terminate", "doublefree"}

\* Whenever the cleanup thread's remove_if or the delete loops of stop_server()
\* and stop_client() look at an object through a list node, the object is the
\* live one the node was pushed for: no list node is ever followed to a freed
\* or reused chunk, and no object is deleted twice through the lists.
TraversalSeesLiveObjects ==
  \A a \in {Loop, Cleanup} :
    pc[a] \in {"visit"} \cup DestroyPC =>
      walk[a].cur \in Conns /\ obj[At(a)].own = walk[a].cur

\* Until SIGINT, the object a worker serves on is its own and its descriptor is
\* open, unless the late stop() of another connection's worker, whose chunk was
\* reused, has struck it: neither the sweep nor the timeout takes a live session.
ServingOwnsObject ==
  \A i \in Conns \ hit :
    running /\ pc[i] \in {"start", "handshake", "serve"} =>
      obj[chunk[i]].own = i /\ i \notin closed

\* Until SIGINT, a tunnel's object is not freed before the accepted descriptor it
\* holds has been closed (nobody else would close it), unless the late stop() of
\* another connection's worker has struck the connection of that descriptor: its own
\* worker may then start late and store the descriptor in a chunk already freed.
TunnelDescriptorClosed ==
  running => \A s \in Slots :
    obj[s].own = None /\ obj[s].fd # None /\ ~obj[s].web /\ KindOf[s] # "websrv" =>
      obj[s].fd \in closed \cup hit

\* A double free of a thread object or a TLS session takes two threads inside
\* stop() on one chunk: stop() repeated by one thread is harmless.
DoubleFreeTakesTwo ==
  fault = "doublefree" =>
    \E a, b \in Actors :
      /\ a # b
      /\ \A x \in {a, b} : pc[x] \in TunStop \cup WebStop
      /\ At(a) = At(b)

\* When the process exits, the only objects not deleted are those whose list
\* node a push_back() racing the cleanup thread has lost.
ExitLeaksOnlyLost ==
  pc[Loop] = "exit" => \A s \in Slots : obj[s].own # None => obj[s].own \in lost

\* The worker of linked connection i has left its session.
Over(i) == i \in linked /\ pc[i] \in TunStop \cup WebStop \cup {"ended"}

\* A thread that deletes objects is held for ever in SSL_shutdown().
HeldUp == []InShutdown(Cleanup) \/ []InShutdown(Loop)

\* A linked connection whose session is over leaves its list, even when the
\* notification of its stop() came while nobody waited: the wait is timed.  There
\* are two exceptions.  The thread that would delete it may be held in
\* SSL_shutdown(), of this connection or of another.  And an object whose _running
\* another connection's late stop() has cleared never sets _done.
EndedIsReaped ==
  \A i \in Conns : Over(i) ~> (i \notin linked \/ i \in hit \/ ~Up \/ HeldUp)

\* SIGINT ends the process: the cleanup thread sees _running false and is joined,
\* whatever it was doing when the notification was sent.  Only an SSL_shutdown()
\* that never returns keeps the process: on the cleanup thread, which is waited
\* for, or on the event loop thread, which deletes what is left.
SignalEndsProcess == pc[Loop] = "notify" ~> (~Up \/ HeldUp)

-----------------------------------------------------------------------------
(* The inductive invariant behind TraversalSeesLiveObjects and              *)
(* ServingOwnsObject (theorems in LifecycleProofs)                          *)

Alive(i)   == obj[chunk[i]].own = i
Born       == {i \in Conns : i <= born}
AcceptPC   == {"assign", "detach", "push"}
ShutdownPC == DestroyPC \cup {"head", "visit", "next"}
SessionPC  == {"start", "handshake", "serve"}

\* A connection has a chunk once accepted; a chunk's owner and the descriptor
\* stored in it belong to connections allocated there.
Allocation ==
  /\ \A i \in Conns : i \in Born <=> chunk[i] \in Slots
  /\ \A i \in Conns \ Born : pc[i] = "unborn"
  /\ linked \subseteq Born /\ closed \subseteq Born
  /\ \A s \in Slots : /\ obj[s].own # None => chunk[obj[s].own] = s
                      /\ obj[s].fd # None => chunk[obj[s].fd] = s
                      /\ obj[s].latest <= clock
  /\ pc[Loop] \in AcceptPC => born \in Conns /\ born \notin linked /\ Alive(born)

\* Who may be where: the loop accepts while running, the join separates the
\* cleanup thread's deletions from the shutdown loop's.
Phases ==
  /\ running <=> pc[Loop] \in {"idle"} \cup AcceptPC
  /\ pc[Loop] \in ShutdownPC \cup {"clear", "exit"} => pc[Cleanup] = "ended"

\* The shutdown loop has deleted the object of node i.
Swept(i) ==
  \/ pc[Loop] \in {"clear", "exit"}
  \/ /\ pc[Loop] \in ShutdownPC
     /\ \/ HasNextList(Kind(i)) /\ ~HasNextList(walk[Loop].list)
        \/ Kind(i) = walk[Loop].list /\ i < walk[Loop].cur
        \/ i = walk[Loop].cur /\ pc[Loop] = "next"

\* Every node leads to its live object, but for the node the cleanup thread is
\* taking out and those the shutdown loop is past.
LinkedAlive ==
  \A i \in linked : \/ Alive(i)
                    \/ pc[Cleanup] = "unlink" /\ walk[Cleanup].cur = i
                    \/ Swept(i)

\* A traversal stands on a linked node of its list, whose object is live until freed.
Traversal ==
  \A a \in {Loop, Cleanup} :
    /\ pc[a] \in {"visit", "unlink", "next"} \cup DestroyPC =>
         walk[a].cur \in linked /\ Kind(walk[a].cur) = walk[a].list
    /\ pc[a] \in {"visit"} \cup DestroyPC => Alive(walk[a].cur)
    /\ pc[a] \notin {"visit", "unlink", "next"} \cup DestroyPC => walk[a].cur = None

\* The node remembered by remove_if is still linked when it is needed.
Successor ==
  pc[Cleanup] \in {"unlink"} \cup DestroyPC =>
    \/ walk[Cleanup].nxt = End
    \/ /\ walk[Cleanup].nxt \in linked /\ walk[Cleanup].nxt > walk[Cleanup].cur
       /\ Kind(walk[Cleanup].nxt) = walk[Cleanup].list

\* An unstruck session's object is live, open and not done; what the cleanup
\* thread deletes is done.
Sessions ==
  running =>
    /\ \A i \in Conns \ hit :
         pc[i] \in SessionPC =>
           Alive(i) /\ ~obj[chunk[i]].done /\ i \notin closed
    /\ pc[Cleanup] \in DestroyPC => This(Cleanup).done

IInv == /\ TypeOK /\ Allocation /\ Phases /\ LinkedAlive /\ Traversal /\ Successor /\ Sessions

-----------------------------------------------------------------------------
(* What TunnelDescriptorClosed, DoubleFreeTakesTwo and ExitLeaksOnlyLost need *)
(* besides IInv                                                               *)

\* The descriptor in chunk s, if the chunk holds a tunnel's, is closed.
Settled(s) ==
  obj[s].fd # None /\ ~obj[s].web /\ KindOf[s] # "websrv" => obj[s].fd \in closed \cup hit

\* A freed chunk is settled, and so is the one whose destructor is past close().
DescriptorsClosed ==
  running =>
    /\ \A s \in Slots : obj[s].own = None => Settled(s)
    /\ pc[Cleanup] \in WebStop \cup {"free"} => Settled(At(Cleanup))

\* A deleted thread object or TLS session is still referred to only while the
\* thread that deleted it has not cleared the pointer.
FreedInStop ==
  \A s \in Slots :
    /\ obj[s].td = "freed" => \E b \in Actors : pc[b] \in {"t_null", "w_null"} /\ At(b) = s
    /\ obj[s].ssl = "freed" => \E b \in Actors : pc[b] = "w_sslnull" /\ At(b) = s

\* A thread is joinable only in the object being accepted, before its detach().
JoinableInAccept ==
  \A s \in Slots : obj[s].td = "joinable" => pc[Loop] = "detach" /\ s = chunk[born]

\* So it is a worker that has overtaken its own start(), or one whose chunk was reused
\* for that object, that deletes a joinable thread.  (SOCKS5::start(), stop())
TerminateBeforeDetach ==
  fault = "terminate" =>
    pc[Loop] = "detach" /\ \E i \in Conns : pc[i] \in {"t_td", "w_td"} /\ chunk[i] = chunk[born]

\* A live object that is neither lost nor being accepted is linked, and the shutdown
\* loop is not past it.
NoneForgotten ==
  /\ \A s \in Slots : obj[s].own # None =>
       \/ obj[s].own \in lost
       \/ pc[Loop] \in AcceptPC /\ obj[s].own = born
       \/ obj[s].own \in linked
  /\ \A i \in linked : Swept(i) => ~Alive(i)
  /\ pc[Cleanup] = "unlink" => ~Alive(walk[Cleanup].cur)
  /\ pc[Loop] \notin ShutdownPC \cup {"clear", "exit"} => walk[Loop].list = FirstList
=============================================================================
