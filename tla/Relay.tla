-------------------------------- MODULE Relay --------------------------------
(***************************************************************************)
(* The relaying of a tunnel: an application, the local endpoint's worker   *)
(* in Client::transfer(), the remote endpoint's worker in                  *)
(* SOCKS5::stage_conn(), and the target.                                   *)
(*                                                                         *)
(* Both workers run the same loop: select() on two descriptors, one read   *)
(* from the descriptor that is tested first if it is ready, from the other *)
(* one if not, then a blocking write of what was read.  A chunk is what    *)
(* one read returns.  A socket holds Cap chunks per direction.             *)
(***************************************************************************)
EXTENDS Naturals, Sequences

CONSTANTS
  Cap,      \* how many chunks a connection holds in one direction
  MaxSent   \* bound on the chunks an application or target sends

ASSUME BoundsAssumption == Cap \in Nat \ {0} /\ MaxSent \in Nat

Workers == {"client", "server"}
Ends    == {"app", "target"}
Nodes   == Workers \cup Ends

\* The descriptor a worker tests first, and the other one.
First(w)  == IF w = "client" THEN "server" ELSE "target"
Second(w) == IF w = "client" THEN "app" ELSE "client"

\* A worker's peer in the tunnel, and an end's worker.
Tls(w)    == IF w = "client" THEN "server" ELSE "client"
WorkerOf(e) == IF e = "app" THEN "client" ELSE "server"

Links == {l \in Nodes \X Nodes :
            {l[1], l[2]} \in {{"app", "client"}, {"client", "server"}, {"server", "target"}}}

Notice == 0
Chunks == 1..MaxSent
None   == MaxSent + 1

VARIABLES
  open,   \* the nodes that have not closed their descriptors
  wire,   \* chunks in flight, per direction of a connection
  pc,     \* where a worker is
  buf,    \* what a worker has read and not yet written
  dst,    \* whom it is to be written to
  sent,   \* number of chunks an end has sent
  got,    \* what an end has received
  idled   \* history: the workers whose select() has timed out

vars == <<open, wire, pc, buf, dst, sent, got, idled>>

Init ==
  /\ open = Nodes
  /\ wire = [l \in Links |-> <<>>]
  /\ pc = [w \in Workers |-> "select"]
  /\ buf = [w \in Workers |-> None]
  /\ dst = [w \in Workers |-> w]
  /\ sent = [e \in Ends |-> 0]
  /\ got = [e \in Ends |-> <<>>]
  /\ idled = {}

Full(x, y) == Len(wire[<<x, y>>]) >= Cap
Puts(x, y, c) == wire' = [wire EXCEPT ![<<x, y>>] = Append(@, c)]
Takes(x, y)   == wire' = [wire EXCEPT ![<<x, y>>] = Tail(@)]

\* Data or the end of the stream from x.
Readable(x, w) == wire[<<x, w>>] # <<>> \/ x \notin open

-----------------------------------------------------------------------------
(* The workers.  "Wrong" operators are bugs put in on purpose. *)

\* read_tls(), read_cli(), read_tgt(): the read from x, for y.
Reads(w, x, y) ==
  \/ /\ wire[<<x, w>>] # <<>>
     /\ Takes(x, w)
     /\ buf' = [buf EXCEPT ![w] = Head(wire[<<x, w>>])]
     /\ dst' = [dst EXCEPT ![w] = y]
     /\ pc' = [pc EXCEPT ![w] = "write"]
  \/ /\ wire[<<x, w>>] = <<>>
     /\ pc' = [pc EXCEPT ![w] = "done"]
     /\ UNCHANGED <<wire, buf, dst>>

\* The bug: the end of the stream is seen before the data that precedes it.
ReadFirstWrong(w) ==
  /\ pc[w] = "select" /\ Readable(First(w), w)
  /\ IF First(w) \in open
       THEN Reads(w, First(w), Second(w))
       ELSE pc' = [pc EXCEPT ![w] = "done"] /\ UNCHANGED <<wire, buf, dst>>
  /\ UNCHANGED <<open, sent, got, idled>>

ReadFirst(w) ==
  /\ pc[w] = "select" /\ Readable(First(w), w)
  /\ Reads(w, First(w), Second(w))
  /\ UNCHANGED <<open, sent, got, idled>>

\* The bug: a worker whose tunnel has been closed goes without reading the rest.
ReadSecondWrong(w) ==
  /\ pc[w] = "select" /\ ~Readable(First(w), w) /\ Readable(Second(w), w)
  /\ IF Second(w) \in open
       THEN Reads(w, Second(w), First(w))
       ELSE pc' = [pc EXCEPT ![w] = "done"] /\ UNCHANGED <<wire, buf, dst>>
  /\ UNCHANGED <<open, sent, got, idled>>

ReadSecond(w) ==
  /\ pc[w] = "select" /\ ~Readable(First(w), w) /\ Readable(Second(w), w)
  /\ Reads(w, Second(w), First(w))
  /\ UNCHANGED <<open, sent, got, idled>>

\* The bug: a write that stopped half-way begins again.
WriteWrong(w) ==
  /\ pc[w] = "write" /\ ~Full(w, dst[w])
  /\ Puts(w, dst[w], buf[w])
  /\ pc' \in {pc, [pc EXCEPT ![w] = "select"]}
  /\ UNCHANGED <<open, buf, dst, sent, got, idled>>

\* The write waits until the connection can hold the chunk.  To a node that has
\* closed it fails, though a first one may still seem to succeed.
Write(w) ==
  /\ pc[w] = "write"
  /\ \/ /\ ~Full(w, dst[w])
        /\ Puts(w, dst[w], buf[w])
        /\ pc' = [pc EXCEPT ![w] = "select"]
     \/ /\ dst[w] \notin open
        /\ pc' = [pc EXCEPT ![w] = "done"]
        /\ UNCHANGED wire
  /\ buf' = [buf EXCEPT ![w] = None] /\ dst' = [dst EXCEPT ![w] = w]
  /\ UNCHANGED <<open, sent, got, idled>>

\* The bug: a select() that times out is taken for one that was interrupted.
TimeoutWrong(w) ==
  /\ pc[w] = "select" /\ ~Readable(First(w), w) /\ ~Readable(Second(w), w)
  /\ idled' = idled \cup {w}
  /\ UNCHANGED <<open, wire, pc, buf, dst, sent, got>>

\* select() has timed out.  The remote endpoint goes on to write a notice.
Timeout(w) ==
  /\ pc[w] = "select" /\ ~Readable(First(w), w) /\ ~Readable(Second(w), w)
  /\ pc' = [pc EXCEPT ![w] = IF w = "server" THEN "notice" ELSE "done"]
  /\ idled' = idled \cup {w}
  /\ UNCHANGED <<open, wire, buf, dst, sent, got>>

\* The bug: the loop goes on after the notice.
WriteNoticeWrong ==
  /\ pc["server"] = "notice" /\ ~Full("server", "client")
  /\ Puts("server", "client", Notice)
  /\ pc' = [pc EXCEPT !["server"] = "select"]
  /\ UNCHANGED <<open, buf, dst, sent, got, idled>>

\* timeout(): another write that waits; its result does not matter.
WriteNotice ==
  /\ pc["server"] = "notice"
  /\ \/ ~Full("server", "client") /\ Puts("server", "client", Notice)
     \/ "client" \notin open /\ UNCHANGED wire
  /\ pc' = [pc EXCEPT !["server"] = "done"]
  /\ UNCHANGED <<open, buf, dst, sent, got, idled>>

\* The cleanup thread destroys a worker's object: the end of the TLS session is
\* written, which waits like any write, and both descriptors are closed.
Reap(w) ==
  /\ pc[w] = "done"
  /\ ~Full(w, Tls(w)) \/ Tls(w) \notin open
  /\ open' = open \ {w}
  /\ pc' = [pc EXCEPT ![w] = "closed"]
  /\ UNCHANGED <<wire, buf, dst, sent, got, idled>>

-----------------------------------------------------------------------------
(* The application and the target, and the network *)

Send(e) ==
  /\ {e, WorkerOf(e)} \subseteq open /\ sent[e] < MaxSent /\ ~Full(e, WorkerOf(e))
  /\ sent' = [sent EXCEPT ![e] = @ + 1]
  /\ Puts(e, WorkerOf(e), sent'[e])
  /\ UNCHANGED <<open, pc, buf, dst, got, idled>>

Receive(e) ==
  /\ e \in open /\ wire[<<WorkerOf(e), e>>] # <<>>
  /\ got' = [got EXCEPT ![e] = Append(@, Head(wire[<<WorkerOf(e), e>>]))]
  /\ Takes(WorkerOf(e), e)
  /\ UNCHANGED <<open, pc, buf, dst, sent, idled>>

Close(e) ==
  /\ e \in open
  /\ open' = open \ {e}
  /\ UNCHANGED <<wire, pc, buf, dst, sent, got, idled>>

\* What reaches a node that has closed is answered by a reset, which discards
\* the last of what that node had sent.
Reset(x, y) ==
  /\ x \notin open /\ wire[<<y, x>>] # <<>>
  /\ \E n \in 0..(Len(wire[<<x, y>>]) - 1) :
       wire' = [wire EXCEPT ![<<x, y>>] = SubSeq(@, 1, n)]
  /\ UNCHANGED <<open, pc, buf, dst, sent, got, idled>>

Loop(w) == ReadFirst(w) \/ ReadSecond(w) \/ Write(w) \/ Timeout(w)

WorkerStep(w) == Loop(w) \/ Reap(w)

Next ==
  \/ \E w \in Workers : WorkerStep(w)
  \/ WriteNotice
  \/ \E e \in Ends : Send(e) \/ Receive(e) \/ Close(e)
  \/ \E l \in Links : Reset(l[1], l[2])

Spec == Init /\ [][Next]_vars

\* The workers run, unless they wait in a write.  The ends need not send, read or
\* close, and what else the cleanup threads have to do is not known here.
Fairness == (\A w \in Workers : WF_vars(Loop(w))) /\ WF_vars(WriteNotice)

FairSpec == Spec /\ Fairness

\* The cleanup threads come round: when they do is EndedIsReaped of Lifecycle.
Reaped == \A w \in Workers : WF_vars(Reap(w))

\* The ends read what they are sent as long as they are there.
ReadingSpec == FairSpec /\ Reaped /\ \A e \in Ends : WF_vars(Receive(e))
-----------------------------------------------------------------------------
(* Properties *)

\* Connections hold at most Cap chunks; a worker holds a chunk exactly while it
\* writes it, to one of its two peers.
TypeOK ==
  /\ open \subseteq Nodes
  /\ wire \in [Links -> Seq({Notice} \cup Chunks)]
  /\ \A l \in Links : Len(wire[l]) <= Cap
  /\ pc \in [Workers -> {"select", "write", "notice", "done", "closed"}]
  /\ buf \in [Workers -> {Notice, None} \cup Chunks]
  /\ dst \in [Workers -> Nodes]
  /\ sent \in [Ends -> 0..MaxSent] /\ got \in [Ends -> Seq({Notice} \cup Chunks)]
  /\ idled \subseteq Workers
  /\ \A w \in Workers :
       /\ w \notin open <=> pc[w] = "closed"
       /\ buf[w] = None <=> pc[w] # "write"
       /\ dst[w] \in (IF pc[w] = "write" THEN {First(w), Second(w)} ELSE {w})

Up   == INSTANCE Pipe WITH sent <- sent["app"], got <- got["target"], Notices <- {}
Down == INSTANCE Pipe WITH sent <- sent["target"], got <- got["app"], Notices <- {Notice}

\* The target gets a prefix of what the application sends, and nothing else.
UpPipe == Up!Spec

\* The application gets a prefix of what the target sends, and at most one
\* notice of the timeout, as the last thing.
DownPipe == Down!Spec

\* A target that sends and closes has everything it sent reach an application
\* that waits for it, if the tunnel does not time out and the application sent
\* nothing that the target has not read.
DownComplete ==
  /\ "client" \notin open /\ wire[<<"client", "app">>] = <<>> /\ "app" \in open
  /\ "target" \notin open
  /\ idled = {} /\ Len(got["target"]) = sent["app"]
  => got["app"] = [k \in 1..sent["target"] |-> k]

\* The same for an application that closes.
UpComplete ==
  /\ "server" \notin open /\ wire[<<"server", "target">>] = <<>> /\ "target" \in open
  /\ "app" \notin open
  /\ idled = {} /\ Len(got["app"]) = sent["target"]
  => got["target"] = [k \in 1..sent["app"] |-> k]

\* A worker that waits in a write into the tunnel, or whose object waits to be
\* destroyed for that write.
Blocked(w) ==
  /\ \/ pc[w] = "write" /\ dst[w] = Tls(w)
     \/ pc[w] \in {"notice", "done"}
  /\ Full(w, Tls(w)) /\ Tls(w) \in open

Wedged == \A w \in Workers : Blocked(w)
Over   == Workers \cap open = {}

\* A worker that waits for an end to read, which is there and does not: the write
\* is blocking and the timeout does not cover it.
Unread(w) ==
  /\ pc[w] = "write" /\ dst[w] \in Ends
  /\ Full(w, dst[w]) /\ dst[w] \in open

\* Whatever the ends do, a tunnel whose finished workers are reaped is taken down
\* on both sides, by an end that closes or by the timeout, but for two reasons: an
\* end stops reading and stays, or both endpoints wait for the other one to read.
EndsUnlessHeld ==
  Reaped => \/ <>(Over \/ Wedged)
            \/ \E w \in Workers : <>[]Unread(w)

\* "-t set timeout of connection" (main.cpp): a tunnel whose ends read what they
\* are sent and have nothing more to say is taken down.
TimesOut == <>Over
=============================================================================
