---------------------------- MODULE RelayProofs ----------------------------
(***************************************************************************)
(* For connections of any capacity and any amount of data: the types, and  *)
(* that both directions of a tunnel implement Pipe.                        *)
(***************************************************************************)
EXTENDS Relay, SequenceTheorems, TLAPS

\* The six directions of the three connections.
LEMMA LinksAre ==
  Links = {<<"app", "client">>, <<"client", "app">>, <<"client", "server">>,
           <<"server", "client">>, <<"server", "target">>, <<"target", "server">>}
BY DEF Links, Nodes, Workers, Ends

\* A worker's two peers.
LEMMA Peers ==
  ASSUME NEW w \in Workers
  PROVE  /\ First(w) \in Nodes /\ Second(w) \in Nodes
         /\ First(w) # w /\ Second(w) # w /\ First(w) # Second(w)
         /\ Tls(w) \in Workers
         /\ {<<w, First(w)>>, <<w, Second(w)>>,
             <<First(w), w>>, <<Second(w), w>>} \subseteq Links
BY LinksAre DEF First, Second, Tls, Nodes, Workers, Ends

----------------------------------------------------------------------------
(* Types. *)

Cells == {Notice} \cup Chunks
Wires == /\ wire \in [Links -> Seq(Cells)]
         /\ \A l \in Links : Len(wire[l]) <= Cap
Holding == \A w \in Workers :
             /\ w \notin open <=> pc[w] = "closed"
             /\ buf[w] = None <=> pc[w] # "write"
             /\ dst[w] \in (IF pc[w] = "write" THEN {First(w), Second(w)} ELSE {w})
Scalars == /\ open \subseteq Nodes
           /\ pc \in [Workers -> {"select", "write", "notice", "done", "closed"}]
           /\ buf \in [Workers -> {Notice, None} \cup Chunks]
           /\ dst \in [Workers -> Nodes]
           /\ sent \in [Ends -> 0..MaxSent] /\ got \in [Ends -> Seq(Cells)]
           /\ idled \subseteq Workers

LEMMA TypeParts == TypeOK <=> Wires /\ Holding /\ Scalars
BY DEF TypeOK, Wires, Holding, Scalars, Cells

\* The number of no chunk is no chunk.
LEMMA NoneIsNone == None \notin Cells /\ None \in Nat /\ Cells \subseteq Nat /\ Cap \in Nat
BY BoundsAssumption DEF None, Cells, Chunks, Notice

\* A chunk put on a wire that is not full, and one taken off.
LEMMA PutsKeeps ==
  ASSUME Wires, NEW x, NEW y, <<x, y>> \in Links, NEW c \in Cells,
         ~Full(x, y), Puts(x, y, c)
  PROVE  Wires'
<1>1. wire[<<x, y>>] \in Seq(Cells) /\ Len(wire[<<x, y>>]) \in Nat
  BY DEF Wires
<1>2. /\ Append(wire[<<x, y>>], c) \in Seq(Cells)
      /\ Len(Append(wire[<<x, y>>], c)) = Len(wire[<<x, y>>]) + 1
  BY <1>1
<1>3. Len(Append(wire[<<x, y>>], c)) <= Cap
  BY <1>1, <1>2, NoneIsNone DEF Full
<1>4. wire' = [wire EXCEPT ![<<x, y>>] = Append(wire[<<x, y>>], c)]
  BY DEF Puts
<1> QED BY <1>2, <1>3, <1>4 DEF Wires

LEMMA TakesKeeps ==
  ASSUME Wires, NEW x, NEW y, <<x, y>> \in Links,
         wire[<<x, y>>] # <<>>, Takes(x, y)
  PROVE  Wires' /\ Head(wire[<<x, y>>]) \in Cells
<1>1. wire[<<x, y>>] \in Seq(Cells) /\ Len(wire[<<x, y>>]) \in Nat
  BY DEF Wires
<1>2. /\ Head(wire[<<x, y>>]) \in Cells /\ Tail(wire[<<x, y>>]) \in Seq(Cells)
      /\ Len(Tail(wire[<<x, y>>])) = Len(wire[<<x, y>>]) - 1
  BY <1>1, HeadTailProperties
<1>3. Len(Tail(wire[<<x, y>>])) <= Cap
  BY <1>1, <1>2, NoneIsNone DEF Wires
<1>4. wire' = [wire EXCEPT ![<<x, y>>] = Tail(wire[<<x, y>>])]
  BY DEF Takes
<1> QED BY <1>2, <1>3, <1>4 DEF Wires

\* A read, from whichever descriptor and for the other one.
LEMMA ReadKeepsTypes ==
  ASSUME TypeOK, NEW w \in Workers, NEW x, NEW y,
         <<x, y>> \in {<<First(w), Second(w)>>, <<Second(w), First(w)>>},
         pc[w] = "select", Reads(w, x, y), UNCHANGED <<open, sent, got, idled>>
  PROVE  TypeOK'
<1>1. Wires /\ Holding /\ Scalars
  BY TypeParts
<1>2. <<x, w>> \in Links /\ y \in {First(w), Second(w)} /\ y \in Nodes
  BY Peers
<1>3. CASE wire[<<x, w>>] # <<>>
  <2>1. /\ Takes(x, w)
        /\ buf' = [buf EXCEPT ![w] = Head(wire[<<x, w>>])]
        /\ dst' = [dst EXCEPT ![w] = y]
        /\ pc' = [pc EXCEPT ![w] = "write"]
    BY <1>3 DEF Reads
  <2>2. Wires' /\ Head(wire[<<x, w>>]) \in Cells
    BY <1>1, <1>2, <1>3, <2>1, TakesKeeps
  <2>3. Scalars'
    BY <1>1, <1>2, <2>1, <2>2 DEF Scalars, Cells
  <2>4. Holding'
    BY <1>1, <1>2, <2>1, <2>2, NoneIsNone DEF Scalars, Holding
  <2> QED BY <2>2, <2>3, <2>4, TypeParts DEF TypeOK, Wires, Scalars, Holding, Cells
<1>4. CASE wire[<<x, w>>] = <<>>
  <2>1. pc' = [pc EXCEPT ![w] = "done"] /\ UNCHANGED <<wire, buf, dst>>
    BY <1>4 DEF Reads
  <2>2. Wires' /\ Scalars' /\ Holding'
    BY <1>1, <2>1 DEF Wires, Scalars, Holding
  <2> QED BY <2>2 DEF TypeOK, Wires, Scalars, Holding, Cells
<1> QED BY <1>3, <1>4

LEMMA WriteKeepsTypes ==
  ASSUME TypeOK, NEW w \in Workers, Write(w)
  PROVE  TypeOK'
<1>1. Wires /\ Holding /\ Scalars
  BY TypeParts
<1>2. dst[w] \in {First(w), Second(w)} /\ <<w, dst[w]>> \in Links /\ buf[w] \in Cells
  BY <1>1, Peers DEF Holding, Scalars, Write, Cells
<1>3. Wires'
  <2>1. CASE ~Full(w, dst[w]) /\ Puts(w, dst[w], buf[w])
    BY <1>1, <1>2, <2>1, PutsKeeps
  <2>2. CASE UNCHANGED wire
    BY <1>1, <2>2 DEF Wires
  <2> QED BY <2>1, <2>2 DEF Write
<1>4. Scalars'
  BY <1>1, Peers DEF Write, Scalars, Nodes
<1>5. Holding'
  BY <1>1 DEF Write, Scalars, Holding
<1> QED BY <1>3, <1>4, <1>5 DEF TypeOK, Wires, Scalars, Holding, Cells

LEMMA OtherStepsKeepTypes ==
  ASSUME TypeOK, NEW w \in Workers, Timeout(w) \/ WriteNotice \/ Reap(w)
  PROVE  TypeOK'
<1>1. Wires /\ Holding /\ Scalars
  BY TypeParts
<1>2. Wires'
  <2>1. CASE WriteNotice /\ ~Full("server", "client") /\ Puts("server", "client", Notice)
    BY <1>1, <2>1, PutsKeeps, LinksAre DEF Cells
  <2>2. CASE UNCHANGED wire
    BY <1>1, <2>2 DEF Wires
  <2> QED BY <2>1, <2>2 DEF Timeout, WriteNotice, Reap
<1>3. CASE Timeout(w)
  <2>1. Scalars' /\ Holding'
    BY <1>1, <1>3 DEF Timeout, Scalars, Holding
  <2> QED BY <1>2, <2>1 DEF TypeOK, Wires, Scalars, Holding, Cells
<1>4. CASE WriteNotice
  <2>1. Scalars' /\ Holding'
    BY <1>1, <1>4 DEF WriteNotice, Scalars, Holding, Workers
  <2> QED BY <1>2, <2>1 DEF TypeOK, Wires, Scalars, Holding, Cells
<1>5. CASE Reap(w)
  <2>1. Scalars' /\ Holding'
    BY <1>1, <1>5 DEF Reap, Scalars, Holding
  <2> QED BY <1>2, <2>1 DEF TypeOK, Wires, Scalars, Holding, Cells
<1> QED BY <1>3, <1>4, <1>5

\* What an end is connected by.
LEMMA EndLinks ==
  ASSUME NEW e \in Ends
  PROVE  /\ <<e, WorkerOf(e)>> \in Links /\ <<WorkerOf(e), e>> \in Links
         /\ e \notin Workers
BY LinksAre DEF Ends, WorkerOf, Workers

LEMMA EndsKeepTypes ==
  ASSUME TypeOK, NEW e \in Ends, Send(e) \/ Receive(e) \/ Close(e)
  PROVE  TypeOK'
<1>1. Wires /\ Holding /\ Scalars
  BY TypeParts
<1>2. CASE Send(e)
  <2>1. sent' = [sent EXCEPT ![e] = sent[e] + 1] /\ sent[e] + 1 \in Chunks
    BY <1>1, <1>2, BoundsAssumption DEF Send, Scalars, Chunks
  <2>2. sent'[e] \in Cells /\ ~Full(e, WorkerOf(e)) /\ Puts(e, WorkerOf(e), sent'[e])
    BY <1>1, <1>2, <2>1 DEF Send, Cells, Scalars
  <2>3. Wires'
    BY <1>1, <2>2, EndLinks, PutsKeeps
  <2>4. Scalars' /\ Holding'
    BY <1>1, <1>2, <2>1, BoundsAssumption DEF Send, Scalars, Holding, Chunks
  <2> QED BY <2>3, <2>4 DEF TypeOK, Wires, Scalars, Holding, Cells
<1>3. CASE Receive(e)
  <2>1. Takes(WorkerOf(e), e) /\ wire[<<WorkerOf(e), e>>] # <<>>
    BY <1>3 DEF Receive
  <2>2. Wires' /\ Head(wire[<<WorkerOf(e), e>>]) \in Cells
    BY <1>1, <2>1, EndLinks, TakesKeeps
  <2>3. got' = [got EXCEPT ![e] = Append(got[e], Head(wire[<<WorkerOf(e), e>>]))]
    BY <1>3 DEF Receive
  <2>4. Scalars' /\ Holding'
    BY <1>1, <1>3, <2>2, <2>3 DEF Receive, Scalars, Holding
  <2> QED BY <2>2, <2>4 DEF TypeOK, Wires, Scalars, Holding, Cells
<1>4. CASE Close(e)
  <2>1. Wires' /\ Scalars' /\ Holding'
    BY <1>1, <1>4, EndLinks DEF Close, Wires, Scalars, Holding
  <2> QED BY <2>1 DEF TypeOK, Wires, Scalars, Holding, Cells
<1> QED BY <1>2, <1>3, <1>4

\* What a reset leaves of a wire.
LEMMA Prefixes ==
  ASSUME NEW S, NEW s \in Seq(S), NEW n \in 0..Len(s)
  PROVE  /\ SubSeq(s, 1, n) \in Seq(S) /\ Len(SubSeq(s, 1, n)) = n
         /\ \A i \in 1..n : SubSeq(s, 1, n)[i] = s[i]
<1>1. Len(s) \in Nat /\ n \in Nat /\ \A i \in 1..n : s[i] \in S
  OBVIOUS
<1> QED BY <1>1, SubSeqProperties

LEMMA ResetKeepsTypes ==
  ASSUME TypeOK, NEW l \in Links, Reset(l[1], l[2])
  PROVE  TypeOK'
<1>1. Wires /\ Holding /\ Scalars
  BY TypeParts
<1>2. l = <<l[1], l[2]>>
  BY LinksAre
<1>3. PICK n \in 0..(Len(wire[l]) - 1) : wire' = [wire EXCEPT ![l] = SubSeq(wire[l], 1, n)]
  BY <1>2 DEF Reset
<1>4. wire[l] \in Seq(Cells) /\ Len(wire[l]) \in Nat /\ Len(wire[l]) <= Cap
  BY <1>1 DEF Wires
<1>5. SubSeq(wire[l], 1, n) \in Seq(Cells) /\ Len(SubSeq(wire[l], 1, n)) = n
  BY <1>4, Prefixes
<1>6. Wires'
  BY <1>1, <1>3, <1>4, <1>5, NoneIsNone DEF Wires
<1>7. Scalars' /\ Holding'
  BY <1>1 DEF Reset, Scalars, Holding
<1> QED BY <1>6, <1>7 DEF TypeOK, Wires, Scalars, Holding, Cells

LEMMA InitTypes == Init => TypeOK
<1> SUFFICES ASSUME Init PROVE TypeOK
  OBVIOUS
<1>1. Wires
  BY NoneIsNone, BoundsAssumption DEF Init, Wires
<1>2. Scalars /\ Holding
  BY BoundsAssumption DEF Init, Scalars, Holding, Nodes, Workers, Ends
<1> QED BY <1>1, <1>2, TypeParts

LEMMA TypesInductive ==
  ASSUME TypeOK, [Next]_vars
  PROVE  TypeOK'
<1>1. ASSUME NEW w \in Workers, WorkerStep(w)
      PROVE  TypeOK'
  <2>1. CASE ReadFirst(w)
    BY <2>1, ReadKeepsTypes DEF ReadFirst
  <2>2. CASE ReadSecond(w)
    BY <2>2, ReadKeepsTypes DEF ReadSecond
  <2> QED BY <1>1, <2>1, <2>2, WriteKeepsTypes, OtherStepsKeepTypes DEF WorkerStep, Loop
<1>2. CASE WriteNotice
  BY <1>2, OtherStepsKeepTypes DEF Workers
<1>3. CASE UNCHANGED vars
  BY <1>3 DEF vars, TypeOK
<1> QED BY <1>1, <1>2, <1>3, EndsKeepTypes, ResetKeepsTypes DEF Next

\* Connections hold at most Cap chunks and a worker holds a chunk exactly while
\* it writes it, whatever the capacity and however much is sent.
THEOREM TypeCorrect == Spec => []TypeOK
BY InitTypes, TypesInductive, PTL DEF Spec

----------------------------------------------------------------------------
(* One direction of the tunnel: from the end e by the workers w and v to   *)
(* the end r.  What is under way is read from the receiver back: as long   *)
(* as the workers in between are relaying, it is 1, 2, 3, ...              *)

Route(e, w, v, r) ==
  \/ e = "app" /\ w = "client" /\ v = "server" /\ r = "target"
  \/ e = "target" /\ w = "server" /\ v = "client" /\ r = "app"
Allowed(e) == IF e = "target" THEN {Notice} ELSE {}

Live(w) == pc[w] \in {"select", "write"}
Held(w, y) == IF dst[w] = y THEN <<buf[w]>> ELSE <<>>

Delivered(v, r) == got[r] \o wire[<<v, r>>]
Onward(w, v, r) == (Delivered(v, r) \o Held(v, r)) \o wire[<<w, v>>]
Whole(e, w, v, r) == (Onward(w, v, r) \o Held(w, v)) \o wire[<<e, w>>]

\* The first n chunks or fewer, and then perhaps something out of N.
Flow(s, n, N) ==
  \A i \in 1..Len(s) : (s[i] = i /\ i <= n) \/ (i = Len(s) /\ s[i] \in N)

Relayed(e, w, v, r) ==
  /\ Flow(Delivered(v, r), sent[e], Allowed(e))
  /\ Live(v) =>
       /\ Flow(Onward(w, v, r), sent[e], Allowed(e))
       /\ pc[w] = "notice" => Flow(Onward(w, v, r), sent[e], {})
       /\ Live(w) => /\ Flow(Whole(e, w, v, r), sent[e], {})
                     /\ e \in open => Len(Whole(e, w, v, r)) = sent[e]

IInv == /\ TypeOK
        /\ Relayed("app", "client", "server", "target")
        /\ Relayed("target", "server", "client", "app")

\* Sequences that flow.
LEMMA FlowPrefix ==
  ASSUME NEW s \in Seq(Cells), NEW t \in Seq(Cells), NEW n \in Nat, NEW N,
         Flow(s \o t, n, N)
  PROVE  Flow(s, n, N)
<1>1. /\ Len(s) \in Nat /\ Len(t) \in Nat /\ Len(s \o t) = Len(s) + Len(t)
      /\ \A i \in 1..Len(s) : (s \o t)[i] = s[i]
  BY ConcatProperties
<1> QED BY <1>1 DEF Flow

LEMMA FlowCut ==
  ASSUME NEW s \in Seq(Cells), NEW t \in Seq(Cells), NEW n \in Nat, NEW N,
         Flow(s \o t, n, N), NEW k \in 0..Len(t)
  PROVE  Flow(s \o SubSeq(t, 1, k), n, N)
<1> DEFINE u == SubSeq(t, 1, k)
<1>1. /\ Len(s) \in Nat /\ Len(t) \in Nat
      /\ u \in Seq(Cells) /\ Len(u) = k /\ \A i \in 1..k : u[i] = t[i]
  BY Prefixes
<1>2. /\ Len(s \o t) = Len(s) + Len(t) /\ Len(s \o u) = Len(s) + k
      /\ \A i \in 1..(Len(s) + k) : (s \o u)[i] = (s \o t)[i]
  BY <1>1, ConcatProperties
<1> HIDE DEF u
<1>3. Flow(s \o u, n, N)
  BY <1>1, <1>2 DEF Flow
<1> QED BY <1>3 DEF u

LEMMA FlowEnds ==
  ASSUME NEW s \in Seq(Cells), NEW n \in Nat, NEW c \in Cells, NEW N,
         Flow(s, n, {}), c \in N \/ (c = Len(s) + 1 /\ c <= n)
  PROVE  Flow(s \o <<c>>, n, N)
<1>1. /\ Len(s) \in Nat /\ Len(s \o <<c>>) = Len(s) + 1
      /\ (s \o <<c>>)[Len(s) + 1] = c
      /\ \A i \in 1..Len(s) : (s \o <<c>>)[i] = s[i]
  OBVIOUS
<1> QED BY <1>1 DEF Flow

\* A chunk that goes from one place to the next.
LEMMA HeadMoves ==
  ASSUME NEW s \in Seq(Cells), NEW t \in Seq(Cells), t # <<>>
  PROVE  (s \o <<Head(t)>>) \o Tail(t) = s \o t
<1>1. /\ Head(t) \in Cells /\ Tail(t) \in Seq(Cells) /\ <<Head(t)>> \in Seq(Cells)
      /\ t = <<Head(t)>> \o Tail(t)
  <2>1. /\ Head(t) \in Cells /\ Tail(t) \in Seq(Cells) /\ Len(Tail(t)) = Len(t) - 1
        /\ \A i \in 1..Len(Tail(t)) : Tail(t)[i] = t[i + 1]
    BY HeadTailProperties
  <2>2. /\ <<Head(t)>> \in Seq(Cells) /\ Len(<<Head(t)>>) = 1 /\ <<Head(t)>>[1] = t[1]
        /\ Len(t) \in Nat \ {0}
    BY <2>1, EmptySeq
  <2>3. /\ <<Head(t)>> \o Tail(t) \in Seq(Cells)
        /\ Len(<<Head(t)>> \o Tail(t)) = Len(t)
        /\ \A i \in 1..Len(t) : (<<Head(t)>> \o Tail(t))[i] = t[i]
    BY <2>1, <2>2, ConcatProperties
  <2> QED BY <2>1, <2>2, <2>3, SeqEqual
<1> QED BY <1>1, ConcatAssociative

LEMMA AppendMoves ==
  ASSUME NEW s \in Seq(Cells), NEW t \in Seq(Cells), NEW c \in Cells
  PROVE  /\ Append(t, c) = t \o <<c>> /\ <<c>> \in Seq(Cells)
         /\ s \o Append(t, c) = (s \o t) \o <<c>>
<1>1. Append(t, c) = t \o <<c>> /\ <<c>> \in Seq(Cells)
  OBVIOUS
<1> QED BY <1>1, ConcatAssociative

\* Who is connected to whom along a route.
Joined(e, w, v, r) ==
  /\ e \in Ends /\ r \in Ends /\ w \in Workers /\ v \in Workers
  /\ e # r /\ w # v /\ e # w /\ e # v /\ r # w /\ r # v
  /\ {<<e, w>>, <<w, v>>, <<v, r>>} \subseteq Links
  /\ WorkerOf(e) = w /\ WorkerOf(r) = v
  /\ {First(w), Second(w)} = {e, v} /\ {First(v), Second(v)} = {w, r}
  /\ First(w) # Second(w) /\ First(v) # Second(v)
  /\ Ends = {e, r} /\ Workers = {w, v}

LEMMA RouteFacts ==
  ASSUME NEW e, NEW w, NEW v, NEW r, Route(e, w, v, r)
  PROVE  Joined(e, w, v, r)
BY LinksAre DEF Route, Joined, Ends, Workers, WorkerOf, First, Second

LEMMA PiecesAreSequences ==
  ASSUME TypeOK, NEW e, NEW w, NEW v, NEW r, Route(e, w, v, r)
  PROVE  /\ got[r] \in Seq(Cells) /\ sent[e] \in Nat
         /\ wire[<<v, r>>] \in Seq(Cells) /\ wire[<<w, v>>] \in Seq(Cells)
         /\ wire[<<e, w>>] \in Seq(Cells)
         /\ Held(v, r) \in Seq(Cells) /\ Held(w, v) \in Seq(Cells)
         /\ Delivered(v, r) \in Seq(Cells)
         /\ Delivered(v, r) \o Held(v, r) \in Seq(Cells)
         /\ Onward(w, v, r) \in Seq(Cells)
         /\ Onward(w, v, r) \o Held(w, v) \in Seq(Cells)
         /\ Whole(e, w, v, r) \in Seq(Cells)
<1>1. Wires /\ Holding /\ Scalars
  BY TypeParts
<1>2. /\ got[r] \in Seq(Cells) /\ sent[e] \in Nat
      /\ wire[<<v, r>>] \in Seq(Cells) /\ wire[<<w, v>>] \in Seq(Cells)
      /\ wire[<<e, w>>] \in Seq(Cells)
  BY <1>1, RouteFacts, BoundsAssumption DEF Wires, Scalars, Joined
<1>3. ASSUME NEW x \in Workers, NEW y, y # x
      PROVE  Held(x, y) \in Seq(Cells)
  <2>1. CASE dst[x] = y
    <3>1. pc[x] = "write" /\ buf[x] # None
      BY <1>1, <1>3, <2>1 DEF Holding
    <3>2. buf[x] \in Cells
      BY <1>1, <3>1 DEF Scalars, Cells
    <3> QED BY <2>1, <3>2 DEF Held
  <2>2. CASE dst[x] # y
    BY <2>2 DEF Held
  <2> QED BY <2>1, <2>2
<1>4. Held(v, r) \in Seq(Cells) /\ Held(w, v) \in Seq(Cells)
  BY <1>3, RouteFacts DEF Joined
<1>5. Delivered(v, r) \in Seq(Cells) /\ Delivered(v, r) \o Held(v, r) \in Seq(Cells)
  BY <1>2, <1>4, ConcatProperties DEF Delivered
<1>6. Onward(w, v, r) \in Seq(Cells) /\ Onward(w, v, r) \o Held(w, v) \in Seq(Cells)
  BY <1>2, <1>4, <1>5, ConcatProperties DEF Onward
<1>7. Whole(e, w, v, r) \in Seq(Cells)
  BY <1>2, <1>6, ConcatProperties DEF Whole
<1> QED BY <1>2, <1>4, <1>5, <1>6, <1>7

\* A worker that is relaying takes the flow for what it is further on.
LEMMA FlowOnward ==
  ASSUME TypeOK, NEW e, NEW w, NEW v, NEW r, Route(e, w, v, r), Relayed(e, w, v, r),
         Live(v), Live(w)
  PROVE  /\ Flow(Whole(e, w, v, r), sent[e], {})
         /\ Flow(Onward(w, v, r) \o Held(w, v), sent[e], {})
         /\ Flow(Onward(w, v, r), sent[e], {})
<1>1. Flow(Whole(e, w, v, r), sent[e], {})
  BY DEF Relayed
<1>2. Flow(Onward(w, v, r) \o Held(w, v), sent[e], {})
  BY <1>1, PiecesAreSequences, FlowPrefix DEF Whole
<1>3. Flow(Onward(w, v, r), sent[e], {})
  BY <1>2, PiecesAreSequences, FlowPrefix
<1> QED BY <1>1, <1>2, <1>3

\* A step that moves what is under way on, or makes a worker give up.
LEMMA SameFlow ==
  ASSUME TypeOK, NEW e, NEW w, NEW v, NEW r, Route(e, w, v, r), Relayed(e, w, v, r),
         sent'[e] = sent[e],
         \/ Delivered(v, r)' = Delivered(v, r)
         \/ Live(v) /\ Delivered(v, r)' = Delivered(v, r) \o Held(v, r),
         Live(v)' =>
           /\ Live(v)
           /\ \/ Onward(w, v, r)' = Onward(w, v, r)
              \/ Live(w) /\ Onward(w, v, r)' = Onward(w, v, r) \o Held(w, v),
         Live(v)' /\ Live(w)' => Live(w) /\ Whole(e, w, v, r)' = Whole(e, w, v, r),
         pc'[w] = "notice" => Live(w) \/ pc[w] = "notice",
         e \in open' => e \in open
  PROVE  Relayed(e, w, v, r)'
<1> DEFINE A == Allowed(e)
<1>1. Flow(Delivered(v, r), sent[e], A)'
  <2>1. CASE Delivered(v, r)' = Delivered(v, r)
    BY <2>1 DEF Relayed, Flow, Allowed
  <2>2. CASE Live(v) /\ Delivered(v, r)' = Delivered(v, r) \o Held(v, r)
    <3>1. Flow((Delivered(v, r) \o Held(v, r)) \o wire[<<w, v>>], sent[e], A)
      BY <2>2 DEF Relayed, Onward
    <3>2. Flow(Delivered(v, r) \o Held(v, r), sent[e], A)
      BY <3>1, PiecesAreSequences, FlowPrefix
    <3> QED BY <2>2, <3>2 DEF Flow, Allowed
  <2> QED BY <2>1, <2>2
<1>2. SUFFICES ASSUME Live(v)'
               PROVE  /\ Flow(Onward(w, v, r), sent[e], A)'
                      /\ pc'[w] = "notice" => Flow(Onward(w, v, r), sent[e], {})'
                      /\ Live(w)' => /\ Flow(Whole(e, w, v, r), sent[e], {})'
                                     /\ e \in open' => Len(Whole(e, w, v, r))' = sent'[e]
  BY <1>1, <1>2 DEF Relayed
<1>3. /\ Flow(Onward(w, v, r), sent[e], A)'
      /\ pc'[w] = "notice" => Flow(Onward(w, v, r), sent[e], {})'
  <2>1. CASE Onward(w, v, r)' = Onward(w, v, r)
    <3>1. Flow(Onward(w, v, r), sent[e], A)
      BY <1>2 DEF Relayed
    <3>2. pc'[w] = "notice" => Flow(Onward(w, v, r), sent[e], {})
      BY <1>2, FlowOnward DEF Relayed
    <3> QED BY <2>1, <3>1, <3>2 DEF Flow, Allowed
  <2>2. CASE Live(w) /\ Onward(w, v, r)' = Onward(w, v, r) \o Held(w, v)
    <3>1. Flow(Onward(w, v, r) \o Held(w, v), sent[e], {})
      BY <1>2, <2>2, FlowOnward
    <3> QED BY <2>2, <3>1 DEF Flow, Allowed
  <2> QED BY <1>2, <2>1, <2>2
<1>4. ASSUME Live(w)'
      PROVE  /\ Flow(Whole(e, w, v, r), sent[e], {})'
             /\ e \in open' => Len(Whole(e, w, v, r))' = sent'[e]
  <2>1. Flow(Whole(e, w, v, r), sent[e], {}) /\ (e \in open => Len(Whole(e, w, v, r)) = sent[e])
    BY <1>2, <1>4 DEF Relayed
  <2> QED BY <1>2, <1>4, <2>1 DEF Flow
<1> QED BY <1>3, <1>4

\* A step that touches nothing on the route.
LEMMA Quiet ==
  ASSUME TypeOK, NEW e, NEW w, NEW v, NEW r, Route(e, w, v, r), Relayed(e, w, v, r),
         UNCHANGED <<got[r], sent[e], wire[<<v, r>>], wire[<<w, v>>], wire[<<e, w>>]>>,
         Live(v)' => Live(v) /\ Held(v, r)' = Held(v, r),
         Live(w)' => Live(w) /\ Held(w, v)' = Held(w, v),
         pc'[w] = "notice" => Live(w) \/ pc[w] = "notice",
         e \in open' => e \in open
  PROVE  Relayed(e, w, v, r)'
<1>1. Delivered(v, r)' = Delivered(v, r)
  BY DEF Delivered
<1>2. Live(v)' => Live(v) /\ Onward(w, v, r)' = Onward(w, v, r)
  BY <1>1 DEF Onward
<1>3. Live(v)' /\ Live(w)' => Live(w) /\ Whole(e, w, v, r)' = Whole(e, w, v, r)
  BY <1>2 DEF Whole
<1> QED BY <1>1, <1>2, <1>3, SameFlow

\* The steps, one lemma for each kind.
LEMMA ReadRelays ==
  ASSUME TypeOK, NEW e, NEW w, NEW v, NEW r, Route(e, w, v, r), Relayed(e, w, v, r),
         NEW x \in Workers, ReadFirst(x) \/ ReadSecond(x)
  PROVE  Relayed(e, w, v, r)'
<1>0. Joined(e, w, v, r)
  BY RouteFacts
<1>1. PICK a, b : /\ {a, b} = {First(x), Second(x)} /\ a # b
                  /\ pc[x] = "select" /\ Reads(x, a, b)
                  /\ UNCHANGED <<open, sent, got, idled>>
  BY Peers DEF ReadFirst, ReadSecond
<1>2. /\ pc \in [Workers -> {"select", "write", "notice", "done", "closed"}]
      /\ dst \in [Workers -> Nodes] /\ DOMAIN buf = Workers /\ DOMAIN wire = Links
      /\ dst[x] = x
  BY <1>1 DEF TypeOK
<1>3. CASE wire[<<a, x>>] = <<>>
  <2>1. pc' = [pc EXCEPT ![x] = "done"] /\ UNCHANGED <<wire, buf, dst>>
    BY <1>1, <1>3 DEF Reads
  <2>2. \A y \in Workers : pc'[y] = IF y = x THEN "done" ELSE pc[y]
    BY <1>2, <2>1
  <2>3. Held(v, r)' = Held(v, r) /\ Held(w, v)' = Held(w, v)
    BY <2>1 DEF Held
  <2>4. /\ Live(v)' => Live(v)
        /\ Live(w)' => Live(w)
        /\ pc'[w] = "notice" => pc[w] = "notice"
    BY <1>0, <2>2 DEF Live, Joined
  <2> QED BY <1>1, <2>1, <2>3, <2>4, Quiet
<1>4. CASE wire[<<a, x>>] # <<>>
  <2>1. /\ wire' = [wire EXCEPT ![<<a, x>>] = Tail(wire[<<a, x>>])]
        /\ buf' = [buf EXCEPT ![x] = Head(wire[<<a, x>>])]
        /\ dst' = [dst EXCEPT ![x] = b] /\ pc' = [pc EXCEPT ![x] = "write"]
    BY <1>1, <1>4 DEF Reads, Takes
  <2>2. /\ \A l \in Links : l # <<a, x>> => wire'[l] = wire[l]
        /\ <<a, x>> \in Links => wire'[<<a, x>>] = Tail(wire[<<a, x>>])
        /\ Live(x) /\ Live(x)' /\ \A y \in Workers \ {x} : pc'[y] = pc[y]
        /\ \A y \in Workers \ {x} : dst'[y] = dst[y] /\ buf'[y] = buf[y]
        /\ \A y \in Workers \ {x} : Live(y)' = Live(y)
        /\ dst'[x] = b /\ buf'[x] = Head(wire[<<a, x>>]) /\ pc'[x] = "write"
    BY <1>1, <1>2, <2>1 DEF Live
  <2> DEFINE h == Head(wire[<<a, x>>])
  <2>3. CASE x = v /\ a = w
    <3>1. /\ b = r /\ Held(v, r) = <<>> /\ Held(v, r)' = <<h>>
          /\ wire'[<<w, v>>] = Tail(wire[<<w, v>>])
          /\ wire'[<<v, r>>] = wire[<<v, r>>] /\ wire'[<<e, w>>] = wire[<<e, w>>]
          /\ Held(w, v)' = Held(w, v)
      BY <1>0, <1>1, <1>2, <2>2, <2>3 DEF Held, Joined
    <3>2. Delivered(v, r)' = Delivered(v, r)
      BY <1>1, <3>1 DEF Delivered
    <3>3. Onward(w, v, r) = Delivered(v, r) \o wire[<<w, v>>]
      BY <3>1, PiecesAreSequences, ConcatEmptySeq DEF Onward
    <3>4. Onward(w, v, r)' = (Delivered(v, r) \o <<h>>) \o Tail(wire[<<w, v>>])
      BY <3>1, <3>2 DEF Onward
    <3>5. Onward(w, v, r)' = Onward(w, v, r)
      <4>1. /\ Delivered(v, r) \in Seq(Cells) /\ wire[<<w, v>>] \in Seq(Cells)
            /\ wire[<<w, v>>] # <<>>
        BY <1>4, <2>3, PiecesAreSequences
      <4> QED BY <2>3, <3>3, <3>4, <4>1, HeadMoves
    <3>6. Whole(e, w, v, r)' = Whole(e, w, v, r)
      BY <3>1, <3>5 DEF Whole
    <3>7. /\ Live(v) /\ (Live(w)' => Live(w)) /\ pc'[w] = pc[w]
      BY <1>0, <2>2, <2>3 DEF Joined
    <3> QED BY <1>1, <3>2, <3>5, <3>6, <3>7, SameFlow
  <2>4. CASE x = w /\ a = e
    <3>1. /\ b = v /\ Held(w, v) = <<>> /\ Held(w, v)' = <<h>>
          /\ wire'[<<e, w>>] = Tail(wire[<<e, w>>])
          /\ wire'[<<v, r>>] = wire[<<v, r>>] /\ wire'[<<w, v>>] = wire[<<w, v>>]
          /\ Held(v, r)' = Held(v, r)
      BY <1>0, <1>1, <1>2, <2>2, <2>4 DEF Held, Joined
    <3>2. Delivered(v, r)' = Delivered(v, r) /\ Onward(w, v, r)' = Onward(w, v, r)
      BY <1>1, <3>1 DEF Delivered, Onward
    <3>3. Whole(e, w, v, r) = Onward(w, v, r) \o wire[<<e, w>>]
      BY <3>1, PiecesAreSequences, ConcatEmptySeq DEF Whole
    <3>4. Whole(e, w, v, r)' = (Onward(w, v, r) \o <<h>>) \o Tail(wire[<<e, w>>])
      BY <3>1, <3>2 DEF Whole
    <3>5. Whole(e, w, v, r)' = Whole(e, w, v, r)
      <4>1. /\ Onward(w, v, r) \in Seq(Cells) /\ wire[<<e, w>>] \in Seq(Cells)
            /\ wire[<<e, w>>] # <<>>
        BY <1>4, <2>4, PiecesAreSequences
      <4> QED BY <2>4, <3>3, <3>4, <4>1, HeadMoves
    <3>6. Live(w) /\ (Live(v)' => Live(v))
      BY <1>0, <2>2, <2>4 DEF Joined
    <3> QED BY <1>1, <3>2, <3>5, <3>6, SameFlow
  <2>5. CASE (x = v /\ a = r) \/ (x = w /\ a = v)
    <3>1. /\ wire'[<<v, r>>] = wire[<<v, r>>] /\ wire'[<<w, v>>] = wire[<<w, v>>]
          /\ wire'[<<e, w>>] = wire[<<e, w>>]
      BY <1>0, <2>2, <2>5 DEF Joined
    <3>2. Held(v, r)' = Held(v, r) /\ Held(w, v)' = Held(w, v)
      BY <1>0, <1>1, <1>2, <2>2, <2>5 DEF Held, Joined
    <3>3. /\ Live(v)' => Live(v)
          /\ Live(w)' => Live(w)
          /\ pc'[w] = "notice" => Live(w) \/ pc[w] = "notice"
      BY <1>0, <2>2, <2>5 DEF Joined
    <3> QED BY <1>1, <3>1, <3>2, <3>3, Quiet
  <2> QED BY <1>0, <1>1, <2>3, <2>4, <2>5 DEF Joined
<1> QED BY <1>3, <1>4

LEMMA WriteRelays ==
  ASSUME TypeOK, NEW e, NEW w, NEW v, NEW r, Route(e, w, v, r), Relayed(e, w, v, r),
         NEW x \in Workers, Write(x)
  PROVE  Relayed(e, w, v, r)'
<1>0. Joined(e, w, v, r)
  BY RouteFacts
<1> DEFINE d == dst[x]
           c == buf[x]
<1>1. /\ pc[x] = "write" /\ d \in {First(x), Second(x)} /\ c \in Cells
      /\ DOMAIN pc = Workers /\ DOMAIN dst = Workers /\ DOMAIN buf = Workers
      /\ DOMAIN wire = Links
  BY DEF Write, TypeOK, Cells
<1>2. /\ \A y \in Workers \ {x} : /\ pc'[y] = pc[y] /\ dst'[y] = dst[y] /\ buf'[y] = buf[y]
                                  /\ Live(y)' = Live(y)
      /\ dst'[x] = x /\ Live(x) /\ pc'[x] # "notice"
      /\ UNCHANGED <<open, sent, got>>
  BY <1>1 DEF Write, Live
<1>3. CASE dst[x] \notin open /\ pc' = [pc EXCEPT ![x] = "done"] /\ UNCHANGED wire
  <2>1. ~Live(x)'
    BY <1>1, <1>3 DEF Live
  <2>2. /\ Live(v)' => Live(v) /\ Held(v, r)' = Held(v, r)
        /\ Live(w)' => Live(w) /\ Held(w, v)' = Held(w, v)
        /\ pc'[w] = "notice" => Live(w) \/ pc[w] = "notice"
    BY <1>0, <1>2, <2>1 DEF Joined, Held
  <2> QED BY <1>2, <1>3, <2>2, Quiet
<1>4. CASE Puts(x, d, c) /\ pc' = [pc EXCEPT ![x] = "select"]
  <2>1. /\ Live(x)'
        /\ \A l \in Links : l # <<x, d>> => wire'[l] = wire[l]
        /\ <<x, d>> \in Links => wire'[<<x, d>>] = Append(wire[<<x, d>>], c)
    BY <1>1, <1>4 DEF Live, Puts
  <2>2. CASE x = v /\ d = r
    <3>1. /\ Held(v, r) = <<c>> /\ Held(v, r)' = <<>>
          /\ wire'[<<v, r>>] = Append(wire[<<v, r>>], c)
          /\ wire'[<<w, v>>] = wire[<<w, v>>] /\ wire'[<<e, w>>] = wire[<<e, w>>]
          /\ Held(w, v)' = Held(w, v) /\ got'[r] = got[r]
      BY <1>0, <1>2, <2>1, <2>2 DEF Joined, Held
    <3>2. Delivered(v, r)' = got[r] \o Append(wire[<<v, r>>], c)
      BY <3>1 DEF Delivered
    <3>3. Delivered(v, r)' = Delivered(v, r) \o Held(v, r)
      <4>1. got[r] \in Seq(Cells) /\ wire[<<v, r>>] \in Seq(Cells)
        BY PiecesAreSequences
      <4>2. got[r] \o Append(wire[<<v, r>>], c) = (got[r] \o wire[<<v, r>>]) \o <<c>>
        BY <1>1, <4>1, AppendMoves
      <4>3. Delivered(v, r) = got[r] \o wire[<<v, r>>]
        BY DEF Delivered
      <4> QED BY <3>1, <3>2, <4>2, <4>3
    <3>4. Onward(w, v, r)' = ((Delivered(v, r) \o Held(v, r)) \o <<>>) \o wire[<<w, v>>]
      BY <3>1, <3>3 DEF Onward
    <3>5. Onward(w, v, r)' = Onward(w, v, r)
      <4>1. Delivered(v, r) \o Held(v, r) \in Seq(Cells)
        BY PiecesAreSequences
      <4> QED BY <3>4, <4>1, ConcatEmptySeq DEF Onward
    <3>6. Whole(e, w, v, r)' = Whole(e, w, v, r)
      BY <3>1, <3>5 DEF Whole
    <3>7. Live(v) /\ (Live(w)' => Live(w)) /\ pc'[w] = pc[w]
      BY <1>0, <1>2, <2>2 DEF Joined
    <3> QED BY <1>2, <3>3, <3>5, <3>6, <3>7, SameFlow
  <2>3. CASE x = w /\ d = v
    <3>1. /\ Held(w, v) = <<c>> /\ Held(w, v)' = <<>>
          /\ wire'[<<w, v>>] = Append(wire[<<w, v>>], c)
          /\ wire'[<<v, r>>] = wire[<<v, r>>] /\ wire'[<<e, w>>] = wire[<<e, w>>]
          /\ Held(v, r)' = Held(v, r) /\ got'[r] = got[r]
      BY <1>0, <1>2, <2>1, <2>3 DEF Joined, Held
    <3>2. Delivered(v, r)' = Delivered(v, r)
      BY <3>1 DEF Delivered
    <3>3. Onward(w, v, r)' = (Delivered(v, r) \o Held(v, r)) \o Append(wire[<<w, v>>], c)
      BY <3>1, <3>2 DEF Onward
    <3>4. Onward(w, v, r)' = Onward(w, v, r) \o Held(w, v)
      <4>1. Delivered(v, r) \o Held(v, r) \in Seq(Cells) /\ wire[<<w, v>>] \in Seq(Cells)
        BY PiecesAreSequences
      <4>2. (Delivered(v, r) \o Held(v, r)) \o Append(wire[<<w, v>>], c)
              = ((Delivered(v, r) \o Held(v, r)) \o wire[<<w, v>>]) \o <<c>>
        BY <1>1, <4>1, AppendMoves
      <4>3. Onward(w, v, r) = (Delivered(v, r) \o Held(v, r)) \o wire[<<w, v>>]
        BY DEF Onward
      <4> QED BY <3>1, <3>3, <4>2, <4>3
    <3>5. Whole(e, w, v, r)' = ((Onward(w, v, r) \o Held(w, v)) \o <<>>) \o wire[<<e, w>>]
      BY <3>1, <3>4 DEF Whole
    <3>6. Whole(e, w, v, r)' = Whole(e, w, v, r)
      <4>1. Onward(w, v, r) \o Held(w, v) \in Seq(Cells)
        BY PiecesAreSequences
      <4> QED BY <3>5, <4>1, ConcatEmptySeq DEF Whole
    <3>7. Live(w) /\ (Live(v)' => Live(v))
      BY <1>0, <1>2, <2>3 DEF Joined
    <3> QED BY <1>2, <3>2, <3>4, <3>6, <3>7, SameFlow
  <2>4. CASE (x = v /\ d = w) \/ (x = w /\ d = e)
    <3>1. /\ wire'[<<v, r>>] = wire[<<v, r>>] /\ wire'[<<w, v>>] = wire[<<w, v>>]
          /\ wire'[<<e, w>>] = wire[<<e, w>>]
      BY <1>0, <2>1, <2>4 DEF Joined
    <3>2. Held(v, r)' = Held(v, r) /\ Held(w, v)' = Held(w, v)
      BY <1>0, <1>2, <2>4 DEF Joined, Held
    <3>3. /\ Live(v)' => Live(v)
          /\ Live(w)' => Live(w)
          /\ pc'[w] = "notice" => Live(w) \/ pc[w] = "notice"
      BY <1>0, <1>2, <2>4 DEF Joined
    <3> QED BY <1>2, <3>1, <3>2, <3>3, Quiet
  <2> QED BY <1>0, <1>1, <2>2, <2>3, <2>4 DEF Joined
<1> QED BY <1>3, <1>4 DEF Write

\* Steps by which a worker or an end gives up.
LEMMA GivingUpRelays ==
  ASSUME TypeOK, NEW e, NEW w, NEW v, NEW r, Route(e, w, v, r), Relayed(e, w, v, r),
         \/ \E x \in Workers : Timeout(x) \/ Reap(x)
         \/ \E k \in Ends : Close(k)
         \/ WriteNotice /\ UNCHANGED wire
  PROVE  Relayed(e, w, v, r)'
<1>0. Joined(e, w, v, r)
  BY RouteFacts
<1>1. /\ UNCHANGED <<wire, buf, dst, sent, got>>
      /\ e \in open' => e \in open
  BY DEF Timeout, Reap, Close, WriteNotice
<1>2. \A y \in Workers :
        \/ pc'[y] = pc[y]
        \/ pc[y] = "select" /\ pc'[y] \in {"notice", "done"}
        \/ pc[y] \in {"notice", "done"} /\ pc'[y] \in {"done", "closed"}
  BY DEF Timeout, Reap, Close, WriteNotice, TypeOK
<1>3. /\ Live(v)' => Live(v)
      /\ Live(w)' => Live(w)
      /\ pc'[w] = "notice" => Live(w) \/ pc[w] = "notice"
  BY <1>0, <1>2 DEF Joined, Live
<1>4. Held(v, r)' = Held(v, r) /\ Held(w, v)' = Held(w, v)
  BY <1>1 DEF Held
<1> QED BY <1>1, <1>3, <1>4, Quiet

LEMMA NoticeRelays ==
  ASSUME TypeOK, NEW e, NEW w, NEW v, NEW r, Route(e, w, v, r), Relayed(e, w, v, r),
         WriteNotice
  PROVE  Relayed(e, w, v, r)'
<1>0. Joined(e, w, v, r)
  BY RouteFacts
<1>1. CASE UNCHANGED wire
  BY <1>1, GivingUpRelays
<1>2. CASE Puts("server", "client", Notice)
  <2>1. /\ pc["server"] = "notice" /\ pc' = [pc EXCEPT !["server"] = "done"]
        /\ UNCHANGED <<open, buf, dst, sent, got>>
        /\ DOMAIN pc = Workers /\ DOMAIN wire = Links
    BY DEF WriteNotice, TypeOK
  <2>2. /\ \A l \in Links : l # <<"server", "client">> => wire'[l] = wire[l]
        /\ <<"server", "client">> \in Links =>
             wire'[<<"server", "client">>] = Append(wire[<<"server", "client">>], Notice)
    BY <1>2, <2>1 DEF Puts
  <2>3. /\ Held(v, r)' = Held(v, r) /\ Held(w, v)' = Held(w, v)
        /\ Live(v)' => Live(v)
        /\ Live(w)' => Live(w)
        /\ pc'[w] = "notice" => pc[w] = "notice"
    BY <1>0, <2>1 DEF Held, Live, Joined
  <2>4. CASE e = "app"
    <3>1. /\ wire'[<<v, r>>] = wire[<<v, r>>] /\ wire'[<<w, v>>] = wire[<<w, v>>]
          /\ wire'[<<e, w>>] = wire[<<e, w>>]
      BY <1>0, <2>2, <2>4 DEF Route, Joined
    <3> QED BY <2>1, <2>3, <3>1, Quiet
  <2>5. CASE e = "target"
    <3>1. w = "server" /\ v = "client" /\ r = "app" /\ Allowed(e) = {Notice}
      BY <2>5 DEF Route, Allowed
    <3>2. /\ wire'[<<v, r>>] = wire[<<v, r>>]
          /\ wire'[<<w, v>>] = Append(wire[<<w, v>>], Notice)
          /\ pc'[w] = "done"
      BY <1>0, <2>1, <2>2, <3>1 DEF Joined
    <3>3. Delivered(v, r)' = Delivered(v, r)
      BY <2>1, <3>2 DEF Delivered
    <3>4. Onward(w, v, r)' = (Delivered(v, r) \o Held(v, r)) \o Append(wire[<<w, v>>], Notice)
      BY <2>3, <3>2, <3>3 DEF Onward
    <3>5. Onward(w, v, r)' = Onward(w, v, r) \o <<Notice>>
      <4>1. Delivered(v, r) \o Held(v, r) \in Seq(Cells) /\ wire[<<w, v>>] \in Seq(Cells)
        BY PiecesAreSequences
      <4>2. (Delivered(v, r) \o Held(v, r)) \o Append(wire[<<w, v>>], Notice)
              = ((Delivered(v, r) \o Held(v, r)) \o wire[<<w, v>>]) \o <<Notice>>
        BY <4>1, AppendMoves DEF Cells
      <4>3. Onward(w, v, r) = (Delivered(v, r) \o Held(v, r)) \o wire[<<w, v>>]
        BY DEF Onward
      <4> QED BY <3>4, <4>2, <4>3
    <3>6. Flow(Delivered(v, r), sent[e], Allowed(e))'
      BY <2>1, <3>3 DEF Relayed, Flow, Allowed
    <3>7. ASSUME Live(v)'
          PROVE  Flow(Onward(w, v, r), sent[e], Allowed(e))'
      <4>1. Flow(Onward(w, v, r), sent[e], {})
        BY <2>1, <2>3, <3>1, <3>7 DEF Relayed
      <4>2. Onward(w, v, r) \in Seq(Cells) /\ sent[e] \in Nat /\ Notice \in Cells
        BY PiecesAreSequences DEF Cells
      <4>3. Flow(Onward(w, v, r) \o <<Notice>>, sent[e], {Notice})
        BY <4>1, <4>2, FlowEnds
      <4> QED BY <2>1, <3>1, <3>5, <4>3 DEF Flow, Allowed
    <3>8. ~Live(w)' /\ pc'[w] # "notice"
      BY <3>2 DEF Live
    <3> QED BY <3>6, <3>7, <3>8 DEF Relayed
  <2> QED BY <2>4, <2>5 DEF Route
<1> QED BY <1>1, <1>2 DEF WriteNotice

LEMMA SendRelays ==
  ASSUME TypeOK, NEW e, NEW w, NEW v, NEW r, Route(e, w, v, r), Relayed(e, w, v, r),
         NEW k \in Ends, Send(k)
  PROVE  Relayed(e, w, v, r)'
<1>0. Joined(e, w, v, r)
  BY RouteFacts
<1> DEFINE n == sent[e] + 1
<1>1. /\ DOMAIN sent = Ends /\ DOMAIN wire = Links /\ sent \in [Ends -> 0..MaxSent]
      /\ UNCHANGED <<open, pc, buf, dst, got>>
      /\ sent[k] < MaxSent /\ k \in open
      /\ sent' = [sent EXCEPT ![k] = sent[k] + 1]
      /\ wire' = [wire EXCEPT ![<<k, WorkerOf(k)>>]
                    = Append(wire[<<k, WorkerOf(k)>>], sent'[k])]
  BY DEF Send, Puts, TypeOK
<1>2. /\ Held(v, r)' = Held(v, r) /\ Held(w, v)' = Held(w, v)
      /\ Live(v)' = Live(v) /\ Live(w)' = Live(w) /\ pc'[w] = pc[w]
      /\ got'[r] = got[r]
  BY <1>1 DEF Held, Live
<1>3. CASE k = r
  <2>1. /\ wire'[<<v, r>>] = wire[<<v, r>>] /\ wire'[<<w, v>>] = wire[<<w, v>>]
        /\ wire'[<<e, w>>] = wire[<<e, w>>] /\ sent'[e] = sent[e]
    BY <1>0, <1>1, <1>3 DEF Joined
  <2> QED BY <1>1, <1>2, <2>1, Quiet
<1>4. CASE k = e
  <2>1. /\ wire'[<<v, r>>] = wire[<<v, r>>] /\ wire'[<<w, v>>] = wire[<<w, v>>]
        /\ sent'[e] = n /\ wire'[<<e, w>>] = Append(wire[<<e, w>>], n)
    BY <1>0, <1>1, <1>4 DEF Joined
  <2>2. sent[e] \in Nat /\ n \in Nat /\ n \in Cells
    BY <1>0, <1>1, <1>4, BoundsAssumption DEF Joined, Cells, Chunks
  <2>3. /\ Delivered(v, r)' = Delivered(v, r) /\ Onward(w, v, r)' = Onward(w, v, r)
    BY <1>2, <2>1 DEF Delivered, Onward
  <2>4. Whole(e, w, v, r)' = (Onward(w, v, r) \o Held(w, v)) \o Append(wire[<<e, w>>], n)
    BY <1>2, <2>1, <2>3 DEF Whole
  <2>5. Whole(e, w, v, r)' = Whole(e, w, v, r) \o <<n>>
    <3>1. Onward(w, v, r) \o Held(w, v) \in Seq(Cells) /\ wire[<<e, w>>] \in Seq(Cells)
      BY PiecesAreSequences
    <3>2. (Onward(w, v, r) \o Held(w, v)) \o Append(wire[<<e, w>>], n)
            = ((Onward(w, v, r) \o Held(w, v)) \o wire[<<e, w>>]) \o <<n>>
      BY <2>2, <3>1, AppendMoves
    <3>3. Whole(e, w, v, r) = (Onward(w, v, r) \o Held(w, v)) \o wire[<<e, w>>]
      BY DEF Whole
    <3> QED BY <2>4, <3>2, <3>3
  <2>6. ASSUME NEW s \in Seq(Cells), NEW N, Flow(s, sent[e], N)
        PROVE  Flow(s, n, N)
    BY <2>2, <2>6 DEF Flow
  <2>7. Flow(Delivered(v, r), sent[e], Allowed(e))'
    <3>1. Flow(Delivered(v, r), n, Allowed(e))
      BY <2>6, PiecesAreSequences DEF Relayed
    <3> QED BY <2>1, <2>3, <3>1 DEF Flow, Allowed
  <2>8. ASSUME Live(v)
        PROVE  /\ Flow(Onward(w, v, r), sent[e], Allowed(e))'
               /\ pc[w] = "notice" => Flow(Onward(w, v, r), sent[e], {})'
    <3>1. /\ Flow(Onward(w, v, r), n, Allowed(e))
          /\ pc[w] = "notice" => Flow(Onward(w, v, r), n, {})
      BY <2>6, <2>8, PiecesAreSequences DEF Relayed
    <3> QED BY <2>1, <2>3, <3>1 DEF Flow, Allowed
  <2>9. ASSUME Live(v), Live(w)
        PROVE  /\ Flow(Whole(e, w, v, r), sent[e], {})'
               /\ Len(Whole(e, w, v, r))' = sent'[e]
    <3>1. Whole(e, w, v, r) \in Seq(Cells)
      BY PiecesAreSequences
    <3>2. Flow(Whole(e, w, v, r), sent[e], {}) /\ Len(Whole(e, w, v, r)) = sent[e]
      BY <1>1, <1>4, <2>9 DEF Relayed
    <3>3. Flow(Whole(e, w, v, r), n, {})
      BY <2>6, <3>1, <3>2
    <3>4. Flow(Whole(e, w, v, r) \o <<n>>, n, {})
      BY <2>2, <3>1, <3>2, <3>3, FlowEnds
    <3>5. Len(Whole(e, w, v, r) \o <<n>>) = n
      BY <2>2, <3>1, <3>2
    <3> QED BY <2>1, <2>5, <3>4, <3>5 DEF Flow
  <2> QED BY <1>2, <2>7, <2>8, <2>9 DEF Relayed
<1> QED BY <1>0, <1>3, <1>4 DEF Joined

LEMMA ReceiveRelays ==
  ASSUME TypeOK, NEW e, NEW w, NEW v, NEW r, Route(e, w, v, r), Relayed(e, w, v, r),
         NEW k \in Ends, Receive(k)
  PROVE  Relayed(e, w, v, r)'
<1>0. Joined(e, w, v, r)
  BY RouteFacts
<1>1. /\ DOMAIN got = Ends /\ DOMAIN wire = Links /\ wire[<<WorkerOf(k), k>>] # <<>>
      /\ UNCHANGED <<open, pc, buf, dst, sent>>
      /\ got' = [got EXCEPT ![k] = Append(got[k], Head(wire[<<WorkerOf(k), k>>]))]
      /\ wire' = [wire EXCEPT ![<<WorkerOf(k), k>>] = Tail(wire[<<WorkerOf(k), k>>])]
  BY DEF Receive, Takes, TypeOK
<1>2. /\ Held(v, r)' = Held(v, r) /\ Held(w, v)' = Held(w, v)
      /\ Live(v)' = Live(v) /\ Live(w)' = Live(w) /\ pc'[w] = pc[w]
      /\ sent'[e] = sent[e]
  BY <1>1 DEF Held, Live
<1>3. CASE k = e
  <2>1. /\ wire'[<<v, r>>] = wire[<<v, r>>] /\ wire'[<<w, v>>] = wire[<<w, v>>]
        /\ wire'[<<e, w>>] = wire[<<e, w>>] /\ got'[r] = got[r]
    BY <1>0, <1>1, <1>3 DEF Joined
  <2> QED BY <1>1, <1>2, <2>1, Quiet
<1>4. CASE k = r
  <2> DEFINE t == wire[<<v, r>>]
  <2>1. /\ wire'[<<v, r>>] = Tail(t) /\ wire'[<<w, v>>] = wire[<<w, v>>]
        /\ wire'[<<e, w>>] = wire[<<e, w>>] /\ got'[r] = Append(got[r], Head(t))
        /\ t # <<>>
    BY <1>0, <1>1, <1>4 DEF Joined
  <2>2. got[r] \in Seq(Cells) /\ t \in Seq(Cells) /\ Head(t) \in Cells
    BY <2>1, PiecesAreSequences, HeadTailProperties
  <2>3. Append(got[r], Head(t)) \o Tail(t) = got[r] \o t
    <3>1. Append(got[r], Head(t)) = got[r] \o <<Head(t)>>
      BY <2>2, AppendMoves
    <3> QED BY <2>1, <2>2, <3>1, HeadMoves
  <2>4. Delivered(v, r)' = Delivered(v, r)
    BY <2>1, <2>3 DEF Delivered
  <2>5. Onward(w, v, r)' = Onward(w, v, r)
    BY <1>2, <2>1, <2>4 DEF Onward
  <2>6. Whole(e, w, v, r)' = Whole(e, w, v, r)
    BY <1>2, <2>1, <2>5 DEF Whole
  <2> QED BY <1>1, <1>2, <2>4, <2>5, <2>6, SameFlow
<1> QED BY <1>0, <1>3, <1>4 DEF Joined

\* A reset cuts a wire of a node that has closed, and that relays nothing more.
LEMMA ResetRelays ==
  ASSUME TypeOK, NEW e, NEW w, NEW v, NEW r, Route(e, w, v, r), Relayed(e, w, v, r),
         NEW l \in Links, Reset(l[1], l[2])
  PROVE  Relayed(e, w, v, r)'
<1>0. Joined(e, w, v, r)
  BY RouteFacts
<1>1. l = <<l[1], l[2]>>
  BY LinksAre
<1>2. PICK n \in 0..(Len(wire[l]) - 1) : wire' = [wire EXCEPT ![l] = SubSeq(wire[l], 1, n)]
  BY <1>1 DEF Reset
<1>3. /\ DOMAIN wire = Links /\ l[1] \notin open
      /\ UNCHANGED <<open, pc, buf, dst, sent, got>>
      /\ \A y \in Workers : y \notin open => ~Live(y) /\ pc[y] # "notice"
      /\ wire[l] \in Seq(Cells) /\ n \in 0..Len(wire[l])
  <2>1. wire[l] \in Seq(Cells)
    BY DEF TypeOK, Cells
  <2> QED BY <2>1 DEF Reset, TypeOK, Live
<1>4. /\ Held(v, r)' = Held(v, r) /\ Held(w, v)' = Held(w, v)
      /\ Live(v)' = Live(v) /\ Live(w)' = Live(w) /\ pc'[w] = pc[w]
      /\ sent'[e] = sent[e] /\ got'[r] = got[r]
  BY <1>3 DEF Held, Live
<1>5. CASE l = <<v, r>>
  <2>1. wire'[<<v, r>>] = SubSeq(wire[<<v, r>>], 1, n) /\ ~Live(v)'
    BY <1>0, <1>2, <1>3, <1>4, <1>5 DEF Joined
  <2>2. Delivered(v, r)' = got[r] \o SubSeq(wire[<<v, r>>], 1, n)
    BY <1>4, <2>1 DEF Delivered
  <2>3. Flow(got[r] \o SubSeq(wire[<<v, r>>], 1, n), sent[e], Allowed(e))
    <3>1. Flow(got[r] \o wire[<<v, r>>], sent[e], Allowed(e))
      BY DEF Relayed, Delivered
    <3> QED BY <1>3, <1>5, <3>1, PiecesAreSequences, FlowCut
  <2>4. Flow(Delivered(v, r), sent[e], Allowed(e))'
    BY <1>4, <2>2, <2>3 DEF Flow, Allowed
  <2> QED BY <2>1, <2>4 DEF Relayed
<1>6. CASE l = <<w, v>>
  <2> DEFINE D == Delivered(v, r) \o Held(v, r)
             cut == SubSeq(wire[<<w, v>>], 1, n)
  <2>1. /\ wire'[<<w, v>>] = cut /\ ~Live(w)' /\ pc'[w] # "notice"
        /\ wire'[<<v, r>>] = wire[<<v, r>>]
    BY <1>0, <1>2, <1>3, <1>4, <1>6 DEF Joined
  <2>2. Delivered(v, r)' = Delivered(v, r)
    BY <1>4, <2>1 DEF Delivered
  <2>3. Onward(w, v, r)' = D \o cut
    BY <1>4, <2>1, <2>2 DEF Onward
  <2>4. ASSUME Live(v)
        PROVE  Flow(Onward(w, v, r), sent[e], Allowed(e))'
    <3>1. Flow(D \o wire[<<w, v>>], sent[e], Allowed(e))
      BY <2>4 DEF Relayed, Onward
    <3>2. D \in Seq(Cells)
      BY PiecesAreSequences
    <3>3. Flow(D \o cut, sent[e], Allowed(e))
      BY <1>3, <1>6, <3>1, <3>2, PiecesAreSequences, FlowCut
    <3> QED BY <1>4, <2>3, <3>3 DEF Flow, Allowed
  <2>5. Flow(Delivered(v, r), sent[e], Allowed(e))'
    BY <1>4, <2>2 DEF Relayed, Flow, Allowed
  <2> QED BY <1>4, <2>1, <2>4, <2>5 DEF Relayed
<1>7. CASE l = <<e, w>>
  <2> DEFINE D == Onward(w, v, r) \o Held(w, v)
             cut == SubSeq(wire[<<e, w>>], 1, n)
  <2>1. /\ wire'[<<e, w>>] = cut /\ e \notin open'
        /\ wire'[<<v, r>>] = wire[<<v, r>>] /\ wire'[<<w, v>>] = wire[<<w, v>>]
    BY <1>0, <1>2, <1>3, <1>7 DEF Joined
  <2>2. Delivered(v, r)' = Delivered(v, r) /\ Onward(w, v, r)' = Onward(w, v, r)
    BY <1>4, <2>1 DEF Delivered, Onward
  <2>3. Whole(e, w, v, r)' = D \o cut
    BY <1>4, <2>1, <2>2 DEF Whole
  <2>4. ASSUME Live(v), Live(w)
        PROVE  Flow(Whole(e, w, v, r), sent[e], {})'
    <3>1. Flow(D \o wire[<<e, w>>], sent[e], {})
      BY <2>4 DEF Relayed, Whole
    <3>2. D \in Seq(Cells)
      BY PiecesAreSequences
    <3>3. Flow(D \o cut, sent[e], {})
      BY <1>3, <1>7, <3>1, <3>2, PiecesAreSequences, FlowCut
    <3> QED BY <1>4, <2>3, <3>3 DEF Flow
  <2>5. /\ Flow(Delivered(v, r), sent[e], Allowed(e))'
        /\ Live(v) => /\ Flow(Onward(w, v, r), sent[e], Allowed(e))'
                      /\ pc[w] = "notice" => Flow(Onward(w, v, r), sent[e], {})'
    BY <1>4, <2>2 DEF Relayed, Flow, Allowed
  <2> QED BY <1>4, <2>1, <2>4, <2>5 DEF Relayed
<1>8. CASE l \notin {<<v, r>>, <<w, v>>, <<e, w>>}
  <2>1. /\ wire'[<<v, r>>] = wire[<<v, r>>] /\ wire'[<<w, v>>] = wire[<<w, v>>]
        /\ wire'[<<e, w>>] = wire[<<e, w>>]
    BY <1>0, <1>2, <1>3, <1>8 DEF Joined
  <2> QED BY <1>3, <1>4, <2>1, Quiet
<1> QED BY <1>5, <1>6, <1>7, <1>8

LEMMA InitRelays ==
  ASSUME Init, NEW e, NEW w, NEW v, NEW r, Route(e, w, v, r)
  PROVE  Relayed(e, w, v, r)
<1>1. Joined(e, w, v, r)
  BY RouteFacts
<1>2. /\ got[r] = <<>> /\ wire[<<v, r>>] = <<>> /\ wire[<<w, v>>] = <<>>
      /\ wire[<<e, w>>] = <<>> /\ sent[e] = 0
      /\ Held(v, r) = <<>> /\ Held(w, v) = <<>>
  BY <1>1 DEF Joined, Init, Held
<1>3. <<>> \o <<>> = <<>> /\ Len(<<>>) = 0
  OBVIOUS
<1>4. Delivered(v, r) = <<>> /\ Onward(w, v, r) = <<>> /\ Whole(e, w, v, r) = <<>>
  BY <1>2, <1>3 DEF Delivered, Onward, Whole
<1> QED BY <1>2, <1>3, <1>4 DEF Relayed, Flow

LEMMA RelayedInductive ==
  ASSUME TypeOK, [Next]_vars,
         NEW e, NEW w, NEW v, NEW r, Route(e, w, v, r), Relayed(e, w, v, r)
  PROVE  Relayed(e, w, v, r)'
<1>1. CASE UNCHANGED vars
  BY <1>1, Quiet DEF vars, Live, Held
<1>2. ASSUME NEW x \in Workers, WorkerStep(x)
      PROVE  Relayed(e, w, v, r)'
  BY <1>2, ReadRelays, WriteRelays, GivingUpRelays DEF WorkerStep, Loop
<1>3. ASSUME NEW k \in Ends, Send(k) \/ Receive(k) \/ Close(k)
      PROVE  Relayed(e, w, v, r)'
  BY <1>3, SendRelays, ReceiveRelays, GivingUpRelays
<1> QED BY <1>1, <1>2, <1>3, NoticeRelays, ResetRelays DEF Next

LEMMA TheRoutes == /\ Route("app", "client", "server", "target")
                   /\ Route("target", "server", "client", "app")
BY DEF Route

\* In both directions, as long as the workers in between relay, what is under way
\* is 1, 2, 3, ..., and only the notice of a timeout ends it.
THEOREM FlowInductive == Spec => []IInv
<1>1. Init => IInv
  BY InitTypes, InitRelays, TheRoutes DEF IInv
<1>2. IInv /\ [Next]_vars => IInv'
  BY TypesInductive, RelayedInductive, TheRoutes DEF IInv
<1> QED BY <1>1, <1>2, PTL DEF Spec

----------------------------------------------------------------------------
(* The two directions implement Pipe. *)

\* What a step of the tunnel is to one of its directions: something is sent, or
\* the next chunk or a notice is received, a notice only as the last thing.
NotEnded(r, N) == ~(got[r] # <<>> /\ got[r][Len(got[r])] \in N)
PipeStep(e, r) ==
  \/ sent'[e] = sent[e] + 1 /\ got'[r] = got[r]
  \/ /\ NotEnded(r, Allowed(e)) /\ sent'[e] = sent[e]
     /\ \/ Len(got[r]) < sent[e] /\ got'[r] = Append(got[r], Len(got[r]) + 1)
        \/ \E n \in Allowed(e) : got'[r] = Append(got[r], n)
  \/ sent'[e] = sent[e] /\ got'[r] = got[r]

\* Where two sequences meet.
LEMMA Seam ==
  ASSUME NEW s \in Seq(Cells), NEW t \in Seq(Cells), t # <<>>
  PROVE  /\ Len(s) \in Nat /\ Len(s) + 1 \in 1..Len(s \o t) /\ (s \o t)[Len(s) + 1] = Head(t)
         /\ s # <<>> => /\ Len(s) \in 1..Len(s \o t) /\ Len(s) # Len(s \o t)
                        /\ (s \o t)[Len(s)] = s[Len(s)]
<1>1. Len(s) \in Nat /\ Len(t) \in Nat /\ Len(t) # 0 /\ (s # <<>> => Len(s) # 0)
  BY EmptySeq
<1>2. /\ Len(s \o t) = Len(s) + Len(t)
      /\ \A i \in 1..(Len(s) + Len(t)) :
           (s \o t)[i] = IF i <= Len(s) THEN s[i] ELSE t[i - Len(s)]
  BY ConcatProperties
<1>3. Head(t) = t[1]
  BY <1>1
<1>4. Len(s) + 1 \in 1..Len(s \o t) /\ (s \o t)[Len(s) + 1] = t[1]
  BY <1>1, <1>2
<1>5. s # <<>> => /\ Len(s) \in 1..Len(s \o t) /\ Len(s) # Len(s \o t)
                 /\ (s \o t)[Len(s)] = s[Len(s)]
  BY <1>1, <1>2
<1> QED BY <1>1, <1>3, <1>4, <1>5

LEMMA ReceiveIsAPipeStep ==
  ASSUME TypeOK, NEW e, NEW w, NEW v, NEW r, Route(e, w, v, r), Relayed(e, w, v, r),
         Receive(r)
  PROVE  PipeStep(e, r)
<1> DEFINE t == wire[<<v, r>>]
           g == got[r]
<1>0. Joined(e, w, v, r)
  BY RouteFacts
<1>1. /\ t # <<>> /\ sent'[e] = sent[e] /\ got'[r] = Append(g, Head(t))
  BY <1>0 DEF Receive, Joined, TypeOK
<1>2. g \in Seq(Cells) /\ t \in Seq(Cells) /\ sent[e] \in Nat
  BY PiecesAreSequences
<1>3. /\ Len(g) \in Nat /\ Len(g) + 1 \in 1..Len(g \o t) /\ (g \o t)[Len(g) + 1] = Head(t)
      /\ g # <<>> => /\ Len(g) \in 1..Len(g \o t) /\ Len(g) # Len(g \o t)
                     /\ (g \o t)[Len(g)] = g[Len(g)]
  BY <1>1, <1>2, Seam
<1>4. Flow(g \o t, sent[e], Allowed(e))
  BY DEF Relayed, Delivered
<1>5. NotEnded(r, Allowed(e))
  <2>1. SUFFICES ASSUME g # <<>>, g[Len(g)] \in Allowed(e)
                 PROVE  FALSE
    BY DEF NotEnded
  <2>2. g[Len(g)] = Len(g)
    BY <1>3, <1>4, <2>1 DEF Flow
  <2>3. Len(g) = 0
    BY <2>1, <2>2 DEF Allowed, Notice
  <2> QED BY <1>3, <2>1, <2>3
<1>7. (Head(t) = Len(g) + 1 /\ Len(g) + 1 <= sent[e]) \/ Head(t) \in Allowed(e)
  BY <1>3, <1>4 DEF Flow
<1>8. CASE Head(t) = Len(g) + 1 /\ Len(g) + 1 <= sent[e]
  <2>1. Len(g) < sent[e]
    BY <1>2, <1>3, <1>8
  <2> QED BY <1>1, <1>5, <1>8, <2>1 DEF PipeStep
<1>9. CASE Head(t) \in Allowed(e)
  BY <1>1, <1>5, <1>9 DEF PipeStep
<1> QED BY <1>7, <1>8, <1>9

LEMMA StepsArePipeSteps ==
  ASSUME TypeOK, [Next]_vars,
         NEW e, NEW w, NEW v, NEW r, Route(e, w, v, r), Relayed(e, w, v, r)
  PROVE  PipeStep(e, r)
<1>0. Joined(e, w, v, r)
  BY RouteFacts
<1>1. CASE UNCHANGED <<sent, got>>
  BY <1>1 DEF PipeStep
<1>2. ASSUME NEW k \in Ends, Send(k)
      PROVE  PipeStep(e, r)
  <2>1. /\ sent' = [sent EXCEPT ![k] = sent[k] + 1] /\ got' = got /\ DOMAIN sent = Ends
    BY <1>2 DEF Send, TypeOK
  <2> QED BY <1>0, <2>1 DEF Joined, PipeStep
<1>3. ASSUME NEW k \in Ends, Receive(k)
      PROVE  PipeStep(e, r)
  <2>1. CASE k = r
    BY <1>3, <2>1, ReceiveIsAPipeStep
  <2>2. CASE k = e
    BY <1>0, <1>3, <2>2 DEF Receive, TypeOK, Joined, PipeStep
  <2> QED BY <1>0, <2>1, <2>2 DEF Joined
<1> QED BY <1>1, <1>2, <1>3
    DEF Next, vars, WorkerStep, Loop, ReadFirst, ReadSecond, Write, Timeout, Reap,
        WriteNotice, Close, Reset

\* What the application sends reaches the target in its order, none of it twice
\* and nothing else, whatever the connections hold and whoever closes or times out.
THEOREM UpRefines == Spec => UpPipe
<1>1. Init => Up!Init
  BY DEF Init, Up!Init, Ends
<1>2. IInv /\ [Next]_vars => [Up!Next]_(Up!vars)
  <2> SUFFICES ASSUME IInv, [Next]_vars
               PROVE  [Up!Next]_(Up!vars)
    OBVIOUS
  <2>1. PipeStep("app", "target") /\ Allowed("app") = {}
    BY StepsArePipeSteps, TheRoutes DEF IInv, Allowed
  <2> QED BY <2>1 DEF PipeStep, NotEnded, Up!Next, Up!Send, Up!Deliver, Up!Ended, Up!vars
<1> QED BY <1>1, <1>2, FlowInductive, PTL DEF Spec, UpPipe, Up!Spec

\* The same from the target to the application, which may get a notice of the
\* timeout besides: once, and as the last thing.
THEOREM DownRefines == Spec => DownPipe
<1>1. Init => Down!Init
  BY DEF Init, Down!Init, Ends
<1>2. IInv /\ [Next]_vars => [Down!Next]_(Down!vars)
  <2> SUFFICES ASSUME IInv, [Next]_vars
               PROVE  [Down!Next]_(Down!vars)
    OBVIOUS
  <2>1. PipeStep("target", "app") /\ Allowed("target") = {Notice}
    BY StepsArePipeSteps, TheRoutes DEF IInv, Allowed
  <2> QED BY <2>1 DEF PipeStep, NotEnded, Down!Next, Down!Send, Down!Deliver, Down!Notify,
                      Down!Ended, Down!vars
<1> QED BY <1>1, <1>2, FlowInductive, PTL DEF Spec, DownPipe, Down!Spec

----------------------------------------------------------------------------
(* A tunnel that has not timed out delivers everything. *)

\* As long as no select() has timed out there is no notice anywhere.
Unnoticed ==
  idled = {} =>
    /\ wire \in [Links -> Seq(Chunks)] /\ buf \in [Workers -> {None} \cup Chunks]
    /\ got \in [Ends -> Seq(Chunks)] /\ pc["server"] # "notice"

LEMMA PutsClean ==
  ASSUME wire \in [Links -> Seq(Chunks)], NEW x, NEW y, <<x, y>> \in Links,
         NEW c \in Chunks, Puts(x, y, c)
  PROVE  wire' \in [Links -> Seq(Chunks)]
BY DEF Puts

LEMMA TakesClean ==
  ASSUME wire \in [Links -> Seq(Chunks)], NEW x, NEW y, <<x, y>> \in Links,
         wire[<<x, y>>] # <<>>, Takes(x, y)
  PROVE  wire' \in [Links -> Seq(Chunks)] /\ Head(wire[<<x, y>>]) \in Chunks
<1>1. Head(wire[<<x, y>>]) \in Chunks /\ Tail(wire[<<x, y>>]) \in Seq(Chunks)
  BY HeadTailProperties
<1> QED BY <1>1 DEF Takes

LEMMA ReadClean ==
  ASSUME TypeOK, Unnoticed, NEW k \in Workers, NEW x, NEW y,
         <<x, k>> \in Links, pc[k] = "select", Reads(k, x, y), UNCHANGED <<idled, got>>
  PROVE  Unnoticed'
<1> SUFFICES ASSUME idled' = {} PROVE Unnoticed'
  BY DEF Unnoticed
<1>1. /\ wire \in [Links -> Seq(Chunks)] /\ buf \in [Workers -> {None} \cup Chunks]
      /\ got \in [Ends -> Seq(Chunks)] /\ pc["server"] # "notice"
      /\ DOMAIN pc = Workers
  BY DEF Unnoticed, TypeOK
<1>2. CASE wire[<<x, k>>] # <<>>
  <2>1. /\ Takes(x, k) /\ buf' = [buf EXCEPT ![k] = Head(wire[<<x, k>>])]
        /\ pc' = [pc EXCEPT ![k] = "write"]
    BY <1>2 DEF Reads
  <2>2. wire' \in [Links -> Seq(Chunks)] /\ Head(wire[<<x, k>>]) \in Chunks
    BY <1>1, <1>2, <2>1, TakesClean
  <2>3. buf' \in [Workers -> {None} \cup Chunks]
    BY <1>1, <2>1, <2>2
  <2> QED BY <1>1, <2>1, <2>2, <2>3 DEF Unnoticed
<1>3. CASE wire[<<x, k>>] = <<>>
  <2>1. UNCHANGED <<wire, buf>> /\ pc' = [pc EXCEPT ![k] = "done"]
    BY <1>3 DEF Reads
  <2> QED BY <1>1, <2>1 DEF Unnoticed, Workers
<1> QED BY <1>2, <1>3

LEMMA UnnoticedInductive ==
  ASSUME TypeOK, Unnoticed, [Next]_vars
  PROVE  Unnoticed'
<1> SUFFICES ASSUME idled' = {} PROVE Unnoticed'
  BY DEF Unnoticed
<1>0. ASSUME idled = {}
      PROVE  /\ wire \in [Links -> Seq(Chunks)] /\ buf \in [Workers -> {None} \cup Chunks]
             /\ got \in [Ends -> Seq(Chunks)] /\ pc["server"] # "notice"
             /\ DOMAIN pc = Workers /\ DOMAIN sent = Ends
  BY <1>0 DEF Unnoticed, TypeOK
<1>1. ASSUME NEW k \in Workers, WorkerStep(k)
      PROVE  Unnoticed'
  <2>1. CASE ReadFirst(k)
    BY <2>1, Peers, ReadClean DEF ReadFirst
  <2>2. CASE ReadSecond(k)
    BY <2>2, Peers, ReadClean DEF ReadSecond
  <2>3. CASE Write(k)
    <3>1. /\ idled = {} /\ got' = got /\ pc[k] = "write" /\ dst[k] \in {First(k), Second(k)}
          /\ buf[k] # None /\ <<k, dst[k]>> \in Links
          /\ buf' = [buf EXCEPT ![k] = None]
      BY <2>3, Peers DEF Write, TypeOK
    <3>2. buf[k] \in Chunks
      BY <1>0, <3>1
    <3>3. wire' \in [Links -> Seq(Chunks)]
      BY <1>0, <2>3, <3>1, <3>2, PutsClean DEF Write
    <3>4. pc'["server"] # "notice"
      BY <1>0, <2>3, <3>1 DEF Write, Workers
    <3> QED BY <1>0, <3>1, <3>3, <3>4 DEF Unnoticed
  <2>4. CASE Timeout(k)
    BY <2>4 DEF Timeout
  <2>5. CASE Reap(k)
    BY <1>0, <2>5 DEF Reap, Unnoticed, Workers
  <2> QED BY <1>1, <2>1, <2>2, <2>3, <2>4, <2>5 DEF WorkerStep, Loop
<1>2. CASE WriteNotice
  BY <1>0, <1>2 DEF WriteNotice
<1>3. ASSUME NEW k \in Ends, Send(k)
      PROVE  Unnoticed'
  <2>1. idled = {} /\ UNCHANGED <<got, buf, pc>>
    BY <1>3 DEF Send
  <2>2. sent'[k] \in Chunks
    BY <1>3, BoundsAssumption DEF Send, TypeOK, Chunks
  <2>3. wire' \in [Links -> Seq(Chunks)]
    BY <1>0, <1>3, <2>1, <2>2, EndLinks, PutsClean DEF Send
  <2> QED BY <1>0, <2>1, <2>3 DEF Unnoticed
<1>4. ASSUME NEW k \in Ends, Receive(k)
      PROVE  Unnoticed'
  <2>1. idled = {} /\ UNCHANGED <<buf, pc>>
    BY <1>4 DEF Receive
  <2>2. wire' \in [Links -> Seq(Chunks)] /\ Head(wire[<<WorkerOf(k), k>>]) \in Chunks
    BY <1>0, <1>4, <2>1, EndLinks, TakesClean DEF Receive
  <2>3. got' \in [Ends -> Seq(Chunks)]
    BY <1>0, <1>4, <2>1, <2>2 DEF Receive
  <2> QED BY <1>0, <2>1, <2>2, <2>3 DEF Unnoticed
<1>5. ASSUME NEW l \in Links, Reset(l[1], l[2])
      PROVE  Unnoticed'
  <2>1. idled = {} /\ UNCHANGED <<buf, pc, got>> /\ l = <<l[1], l[2]>>
    BY <1>5, LinksAre DEF Reset
  <2>2. PICK n \in 0..(Len(wire[l]) - 1) : wire' = [wire EXCEPT ![l] = SubSeq(wire[l], 1, n)]
    BY <1>5, <2>1 DEF Reset
  <2>3. wire[l] \in Seq(Chunks) /\ n \in 0..Len(wire[l])
    BY <1>0, <2>1
  <2>4. SubSeq(wire[l], 1, n) \in Seq(Chunks)
    BY <2>3, Prefixes
  <2> QED BY <1>0, <2>1, <2>2, <2>4 DEF Unnoticed
<1>6. CASE UNCHANGED vars \/ (\E k \in Ends : Close(k))
  BY <1>0, <1>6 DEF vars, Close, Unnoticed
<1> QED BY <1>1, <1>2, <1>3, <1>4, <1>5, <1>6 DEF Next

\* How much has reached the end r, the worker v, and all that is under way.
Held1(w, y) == IF dst[w] = y THEN 1 ELSE 0
NDelivered(v, r) == Len(got[r]) + Len(wire[<<v, r>>])
NOnward(w, v, r) == NDelivered(v, r) + Held1(v, r) + Len(wire[<<w, v>>])
NWhole(e, w, v, r) == NOnward(w, v, r) + Held1(w, v) + Len(wire[<<e, w>>])

\* Nothing is under way from e to r.
Idle(e, w, v, r) ==
  /\ wire[<<v, r>>] = <<>> /\ wire[<<w, v>>] = <<>> /\ wire[<<e, w>>] = <<>>
  /\ dst[v] # r /\ dst[w] # v

\* The end e has closed and nothing is under way to it: what it sent is with those
\* who still relay, and all of it is on the last wire when nobody does.
Drained(e, w, v, r) ==
  /\ Idle(r, v, w, e)
  /\ Live(w) => Live(v) /\ NWhole(e, w, v, r) = sent[e]
  /\ Live(v) => Live(w) \/ NOnward(w, v, r) = sent[e]
  /\ ~Live(v) => NDelivered(v, r) = sent[e]

Drains(e, w, v, r) ==
  idled = {} =>
    /\ e \in open /\ r \in open => Live(w) /\ Live(v)
    /\ e \notin open /\ r \in open /\ Len(got[e]) = sent[r] => Drained(e, w, v, r)

LEMMA ConcatLength ==
  ASSUME NEW s \in Seq(Cells), NEW t \in Seq(Cells), NEW m, Len(s) = m
  PROVE  m \in Nat /\ Len(t) \in Nat /\ Len(s \o t) = m + Len(t)
<1>1. Len(s) \in Nat /\ Len(t) \in Nat
  OBVIOUS
<1>2. Len(s \o t) = Len(s) + Len(t)
  BY ConcatProperties
<1> QED BY <1>1, <1>2

LEMMA Lengths ==
  ASSUME TypeOK, NEW e, NEW w, NEW v, NEW r, Route(e, w, v, r)
  PROVE  /\ Len(got[r]) \in Nat /\ sent[e] \in Nat
         /\ Len(wire[<<v, r>>]) \in Nat /\ Len(wire[<<w, v>>]) \in Nat
         /\ Len(wire[<<e, w>>]) \in Nat
         /\ Len(Delivered(v, r)) = NDelivered(v, r)
         /\ Len(Whole(e, w, v, r)) = NWhole(e, w, v, r)
<1>1. /\ Delivered(v, r) \in Seq(Cells) /\ Held(v, r) \in Seq(Cells)
      /\ wire[<<w, v>>] \in Seq(Cells) /\ Delivered(v, r) \o Held(v, r) \in Seq(Cells)
      /\ Onward(w, v, r) \in Seq(Cells) /\ Held(w, v) \in Seq(Cells)
      /\ Onward(w, v, r) \o Held(w, v) \in Seq(Cells) /\ wire[<<e, w>>] \in Seq(Cells)
      /\ got[r] \in Seq(Cells) /\ wire[<<v, r>>] \in Seq(Cells) /\ sent[e] \in Nat
  BY PiecesAreSequences
<1>2. Len(Held(v, r)) = Held1(v, r) /\ Len(Held(w, v)) = Held1(w, v)
  BY DEF Held, Held1
<1>3. Len(Delivered(v, r)) = NDelivered(v, r)
  BY <1>1, ConcatLength DEF Delivered, NDelivered
<1>4. Len(Onward(w, v, r)) = NOnward(w, v, r)
  <2>1. Len(Delivered(v, r) \o Held(v, r)) = NDelivered(v, r) + Held1(v, r)
    BY <1>1, <1>2, <1>3, ConcatLength
  <2>2. Len((Delivered(v, r) \o Held(v, r)) \o wire[<<w, v>>])
          = (NDelivered(v, r) + Held1(v, r)) + Len(wire[<<w, v>>])
    <3> DEFINE s == Delivered(v, r) \o Held(v, r)
               n == NDelivered(v, r) + Held1(v, r)
    <3>1. s \in Seq(Cells) /\ wire[<<w, v>>] \in Seq(Cells) /\ Len(s) = n
      BY <1>1, <2>1
    <3> HIDE DEF s, n
    <3>2. Len(s \o wire[<<w, v>>]) = n + Len(wire[<<w, v>>])
      BY <3>1, ConcatLength
    <3> QED BY <3>2 DEF s, n
  <2> QED BY <2>2 DEF Onward, NOnward
<1>5. Len(Whole(e, w, v, r)) = NWhole(e, w, v, r)
  <2>1. Len(Onward(w, v, r) \o Held(w, v)) = NOnward(w, v, r) + Held1(w, v)
    BY <1>1, <1>2, <1>4, ConcatLength
  <2> QED BY <1>1, <2>1, ConcatLength DEF Whole, NWhole
<1>6. Len(got[r]) \in Nat /\ Len(wire[<<v, r>>]) \in Nat /\ Len(wire[<<w, v>>]) \in Nat
  BY <1>1, ConcatLength
<1> QED BY <1>1, <1>3, <1>5, <1>6, ConcatLength

\* A wire that gains or loses a chunk.
LEMMA LengthSteps ==
  ASSUME NEW t \in Seq(Cells)
  PROVE  /\ Len(t) \in Nat /\ Len(t) = 0 <=> t = <<>>
         /\ \A c : Len(Append(t, c)) = Len(t) + 1
         /\ t # <<>> => Len(Tail(t)) = Len(t) - 1
BY EmptySeq

LEMMA OtherWay ==
  ASSUME NEW e, NEW w, NEW v, NEW r, Route(e, w, v, r)
  PROVE  Route(r, v, w, e)
BY DEF Route

\* When the application or the target closes, all it sent is under way, and what
\* it has read is all that was sent to it.
LEMMA CloseDrains ==
  ASSUME TypeOK, NEW e, NEW w, NEW v, NEW r, Route(e, w, v, r),
         Relayed(e, w, v, r), Relayed(r, v, w, e), Live(w), Live(v),
         e \in open, r \in open, Len(got[e]) = sent[r]
  PROVE  Drained(e, w, v, r)
<1>1. Route(r, v, w, e)
  BY OtherWay
<1>2. Len(Whole(e, w, v, r)) = sent[e] /\ Len(Whole(r, v, w, e)) = sent[r]
  BY DEF Relayed
<1>3. NWhole(e, w, v, r) = sent[e] /\ NWhole(r, v, w, e) = sent[r]
  BY <1>1, <1>2, Lengths
<1>4. /\ Len(got[e]) \in Nat /\ Len(wire[<<w, e>>]) \in Nat /\ Len(wire[<<v, w>>]) \in Nat
      /\ Len(wire[<<r, v>>]) \in Nat
  BY <1>1, Lengths
<1>5. /\ Len(wire[<<w, e>>]) = 0 /\ Len(wire[<<v, w>>]) = 0 /\ Len(wire[<<r, v>>]) = 0
      /\ Held1(w, e) = 0 /\ Held1(v, w) = 0
  <2>1. Held1(w, e) \in Nat /\ Held1(v, w) \in Nat
    BY DEF Held1
  <2>2. ((((Len(got[e]) + Len(wire[<<w, e>>])) + Held1(w, e)) + Len(wire[<<v, w>>]))
          + Held1(v, w)) + Len(wire[<<r, v>>]) = Len(got[e])
    BY <1>3 DEF NWhole, NOnward, NDelivered
  <2> DEFINE g == Len(got[e])
             a == Len(wire[<<w, e>>])
             b == Len(wire[<<v, w>>])
             c == Len(wire[<<r, v>>])
             h == Held1(w, e)
             k == Held1(v, w)
  <2>3. /\ g \in Nat /\ a \in Nat /\ b \in Nat /\ c \in Nat /\ h \in Nat /\ k \in Nat
        /\ ((((g + a) + h) + b) + k) + c = g
    BY <1>4, <2>1, <2>2
  <2> HIDE DEF g, a, b, c, h, k
  <2>4. a = 0 /\ h = 0 /\ b = 0 /\ k = 0 /\ c = 0
    BY ONLY <2>3
  <2> QED BY <2>4 DEF a, b, c, h, k
<1>6. /\ wire[<<w, e>>] \in Seq(Cells) /\ wire[<<v, w>>] \in Seq(Cells)
      /\ wire[<<r, v>>] \in Seq(Cells)
  BY <1>1, PiecesAreSequences
<1>7. Idle(r, v, w, e)
  BY <1>5, <1>6, LengthSteps DEF Idle, Held1
<1> QED BY <1>3, <1>7 DEF Drained

LEMMA CountsAreNumbers ==
  ASSUME TypeOK, NEW e, NEW w, NEW v, NEW r, Route(e, w, v, r)
  PROVE  /\ NDelivered(v, r) \in Nat /\ Held1(v, r) \in Nat /\ NOnward(w, v, r) \in Nat
         /\ Held1(w, v) \in Nat
<1>1. /\ Len(got[r]) \in Nat /\ Len(wire[<<v, r>>]) \in Nat /\ Len(wire[<<w, v>>]) \in Nat
  BY Lengths
<1>2. Held1(v, r) \in Nat /\ Held1(w, v) \in Nat
  BY DEF Held1
<1>3. NDelivered(v, r) \in Nat
  <2>1. Len(Delivered(v, r)) \in Nat
    BY PiecesAreSequences
  <2> QED BY <2>1, Lengths
<1>4. NOnward(w, v, r) \in Nat
  BY <1>1, <1>2, <1>3 DEF NOnward
<1> QED BY <1>2, <1>3, <1>4

\* The steps that the four counts tell nothing of.
LEMMA CountsStay ==
  ASSUME NEW e, NEW w, NEW v, NEW r, Drained(e, w, v, r),
         NDelivered(v, r)' = NDelivered(v, r),
         wire'[<<w, v>>] = wire[<<w, v>>], wire'[<<e, w>>] = wire[<<e, w>>],
         dst' = dst, sent'[e] = sent[e],
         Live(w)' = Live(w), Live(v)' = Live(v), Idle(r, v, w, e)'
  PROVE  Drained(e, w, v, r)'
<1>1. Held1(v, r)' = Held1(v, r) /\ Held1(w, v)' = Held1(w, v)
  BY DEF Held1
<1>2. NOnward(w, v, r)' = NOnward(w, v, r)
  BY <1>1 DEF NOnward
<1>3. NWhole(e, w, v, r)' = NWhole(e, w, v, r)
  BY <1>1, <1>2 DEF NWhole
<1> QED BY <1>2, <1>3 DEF Drained

\* The worker next to the end that has closed.
LEMMA NearDrains ==
  ASSUME TypeOK, Unnoticed, NEW e, NEW w, NEW v, NEW r, Route(e, w, v, r),
         Drained(e, w, v, r), e \notin open, r \in open, idled' = {}, WorkerStep(w)
  PROVE  Drained(e, w, v, r)'
<1>0. Joined(e, w, v, r) /\ Joined(r, v, w, e)
  BY OtherWay, RouteFacts
<1>1. /\ DOMAIN wire = Links /\ DOMAIN pc = Workers /\ DOMAIN dst = Workers
      /\ \A k \in Workers : k \notin open => ~Live(k)
      /\ \A k \in Workers : dst[k] \in (IF pc[k] = "write" THEN {First(k), Second(k)} ELSE {k})
  BY DEF TypeOK, Live
<1>2. /\ Len(got[r]) \in Nat /\ Len(wire[<<v, r>>]) \in Nat /\ Len(wire[<<w, v>>]) \in Nat
      /\ Len(wire[<<e, w>>]) \in Nat /\ sent[e] \in Nat
      /\ wire[<<e, w>>] \in Seq(Cells) /\ wire[<<w, v>>] \in Seq(Cells)
  BY Lengths, PiecesAreSequences
<1>3. ASSUME NEW x, NEW y, {x, y} = {e, v}, x # y, pc[w] = "select",
             Readable(x, w), Reads(w, x, y), UNCHANGED <<open, sent, got, idled>>
      PROVE  Drained(e, w, v, r)'
  <2>0. dst[w] = w /\ Live(w) /\ Live(v) /\ NWhole(e, w, v, r) = sent[e]
    BY <1>0, <1>1, <1>3 DEF Joined, Live, Drained
  <2>1. x = e /\ y = v
    BY <1>0, <1>1, <1>3, <2>0 DEF Readable, Drained, Idle, Joined
  <2>2. CASE wire[<<e, w>>] # <<>>
    <3> DEFINE t == wire[<<e, w>>]
    <3>1. /\ wire' = [wire EXCEPT ![<<e, w>>] = Tail(t)]
          /\ dst' = [dst EXCEPT ![w] = v] /\ pc' = [pc EXCEPT ![w] = "write"]
      BY <1>3, <2>1, <2>2 DEF Reads, Takes
    <3>2. /\ wire'[<<e, w>>] = Tail(t) /\ wire'[<<w, v>>] = wire[<<w, v>>]
          /\ wire'[<<v, r>>] = wire[<<v, r>>] /\ dst'[w] = v /\ dst'[v] = dst[v]
          /\ got' = got /\ sent' = sent /\ Live(w)' /\ Live(v)' = Live(v)
          /\ Idle(r, v, w, e)'
      BY <1>0, <1>1, <1>3, <3>1 DEF Joined, Live, Drained, Idle
    <3>3. Len(Tail(t)) = Len(t) - 1 /\ Len(t) \in Nat
      BY <1>2, <2>2, LengthSteps
    <3>4. NOnward(w, v, r)' = NOnward(w, v, r)
      BY <3>2 DEF NOnward, NDelivered, Held1
    <3>5. Held1(w, v)' = 1 /\ Held1(w, v) = 0
      BY <1>0, <2>0, <3>2 DEF Held1, Joined
    <3>6. NOnward(w, v, r) \in Nat
      BY CountsAreNumbers
    <3>7. NWhole(e, w, v, r)' = NWhole(e, w, v, r)
      BY <1>2, <3>2, <3>3, <3>4, <3>5, <3>6 DEF NWhole
    <3> QED BY <2>0, <3>2, <3>4, <3>7 DEF Drained
  <2>3. CASE wire[<<e, w>>] = <<>>
    <3>1. pc' = [pc EXCEPT ![w] = "done"] /\ UNCHANGED <<wire, dst, got, sent>>
      BY <1>3, <2>1, <2>3 DEF Reads
    <3>2. ~Live(w)' /\ Live(v)' = Live(v) /\ Idle(r, v, w, e)'
      BY <1>0, <1>1, <3>1 DEF Joined, Live, Drained, Idle
    <3>3. Held1(w, v) = 0 /\ Len(wire[<<e, w>>]) = 0
      BY <1>0, <1>2, <2>0, <2>3, LengthSteps DEF Held1, Joined
    <3>4. NOnward(w, v, r) \in Nat
      BY CountsAreNumbers
    <3>5. NOnward(w, v, r) = sent[e]
      BY <2>0, <3>3, <3>4 DEF NWhole
    <3>6. NOnward(w, v, r)' = sent'[e]
      BY <3>1, <3>5 DEF NOnward, NDelivered, Held1
    <3> QED BY <2>0, <3>2, <3>6 DEF Drained
  <2> QED BY <2>2, <2>3
<1>4. CASE ReadFirst(w) \/ ReadSecond(w)
  BY <1>0, <1>3, <1>4 DEF ReadFirst, ReadSecond, Joined
<1>5. CASE Write(w)
  <2> DEFINE t == wire[<<w, v>>]
  <2>1. /\ dst[w] = v /\ Live(w) /\ Live(v) /\ v \in open /\ NWhole(e, w, v, r) = sent[e]
        /\ Puts(w, v, buf[w])
    BY <1>0, <1>1, <1>5 DEF Write, Live, Drained, Idle, Joined
  <2>2. /\ wire' = [wire EXCEPT ![<<w, v>>] = Append(t, buf[w])]
        /\ dst' = [dst EXCEPT ![w] = w] /\ pc' = [pc EXCEPT ![w] = "select"]
        /\ UNCHANGED <<sent, got>>
    BY <1>5, <2>1 DEF Write, Puts
  <2>3. /\ wire'[<<w, v>>] = Append(t, buf[w]) /\ wire'[<<e, w>>] = wire[<<e, w>>]
        /\ wire'[<<v, r>>] = wire[<<v, r>>] /\ dst'[w] = w /\ dst'[v] = dst[v]
        /\ got' = got /\ sent' = sent /\ Live(w)' /\ Live(v)'
        /\ Idle(r, v, w, e)'
    BY <1>0, <1>1, <2>1, <2>2 DEF Joined, Live, Drained, Idle
  <2>4. Len(Append(t, buf[w])) = Len(t) + 1
    BY <1>2, LengthSteps
  <2>5. /\ NDelivered(v, r)' = NDelivered(v, r) /\ NDelivered(v, r) \in Nat
        /\ Held1(v, r)' = Held1(v, r) /\ Held1(v, r) \in Nat
    BY <2>3, CountsAreNumbers DEF NDelivered, Held1
  <2>6. Held1(w, v)' = 0 /\ Held1(w, v) = 1
    BY <1>0, <2>1, <2>3 DEF Held1, Joined
  <2>7. NOnward(w, v, r)' = NOnward(w, v, r) + 1 /\ NOnward(w, v, r) \in Nat
    BY <1>2, <2>3, <2>4, <2>5 DEF NOnward
  <2>8. NWhole(e, w, v, r)' = NWhole(e, w, v, r)
    BY <1>2, <2>3, <2>6, <2>7 DEF NWhole
  <2>9. NWhole(e, w, v, r)' = sent'[e]
    BY <2>1, <2>3, <2>8
  <2> QED BY <2>3, <2>9 DEF Drained
<1>6. CASE Reap(w)
  <2>1. UNCHANGED <<wire, dst, sent, got>> /\ Live(w)' = Live(w) /\ Live(v)' = Live(v)
    BY <1>0, <1>1, <1>6 DEF Reap, Live, Joined
  <2>2. Idle(r, v, w, e)'
    BY <2>1 DEF Drained, Idle
  <2>3. /\ NDelivered(v, r)' = NDelivered(v, r)
        /\ wire'[<<w, v>>] = wire[<<w, v>>] /\ wire'[<<e, w>>] = wire[<<e, w>>]
        /\ dst' = dst /\ sent'[e] = sent[e] /\ Live(w)' = Live(w) /\ Live(v)' = Live(v)
    BY <2>1 DEF NDelivered
  <2> QED BY <2>2, <2>3, CountsStay
<1>7. ~Timeout(w)
  BY <1>0 DEF Timeout, Joined
<1> QED BY <1>4, <1>5, <1>6, <1>7 DEF WorkerStep, Loop

\* The worker next to the end that goes on reading.
LEMMA FarDrains ==
  ASSUME TypeOK, Unnoticed, NEW e, NEW w, NEW v, NEW r, Route(e, w, v, r),
         Drained(e, w, v, r), e \notin open, r \in open, idled' = {}, WorkerStep(v)
  PROVE  Drained(e, w, v, r)'
<1>0. Joined(e, w, v, r) /\ Joined(r, v, w, e)
  BY OtherWay, RouteFacts
<1>1. /\ DOMAIN wire = Links /\ DOMAIN pc = Workers /\ DOMAIN dst = Workers
      /\ \A k \in Workers : k \notin open => ~Live(k)
      /\ \A k \in Workers : dst[k] \in (IF pc[k] = "write" THEN {First(k), Second(k)} ELSE {k})
  BY DEF TypeOK, Live
<1>2. /\ Len(got[r]) \in Nat /\ Len(wire[<<v, r>>]) \in Nat /\ Len(wire[<<w, v>>]) \in Nat
      /\ Len(wire[<<e, w>>]) \in Nat /\ sent[e] \in Nat
      /\ wire[<<v, r>>] \in Seq(Cells) /\ wire[<<w, v>>] \in Seq(Cells)
  BY Lengths, PiecesAreSequences
<1>3. ASSUME NEW x, NEW y, {x, y} = {w, r}, x # y, pc[v] = "select",
             Readable(x, v), Reads(v, x, y), UNCHANGED <<open, sent, got, idled>>
      PROVE  Drained(e, w, v, r)'
  <2>0. dst[v] = v /\ Live(v) /\ (Live(w) \/ NOnward(w, v, r) = sent[e])
    BY <1>0, <1>1, <1>3 DEF Joined, Live, Drained
  <2>1. x = w /\ y = r
    BY <1>0, <1>1, <1>3, <2>0 DEF Readable, Drained, Idle, Joined
  <2>2. CASE wire[<<w, v>>] # <<>>
    <3> DEFINE t == wire[<<w, v>>]
    <3>1. /\ wire' = [wire EXCEPT ![<<w, v>>] = Tail(t)]
          /\ dst' = [dst EXCEPT ![v] = r] /\ pc' = [pc EXCEPT ![v] = "write"]
      BY <1>3, <2>1, <2>2 DEF Reads, Takes
    <3>2. /\ wire'[<<w, v>>] = Tail(t) /\ wire'[<<e, w>>] = wire[<<e, w>>]
          /\ wire'[<<v, r>>] = wire[<<v, r>>] /\ dst'[v] = r /\ dst'[w] = dst[w]
          /\ got' = got /\ sent' = sent /\ Live(v)' /\ Live(w)' = Live(w)
          /\ Idle(r, v, w, e)'
      BY <1>0, <1>1, <1>3, <3>1 DEF Joined, Live, Drained, Idle
    <3>3. Len(Tail(t)) = Len(t) - 1 /\ Len(t) \in Nat
      BY <1>2, <2>2, LengthSteps
    <3>4. NDelivered(v, r)' = NDelivered(v, r) /\ NDelivered(v, r) \in Nat
      BY <3>2, CountsAreNumbers DEF NDelivered
    <3>5. Held1(v, r)' = 1 /\ Held1(v, r) = 0
      BY <1>0, <2>0, <3>2 DEF Held1, Joined
    <3>6. NOnward(w, v, r)' = NOnward(w, v, r)
      BY <3>2, <3>3, <3>4, <3>5 DEF NOnward
    <3>7. NWhole(e, w, v, r)' = NWhole(e, w, v, r)
      BY <3>2, <3>6 DEF NWhole, Held1
    <3> QED BY <2>0, <3>2, <3>6, <3>7 DEF Drained
  <2>3. CASE wire[<<w, v>>] = <<>>
    <3>1. pc' = [pc EXCEPT ![v] = "done"] /\ UNCHANGED <<wire, dst, got, sent>>
      BY <1>3, <2>1, <2>3 DEF Reads
    <3>2. ~Live(w)
      BY <1>0, <1>1, <1>3, <2>1, <2>3 DEF Readable, Joined
    <3>3. ~Live(v)' /\ ~Live(w)' /\ Idle(r, v, w, e)'
      BY <1>0, <1>1, <3>1, <3>2 DEF Joined, Live, Drained, Idle
    <3>4. Held1(v, r) = 0 /\ Len(wire[<<w, v>>]) = 0 /\ NDelivered(v, r) \in Nat
      BY <1>0, <1>2, <2>0, <2>3, LengthSteps, CountsAreNumbers DEF Held1, Joined
    <3>5. NDelivered(v, r) = sent[e]
      BY <2>0, <3>2, <3>4 DEF NOnward
    <3>6. NDelivered(v, r)' = sent'[e]
      BY <3>1, <3>5 DEF NDelivered
    <3> QED BY <3>3, <3>6 DEF Drained
  <2> QED BY <2>2, <2>3
<1>4. CASE ReadFirst(v) \/ ReadSecond(v)
  BY <1>0, <1>3, <1>4 DEF ReadFirst, ReadSecond, Joined
<1>5. CASE Write(v)
  <2> DEFINE t == wire[<<v, r>>]
  <2>1. dst[v] = r /\ Live(v) /\ Puts(v, r, buf[v])
    BY <1>0, <1>1, <1>5 DEF Write, Live, Drained, Idle, Joined
  <2>2. /\ wire' = [wire EXCEPT ![<<v, r>>] = Append(t, buf[v])]
        /\ dst' = [dst EXCEPT ![v] = v] /\ pc' = [pc EXCEPT ![v] = "select"]
        /\ UNCHANGED <<sent, got>>
    BY <1>0, <1>5, <2>1 DEF Write, Puts
  <2>3. /\ wire'[<<v, r>>] = Append(t, buf[v]) /\ wire'[<<e, w>>] = wire[<<e, w>>]
        /\ wire'[<<w, v>>] = wire[<<w, v>>] /\ dst'[v] = v /\ dst'[w] = dst[w]
        /\ got' = got /\ sent' = sent /\ Live(v)' /\ Live(w)' = Live(w)
        /\ Idle(r, v, w, e)'
    BY <1>0, <1>1, <2>1, <2>2 DEF Joined, Live, Drained, Idle
  <2>4. Len(Append(t, buf[v])) = Len(t) + 1
    BY <1>2, LengthSteps
  <2>5. NDelivered(v, r)' = NDelivered(v, r) + 1 /\ NDelivered(v, r) \in Nat
    <3> DEFINE g == Len(got[r])
               n == Len(t)
    <3>1. g \in Nat /\ n \in Nat
      BY <1>2
    <3>2. NDelivered(v, r)' = g + (n + 1)
      BY <2>3, <2>4 DEF NDelivered
    <3>3. NDelivered(v, r) = g + n
      BY DEF NDelivered
    <3> HIDE DEF g, n
    <3> QED BY ONLY <3>1, <3>2, <3>3
  <2>6. Held1(v, r)' = 0 /\ Held1(v, r) = 1
    BY <1>0, <2>1, <2>3 DEF Held1, Joined
  <2>7. NOnward(w, v, r)' = NOnward(w, v, r)
    BY <1>2, <2>3, <2>5, <2>6 DEF NOnward
  <2>8. NWhole(e, w, v, r)' = NWhole(e, w, v, r)
    BY <2>3, <2>7 DEF NWhole, Held1
  <2>9. Live(w) => NWhole(e, w, v, r) = sent[e]
    BY DEF Drained
  <2>10. Live(w) \/ NOnward(w, v, r) = sent[e]
    BY <2>1 DEF Drained
  <2> QED BY <2>3, <2>7, <2>8, <2>9, <2>10 DEF Drained
<1>6. CASE Reap(v)
  <2>1. UNCHANGED <<wire, dst, sent, got>> /\ Live(v)' = Live(v) /\ Live(w)' = Live(w)
    BY <1>0, <1>1, <1>6 DEF Reap, Live, Joined
  <2>2. Idle(r, v, w, e)'
    BY <2>1 DEF Drained, Idle
  <2>3. /\ NDelivered(v, r)' = NDelivered(v, r)
        /\ wire'[<<w, v>>] = wire[<<w, v>>] /\ wire'[<<e, w>>] = wire[<<e, w>>]
        /\ dst' = dst /\ sent'[e] = sent[e] /\ Live(w)' = Live(w) /\ Live(v)' = Live(v)
    BY <2>1 DEF NDelivered
  <2> QED BY <2>2, <2>3, CountsStay
<1>7. ~Timeout(v)
  BY <1>0 DEF Timeout, Joined
<1> QED BY <1>4, <1>5, <1>6, <1>7 DEF WorkerStep, Loop

\* What has reached an end is no more than the other one has sent.
LEMMA NoMoreThanSent ==
  ASSUME TypeOK, Unnoticed, idled = {},
         NEW e, NEW w, NEW v, NEW r, Route(e, w, v, r), Relayed(e, w, v, r)
  PROVE  /\ Len(got[r]) \in Nat /\ sent[e] \in Nat /\ Len(got[r]) <= sent[e]
         /\ \A i \in 1..Len(got[r]) : got[r][i] = i
<1>0. Joined(e, w, v, r)
  BY RouteFacts
<1>1. got[r] \in Seq(Chunks) /\ wire[<<v, r>>] \in Seq(Chunks)
  BY <1>0 DEF Unnoticed, Joined
<1>2. /\ Len(got[r]) \in Nat /\ Len(wire[<<v, r>>]) \in Nat /\ sent[e] \in Nat
      /\ Len(Delivered(v, r)) = Len(got[r]) + Len(wire[<<v, r>>])
      /\ \A i \in 1..Len(got[r]) : Delivered(v, r)[i] = got[r][i]
  <2> DEFINE g == got[r]
             t == wire[<<v, r>>]
  <2>1. g \in Seq(Cells) /\ t \in Seq(Cells) /\ sent[e] \in Nat
    BY PiecesAreSequences
  <2> HIDE DEF g, t
  <2>2. Len(g) \in Nat /\ Len(t) \in Nat
    BY <2>1
  <2>3. Len(g \o t) = Len(g) + Len(t) /\ \A i \in 1..Len(g) : (g \o t)[i] = g[i]
    BY <2>1, <2>2, ConcatProperties
  <2> QED BY <2>1, <2>2, <2>3 DEF Delivered, g, t
<1>3. \A i \in 1..Len(got[r]) : got[r][i] \in Chunks /\ got[r][i] \notin Allowed(e)
  <2>1. Allowed(e) \subseteq {Notice} /\ Notice \notin Chunks
    BY BoundsAssumption DEF Allowed, Notice, Chunks
  <2> QED BY <1>1, <2>1
<1>4. \A i \in 1..Len(got[r]) : got[r][i] = i /\ i <= sent[e]
  <2> SUFFICES ASSUME NEW i \in 1..Len(got[r])
               PROVE  got[r][i] = i /\ i <= sent[e]
    OBVIOUS
  <2>1. i \in 1..Len(Delivered(v, r)) /\ Delivered(v, r)[i] = got[r][i]
    <3> DEFINE g == Len(got[r])
               n == Len(wire[<<v, r>>])
               d == Len(Delivered(v, r))
    <3>1. g \in Nat /\ n \in Nat /\ d = g + n /\ i \in 1..g
      BY <1>2
    <3> HIDE DEF g, n, d
    <3>2. i \in 1..d
      BY ONLY <3>1
    <3> QED BY <1>2, <3>2 DEF d
  <2>2. Flow(Delivered(v, r), sent[e], Allowed(e))
    BY DEF Relayed
  <2> QED BY <1>3, <2>1, <2>2 DEF Flow
<1>5. Len(got[r]) <= sent[e]
  BY <1>2, <1>4
<1> QED BY <1>2, <1>4, <1>5

\* As long as both ends are there, only a timeout makes a worker give up.
LEMMA BothStay ==
  ASSUME TypeOK, NEW e, NEW w, NEW v, NEW r, Route(e, w, v, r),
         e \in open', r \in open', idled' = {}, Live(w), Live(v), [Next]_vars
  PROVE  Live(w)' /\ Live(v)'
<1>0. Joined(e, w, v, r)
  BY RouteFacts
<1>1. /\ DOMAIN pc = Workers
      /\ \A k \in Workers : k \notin open => ~Live(k)
      /\ \A k \in Workers : pc[k] = "write" => dst[k] \in {First(k), Second(k)}
  BY DEF TypeOK, Live
<1>2. ASSUME NEW k \in Workers, WorkerStep(k)
      PROVE  Live(w)' /\ Live(v)'
  <2>1. e \in open /\ r \in open /\ w \in open /\ v \in open /\ pc[k] \in {"select", "write"}
    BY <1>0, <1>1, <1>2
    DEF WorkerStep, Loop, ReadFirst, ReadSecond, Write, Timeout, Reap, Joined, Live
  <2>2. First(k) \in open /\ Second(k) \in open
    BY <1>0, <2>1 DEF Joined
  <2>3. CASE ReadFirst(k) \/ ReadSecond(k)
    <3>1. pc' = [pc EXCEPT ![k] = "write"]
      BY <2>2, <2>3 DEF ReadFirst, ReadSecond, Readable, Reads
    <3> QED BY <1>0, <1>1, <3>1 DEF Live, Joined
  <2>4. CASE Write(k)
    <3>1. pc' = [pc EXCEPT ![k] = "select"]
      BY <1>1, <2>2, <2>4 DEF Write
    <3> QED BY <1>0, <1>1, <3>1 DEF Live, Joined
  <2>5. CASE Timeout(k)
    BY <2>5 DEF Timeout
  <2>6. CASE Reap(k)
    BY <2>1, <2>6 DEF Reap
  <2> QED BY <1>2, <2>3, <2>4, <2>5, <2>6 DEF WorkerStep, Loop
<1>3. CASE WriteNotice
  BY <1>0, <1>1, <1>3 DEF WriteNotice, Live, Joined, Workers
<1>4. CASE \/ UNCHANGED vars
           \/ \E k \in Ends : Send(k) \/ Receive(k) \/ Close(k)
           \/ \E l \in Links : Reset(l[1], l[2])
  BY <1>4 DEF vars, Send, Receive, Close, Reset, Live
<1> QED BY <1>2, <1>3, <1>4 DEF Next

\* Once an end has closed and nothing is on the way to it, whatever happens before a
\* timeout only moves what that end had sent on.
LEMMA DrainedStays ==
  ASSUME TypeOK, Unnoticed, [Next]_vars, idled' = {},
         NEW e, NEW w, NEW v, NEW r, Route(e, w, v, r), Drained(e, w, v, r),
         e \notin open, r \in open', Len(got[e])' = sent'[r], Len(got[e]) = sent[r]
  PROVE  Drained(e, w, v, r)'
<1>0. Joined(e, w, v, r)
  BY RouteFacts
<1>1. /\ DOMAIN wire = Links /\ DOMAIN got = Ends /\ DOMAIN sent = Ends
      /\ sent[r] \in Nat
  BY <1>0 DEF TypeOK, Joined
<1>10. idled \subseteq idled' /\ r \in open
  BY DEF Next, vars, WorkerStep, Loop, ReadFirst, ReadSecond, Write, Timeout, Reap,
         WriteNotice, Send, Receive, Close, Reset
<1>2. idled = {} /\ pc["server"] # "notice"
  BY <1>10 DEF Unnoticed
<1>3. ASSUME NEW k \in Workers, WorkerStep(k)
      PROVE  Drained(e, w, v, r)'
  BY <1>0, <1>3, <1>10, NearDrains, FarDrains DEF Joined
<1>4. ~WriteNotice
  BY <1>2 DEF WriteNotice
<1>5. ASSUME NEW k \in Ends, Send(k)
      PROVE  FALSE
  <2>1. k = r
    BY <1>0, <1>5 DEF Send, Joined
  <2>2. sent'[r] = sent[r] + 1 /\ got' = got
    BY <1>1, <1>5, <2>1 DEF Send
  <2> QED BY <1>1, <2>2
<1>6. ASSUME NEW k \in Ends, Receive(k)
      PROVE  Drained(e, w, v, r)'
  <2> DEFINE t == wire[<<v, r>>]
  <2>1. k = r /\ WorkerOf(k) = v
    BY <1>0, <1>6 DEF Receive, Joined
  <2>2. /\ wire' = [wire EXCEPT ![<<v, r>>] = Tail(t)] /\ t # <<>>
        /\ got' = [got EXCEPT ![r] = Append(got[r], Head(t))]
        /\ UNCHANGED <<pc, dst, sent>>
    BY <1>6, <2>1 DEF Receive, Takes
  <2>3. /\ wire'[<<v, r>>] = Tail(t) /\ wire'[<<w, v>>] = wire[<<w, v>>]
        /\ wire'[<<e, w>>] = wire[<<e, w>>] /\ got'[r] = Append(got[r], Head(t))
        /\ Idle(r, v, w, e)'
    BY <1>0, <1>1, <2>2 DEF Joined, Drained, Idle
  <2>4. got[r] \in Seq(Cells) /\ t \in Seq(Cells)
    BY PiecesAreSequences
  <2>5. /\ Len(got[r]) \in Nat /\ Len(t) \in Nat /\ Len(Tail(t)) = Len(t) - 1
        /\ Len(Append(got[r], Head(t))) = Len(got[r]) + 1
    BY <2>2, <2>4, LengthSteps
  <2>6. NDelivered(v, r)' = NDelivered(v, r)
    <3> DEFINE g == Len(got[r])
               n == Len(t)
    <3>1. NDelivered(v, r)' = (g + 1) + (n - 1)
      BY <2>3, <2>5 DEF NDelivered
    <3>2. NDelivered(v, r) = g + n
      BY DEF NDelivered
    <3>3. g \in Nat /\ n \in Nat
      BY <2>5
    <3> HIDE DEF g, n
    <3> QED BY ONLY <3>1, <3>2, <3>3
  <2>7. Live(w)' = Live(w) /\ Live(v)' = Live(v) /\ dst' = dst /\ sent'[e] = sent[e]
    BY <2>2 DEF Live
  <2> QED BY <2>3, <2>6, <2>7, CountsStay
<1>7. ASSUME NEW k \in Ends, Close(k)
      PROVE  FALSE
  BY <1>0, <1>7, <1>10 DEF Close, Joined
<1>8. ASSUME NEW l \in Links, Reset(l[1], l[2])
      PROVE  FALSE
  <2>1. l = <<l[1], l[2]>> /\ wire[<<l[2], l[1]>>] # <<>> /\ l[1] \notin open
    BY <1>8, LinksAre DEF Reset
  <2>2. PICK n \in 0..(Len(wire[l]) - 1) : TRUE
    BY <1>8, <2>1 DEF Reset
  <2>3. wire[l] # <<>>
    BY <2>2
  <2>4. /\ wire[<<w, e>>] = <<>> /\ wire[<<v, w>>] = <<>> /\ wire[<<r, v>>] = <<>>
    BY DEF Drained, Idle
  <2>5. \/ <<l[1], l[2]>> \in {<<e, w>>, <<w, v>>, <<v, r>>}
        \/ <<l[2], l[1]>> \in {<<e, w>>, <<w, v>>, <<v, r>>}
    BY <2>1, LinksAre DEF Route
  <2> QED BY <2>1, <2>3, <2>4, <2>5
<1>9. CASE UNCHANGED vars
  <2>1. /\ UNCHANGED <<wire, pc, dst, sent, got>>
    BY <1>9 DEF vars
  <2>2. /\ NDelivered(v, r)' = NDelivered(v, r) /\ Live(w)' = Live(w) /\ Live(v)' = Live(v)
        /\ Idle(r, v, w, e)'
    BY <2>1 DEF NDelivered, Live, Idle, Drained
  <2> QED BY <2>1, <2>2, CountsStay
<1> QED BY <1>3, <1>4, <1>5, <1>6, <1>7, <1>8, <1>9 DEF Next

LEMMA DrainsInductive ==
  ASSUME TypeOK, Unnoticed, [Next]_vars,
         NEW e, NEW w, NEW v, NEW r, Route(e, w, v, r),
         Relayed(e, w, v, r), Relayed(r, v, w, e), Drains(e, w, v, r)
  PROVE  Drains(e, w, v, r)'
<1> SUFFICES ASSUME idled' = {} PROVE Drains(e, w, v, r)'
  BY DEF Drains
<1>0. Joined(e, w, v, r) /\ Route(r, v, w, e)
  BY OtherWay, RouteFacts
<1>1. idled = {} /\ open' \subseteq open
  BY DEF Next, vars, WorkerStep, Loop, ReadFirst, ReadSecond, Write, Timeout, Reap,
         WriteNotice, Send, Receive, Close, Reset
<1>2. ASSUME e \in open', r \in open'
      PROVE  Live(w)' /\ Live(v)'
  <2>1. Live(w) /\ Live(v)
    BY <1>1, <1>2 DEF Drains
  <2> QED BY <1>2, <2>1, BothStay
<1>3. ASSUME e \notin open', r \in open', Len(got[e])' = sent'[r]
      PROVE  Drained(e, w, v, r)'
  <2>1. CASE e \in open
    <3>1. Close(e)
      BY <1>0, <1>3, <2>1
      DEF Next, vars, WorkerStep, Loop, ReadFirst, ReadSecond, Write, Timeout, Reap,
          WriteNotice, Send, Receive, Close, Reset, Joined
    <3>2. UNCHANGED <<wire, pc, dst, sent, got>>
      BY <3>1 DEF Close
    <3>3. Live(w) /\ Live(v) /\ Len(got[e]) = sent[r] /\ r \in open
      BY <1>1, <1>3, <2>1, <3>2 DEF Drains
    <3>4. Drained(e, w, v, r)
      BY <2>1, <3>3, CloseDrains
    <3>5. /\ NDelivered(v, r)' = NDelivered(v, r) /\ Live(w)' = Live(w) /\ Live(v)' = Live(v)
          /\ Idle(r, v, w, e)'
      BY <3>2, <3>4 DEF NDelivered, Live, Idle, Drained
    <3> QED BY <3>2, <3>4, <3>5, CountsStay
  <2>2. CASE e \notin open
    <3>1. Len(got[e]) \in Nat /\ sent[r] \in Nat /\ Len(got[e]) <= sent[r]
      BY <1>0, <1>1, NoMoreThanSent
    <3>2. got'[e] = got[e] /\ (sent'[r] = sent[r] \/ sent'[r] = sent[r] + 1)
      <4>1. CASE UNCHANGED <<sent, got>>
        BY <4>1
      <4>2. ASSUME NEW k \in Ends, Send(k)
            PROVE  got' = got /\ (sent'[r] = sent[r] \/ sent'[r] = sent[r] + 1)
        <5>1. /\ DOMAIN sent = Ends /\ r \in Ends /\ got' = got
              /\ sent' = [sent EXCEPT ![k] = sent[k] + 1]
          BY <1>0, <4>2 DEF Send, Joined, TypeOK
        <5> QED BY <5>1
      <4>3. ASSUME NEW k \in Ends, Receive(k)
            PROVE  got'[e] = got[e] /\ sent' = sent
        BY <1>0, <2>2, <4>3 DEF Receive, Joined, TypeOK
      <4> QED BY <4>1, <4>2, <4>3
          DEF Next, vars, WorkerStep, Loop, ReadFirst, ReadSecond, Write, Timeout, Reap,
              WriteNotice, Close, Reset
    <3>3. Len(got[e]) = sent[r]
      BY <1>3, <3>1, <3>2
    <3>4. Drained(e, w, v, r)
      BY <1>1, <1>3, <2>2, <3>3 DEF Drains
    <3> QED BY <1>3, <2>2, <3>3, <3>4, DrainedStays
  <2> QED BY <2>1, <2>2
<1> QED BY <1>2, <1>3 DEF Drains

\* What the counts come to when the last worker has gone.
LEMMA DrainedIsDelivered ==
  ASSUME TypeOK, Unnoticed, idled = {},
         NEW e, NEW w, NEW v, NEW r, Route(e, w, v, r), Relayed(e, w, v, r),
         Drains(e, w, v, r), v \notin open, wire[<<v, r>>] = <<>>,
         r \in open, e \notin open, Len(got[e]) = sent[r]
  PROVE  got[r] = [k \in 1..sent[e] |-> k]
<1>1. ~Live(v)
  BY RouteFacts DEF Joined, TypeOK, Live
<1>2. NDelivered(v, r) = sent[e]
  BY <1>1 DEF Drains, Drained
<1>3. Len(got[r]) \in Nat /\ \A i \in 1..Len(got[r]) : got[r][i] = i
  BY NoMoreThanSent
<1>4. Len(wire[<<v, r>>]) = 0
  OBVIOUS
<1>5. Len(got[r]) = sent[e]
  BY <1>2, <1>3, <1>4 DEF NDelivered
<1>6. got[r] \in Seq(Cells)
  BY PiecesAreSequences
<1> QED BY <1>3, <1>5, <1>6

CInv == /\ IInv /\ Unnoticed
        /\ Drains("app", "client", "server", "target")
        /\ Drains("target", "server", "client", "app")

LEMMA InitDrains == Init => CInv
<1> SUFFICES ASSUME Init PROVE CInv
  OBVIOUS
<1>1. IInv
  BY InitTypes, InitRelays, TheRoutes DEF IInv
<1>2. Unnoticed
  BY DEF Init, Unnoticed, Workers
<1>3. ASSUME NEW e, NEW w, NEW v, NEW r, Route(e, w, v, r)
      PROVE  Drains(e, w, v, r)
  BY <1>3 DEF Route, Init, Drains, Live, Workers, Nodes, Ends
<1> QED BY <1>1, <1>2, <1>3, TheRoutes DEF CInv

THEOREM CountsInductive == Spec => []CInv
<1>1. CInv /\ [Next]_vars => CInv'
  <2> SUFFICES ASSUME CInv, [Next]_vars PROVE CInv'
    OBVIOUS
  <2>1. IInv'
    BY TypesInductive, RelayedInductive, TheRoutes DEF IInv, CInv
  <2>2. Unnoticed'
    BY UnnoticedInductive DEF IInv, CInv
  <2>3. Drains("app", "client", "server", "target")'
    BY TheRoutes, DrainsInductive DEF IInv, CInv
  <2>4. Drains("target", "server", "client", "app")'
    BY TheRoutes, DrainsInductive DEF IInv, CInv
  <2> QED BY <2>1, <2>2, <2>3, <2>4 DEF CInv
<1> QED BY <1>1, InitDrains, PTL DEF Spec

\* All that an application sent before it closed reaches the target: nothing is
\* left behind in a worker that gives up, however the reads and writes interleave
\* and whatever the connections hold.
THEOREM UpIsComplete == Spec => []UpComplete
<1>1. CInv => UpComplete
  BY TheRoutes, DrainedIsDelivered DEF CInv, IInv, UpComplete
<1> QED BY <1>1, CountsInductive, PTL

\* And all that a target sent before it closed reaches the application.
THEOREM DownIsComplete == Spec => []DownComplete
<1>1. CInv => DownComplete
  BY TheRoutes, DrainedIsDelivered DEF CInv, IInv, DownComplete
<1> QED BY <1>1, CountsInductive, PTL
=============================================================================
