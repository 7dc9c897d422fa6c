--------------------------- MODULE HandshakeProofs ---------------------------
(***************************************************************************)
(* Proofs about Handshake, for any serials, web site, browser and bounds:  *)
(* IInv is inductive, hence type correctness, the agreement of the two     *)
(* ends about what they speak (SameMode), what the application is handed   *)
(* (AppSeesOnlyTunnelData), and the condition for a SOCKS5 session         *)
(* (TunnelOnlyOnSerial).                                                   *)
(***************************************************************************)
EXTENDS Handshake, TLAPS

\* An answer of the web service is a sequence of records for the peer.
LEMMA ResponseType ==
  ASSUME NEW code \in Codes, NEW rest \in Nat
  PROVE  Response(code, rest) \in Seq(ToPeer) /\ Response(code, rest) # <<>>
<1>1. Status(code) \in ToPeer /\ PageData \in ToPeer
  BY DEF ToPeer
<1>2. rest + 1 \in Nat
  OBVIOUS
<1>3. \A k \in 1..(rest + 1) : (IF k = 1 THEN Status(code) ELSE PageData) \in ToPeer
  BY <1>1
<1>4. Response(code, rest) \in Seq(ToPeer) /\ Len(Response(code, rest)) = rest + 1
  BY <1>2, <1>3 DEF Response
<1>5. Response(code, rest) # <<>>
  BY <1>2, <1>4
<1> QED BY <1>4, <1>5

LEMMA AnswerType ==
  ASSUME NEW r
  PROVE  Answer(r) \in Seq(ToPeer) /\ Answer(r) # <<>>
<1>1. \A c \in {"200", "400", "404"} :
        Response(c, 0) \in Seq(ToPeer) /\ Response(c, 0) # <<>>
  BY ResponseType DEF Codes
<1>2. CASE r.cmd = "GET" /\ ~NoRootfs /\ Found(r.path)
  <2>1. r.path.name \in DOMAIN Site
    BY <1>2 DEF Found
  <2>2. Site[r.path.name].code \in Codes /\ Site[r.path.name].rest \in Nat
    BY <2>1, SiteAssumption DEF Codes, SiteAssumption
  <2> QED BY <1>2, <2>2, ResponseType DEF Answer
<1> QED BY <1>1, <1>2 DEF Answer

\* The answer to the serial is one record, the welcome page with status 200.
LEMMA HitResponseOne ==
  HitResponse \in Seq(ToPeer) /\ HitResponse = <<Status("200")>>
<1>1. HitResponse \in Seq(ToPeer)
  BY ResponseType DEF HitResponse, Codes
<1>2. HitResponse = [k \in 1..1 |-> Status("200")]
  BY DEF HitResponse, Response
<1> QED BY <1>1, <1>2

\* The request a local endpoint makes from its serial is well formed, and is the
\* one the remote endpoint expects when the serials are the same.
LEMMA AgreedHits ==
  ASSUME serials \in SerialPairs
  PROVE  LET r == Request("GET", RequestPath(serials[1]))
         IN  r \in Requests /\ (Agreed => Hit(r))
<1>1. serials[1] \in Paths /\ serials[2] \in Paths
  BY SerialsAssumption DEF SerialsAssumption
<1>2. serials[1].slashes \in Nat /\ serials[1].name \in Names
  BY <1>1 DEF Paths
<1>3. RequestPath(serials[1]) \in Paths
  BY <1>2 DEF RequestPath, Path, Paths
<1>4. Agreed => RequestPath(serials[1]) = HitPath(serials[2])
  BY <1>2 DEF Agreed, RequestPath, HitPath, Path
<1> DEFINE r == Request("GET", RequestPath(serials[1]))
<1>5. r \in Requests
  BY <1>3 DEF Request, Requests, Methods
<1>6. r.cmd = "GET" /\ r.path = RequestPath(serials[1])
  BY DEF Request
<1>7. Agreed => Hit(r)
  BY <1>4, <1>6 DEF Hit
<1> QED BY <1>5, <1>7

\* A part of a record is neither a request nor the application's data.
LEMMA PartAlone == Part \notin ToServer
<1>1. \A q \in ToServer : q.type \in {"request", "app"}
  BY DEF ToServer, Requests, AppData
<1>2. Part.type = "part"
  BY DEF Part
<1> QED BY <1>1, <1>2

\* The record the remote endpoint reads is one, and what is behind it stays.
LEMMA RecordType ==
  ASSUME NEW S, S \subseteq ToServer, c2s \in Seq(S \cup {Part}), ServerRecord
  PROVE  /\ c2s # <<>> /\ Head(c2s) \in S
         /\ Tail(c2s) \in Seq(S \cup {Part})
<1>1. c2s # <<>> /\ Head(c2s) # Part
  BY DEF ServerRecord, ServerReads
<1>2. Head(c2s) \in S \cup {Part} /\ Tail(c2s) \in Seq(S \cup {Part})
  BY <1>1
<1> QED BY <1>1, <1>2

\* A browser adds to what it has sent, or completes the record it has begun.
LEMMA BrowserType ==
  ASSUME NEW S, S \subseteq ToServer, c2s \in Seq(S \cup {Part}),
         \/ BrowserPart
         \/ \E r \in Browsing \cap S : BrowserRequest(r)
  PROVE  c2s' \in Seq(S \cup {Part})
<1>1. CASE BrowserPart
  BY <1>1 DEF BrowserPart
<1>2. ASSUME NEW r \in Browsing \cap S, BrowserRequest(r) PROVE c2s' \in Seq(S \cup {Part})
  <2>1. CASE ~Begun
    BY <1>2, <2>1 DEF BrowserRequest
  <2>2. CASE Begun
    <3>1. c2s' = [c2s EXCEPT ![Len(c2s)] = r]
      BY <1>2, <2>2 DEF BrowserRequest
    <3>2. Len(c2s) \in Nat /\ c2s \in [1..Len(c2s) -> S \cup {Part}]
      OBVIOUS
    <3>3. c2s' \in [1..Len(c2s) -> S \cup {Part}]
      BY <3>1, <3>2
    <3> QED BY <3>2, <3>3
  <2> QED BY <2>1, <2>2
<1> QED BY <1>1, <1>2

-----------------------------------------------------------------------------
(* The steps *)

LEMMA InitOK == Init => IInv
<1> SUFFICES ASSUME Init PROVE IInv
  OBVIOUS
<1>1. TypeOK
  <2>1. <<>> \in Seq(ToServer \cup {Part}) /\ <<>> \in Seq(ToPeer)
    OBVIOUS
  <2>2. 0 \in 0..MaxSent
    BY BoundsAssumption DEF BoundsAssumption
  <2> QED BY <2>1, <2>2 DEF Init, TypeOK, ServerPC, ClientPC
<1>2. BeforeFirst /\ Progress /\ AppSeesOnlyTunnelData /\ TunnelOnlyOnSerial
  <2>1. <<>> \in Seq(Requests \cup {Part})
    OBVIOUS
  <2> QED BY <2>1 DEF Init, BeforeFirst, Progress, AppSeesOnlyTunnelData, TunnelOnlyOnSerial
<1> QED BY <1>1, <1>2 DEF IInv

\* Every step keeps the types.
LEMMA TypeStep ==
  ASSUME TypeOK, BeforeFirst, [Next]_vars
  PROVE  TypeOK'
<1> USE DEF TypeOK, ServerPC, ClientPC
<1> USE DEF PeerGoes, ServerGoes, PeerReads, PeerAtEnd
<1>1. CASE ClientConnect \/ ClientConnectFail \/ ClientTlsFail \/ ClientReplyEnd \/ ClientRelayEnd
  <2>1. CASE ClientConnect
    <3>1. spc = "none"
      BY <2>1 DEF ClientConnect, BeforeFirst
    <3> QED BY <2>1, <3>1 DEF ClientConnect
  <2> QED BY <1>1, <2>1 DEF ClientConnectFail, ClientTlsFail, ClientReplyEnd, ClientRelayEnd
<1>2. CASE ClientRequest
  <2>1. Request("GET", RequestPath(serials[1])) \in ToServer
    BY AgreedHits DEF ToServer
  <2> QED BY <1>2, <2>1 DEF ClientRequest
<1>3. CASE ClientReply
  <2>1. Tail(s2c) \in Seq(ToPeer)
    BY <1>3 DEF ClientReply
  <2> QED BY <1>3, <2>1 DEF ClientReply
<1>4. CASE ClientRelayDown
  <2>1. Head(s2c) \in ToPeer /\ Tail(s2c) \in Seq(ToPeer)
    BY <1>4 DEF ClientRelayDown
  <2>2. Head(s2c).type \in {"http", "page", "tunnel"}
    BY <2>1 DEF ToPeer, Status, PageData, TunnelData
  <2>3. got' \subseteq {"http", "page", "tunnel"} /\ cpc' \in ClientPC /\ s2c' \in Seq(ToPeer)
    BY <1>4, <2>1, <2>2 DEF ClientRelayDown
  <2>4. UNCHANGED <<serials, peer, spc, tls, c2s, closed, net, sent, asked>>
    BY <1>4 DEF ClientRelayDown
  <2>5. out' = out
    BY <1>4 DEF ClientRelayDown
  <2> QED BY <2>3, <2>4, <2>5
<1>5. CASE ClientRelayUp
  <2>1. AppData \in ToServer
    BY DEF ToServer
  <2> QED BY <1>5, <2>1, BoundsAssumption DEF ClientRelayUp, BoundsAssumption
<1>6. CASE BrowserPart \/ \E r \in Browsing : BrowserRequest(r)
  <2>1. Browsing \cap ToServer = Browsing
    BY BrowsingAssumption DEF ToServer, BrowsingAssumption
  <2>2. c2s' \in Seq(ToServer \cup {Part})
    BY <1>6, <2>1, BrowserType
  <2>3. sent' \in 0..MaxSent
    BY <1>6, BoundsAssumption DEF BrowserPart, BrowserRequest, BoundsAssumption
  <2>4. UNCHANGED <<serials, peer, spc, tls, out, closed, net, asked, s2c, got>> /\ cpc' = "tls"
    BY <1>6 DEF BrowserPart, BrowserRequest
  <2> QED BY <2>2, <2>3, <2>4
<1>7. CASE BrowserRead \/ BrowserClose
  <2>1. CASE BrowserRead
    <3>1. Tail(s2c) \in Seq(ToPeer)
      BY <2>1 DEF BrowserRead
    <3> QED BY <2>1, <3>1 DEF BrowserRead
  <2>2. CASE BrowserClose
    BY <2>2 DEF BrowserClose
  <2> QED BY <1>7, <2>1, <2>2
<1>8. CASE \/ ServerAccept \/ Negotiate \/ ServerTls \/ ServerTlsFail \/ ServerNoTls \/ ServerTimeout
           \/ ServerSelect \/ ServerWebEnd \/ ServerSocksEnd
  BY <1>8 DEF ServerAccept, Negotiate, ServerTls, ServerTlsFail, ServerNoTls, ServerTimeout,
              ServerSelect, ServerWebEnd, ServerSocksEnd
<1>9. CASE ServerFirst
  <2>1. CASE ServerAtEnd /\ ServerGoes("web") /\ UNCHANGED <<c2s, s2c, out, asked>>
    BY <1>9, <2>1 DEF ServerFirst
  <2>2. CASE ServerRecord
    <3>1. Head(c2s) \in ToServer /\ Tail(c2s) \in Seq(ToServer \cup {Part})
      BY <2>2, RecordType
    <3>2. ~ServerAtEnd \/ ServerAtEnd
      OBVIOUS
    <3>3. CASE c2s' = Tail(c2s) /\ asked' = asked \cup {Head(c2s)} /\ Hit(Head(c2s))
      <4>1. CASE s2c' = s2c \o HitResponse /\ ServerGoes("socks5") /\ UNCHANGED out
        <5>1. s2c' \in Seq(ToPeer) /\ out' = <<>>
          BY <1>9, <4>1, HitResponseOne DEF ServerFirst
        <5> QED BY <3>1, <3>3, <4>1, <5>1
      <4>2. CASE ServerAtEnd /\ ServerGoes("web") /\ UNCHANGED <<c2s, s2c, out, asked>>
        BY <1>9, <4>2 DEF ServerFirst
      <4> QED BY <1>9, <3>3, <4>1, <4>2 DEF ServerFirst
    <3>4. CASE c2s' = Tail(c2s) /\ asked' = asked \cup {Head(c2s)} /\ ~Hit(Head(c2s))
      <4>1. CASE out' = Answer(Head(c2s)) /\ ServerGoes("answer") /\ UNCHANGED s2c
        <5>1. out' \in Seq(ToPeer) /\ out' # <<>>
          BY <4>1, AnswerType
        <5> QED BY <3>1, <3>4, <4>1, <5>1
      <4>2. CASE ServerAtEnd /\ ServerGoes("web") /\ UNCHANGED <<c2s, s2c, out, asked>>
        BY <1>9, <4>2 DEF ServerFirst
      <4> QED BY <1>9, <3>4, <4>1, <4>2 DEF ServerFirst
    <3> QED BY <1>9, <2>1, <3>3, <3>4 DEF ServerFirst
  <2> QED BY <1>9, <2>1, <2>2 DEF ServerFirst
<1>10. CASE ServerWeb
  <2>1. Head(c2s) \in ToServer /\ Tail(c2s) \in Seq(ToServer \cup {Part})
    BY <1>10, RecordType DEF ServerWeb
  <2>2. Answer(Head(c2s)) \in Seq(ToPeer) /\ Answer(Head(c2s)) # <<>>
    BY AnswerType
  <2> QED BY <1>10, <2>1, <2>2 DEF ServerWeb
<1>15. CASE ServerAnswer
  <2>1. Head(out) \in ToPeer /\ Tail(out) \in Seq(ToPeer)
    BY <1>15 DEF ServerAnswer
  <2>2. Append(s2c, Head(out)) \in Seq(ToPeer)
    BY <2>1
  <2>3. c2s' = c2s /\ asked' = asked
    BY <1>15 DEF ServerAnswer
  <2>6. \/ s2c' = Append(s2c, Head(out)) /\ out' = Tail(out)
        \/ out' = <<>> /\ s2c' = s2c
    BY <1>15 DEF ServerAnswer
  <2>7. s2c' \in Seq(ToPeer) /\ out' \in Seq(ToPeer)
    <3>1. <<>> \in Seq(ToPeer)
      OBVIOUS
    <3> QED BY <2>1, <2>2, <2>6, <3>1
  <2>4. spc' \in {"answer", "web"} /\ (spc' = "answer" <=> out' # <<>>)
    BY <1>15, <2>1 DEF ServerAnswer
  <2>5. UNCHANGED <<serials, peer, cpc, tls, closed, net, sent, got>>
    BY <1>15 DEF ServerAnswer
  <2> QED BY <2>3, <2>4, <2>5, <2>7
<1>11. CASE ServerSocks
  <2>1. Tail(c2s) \in Seq(ToServer \cup {Part})
    BY <1>11, RecordType DEF ServerSocks
  <2>2. Append(s2c, TunnelData) \in Seq(ToPeer)
    BY DEF ToPeer
  <2>3. spc' \in {"socks5", "ended"} /\ out' = out /\ out = <<>> /\ asked' = asked
    BY <1>11 DEF ServerSocks
  <2>4. UNCHANGED <<serials, peer, cpc, tls, closed, net, sent, got>>
    BY <1>11 DEF ServerSocks
  <2>5. c2s' \in Seq(ToServer \cup {Part}) /\ s2c' \in Seq(ToPeer)
    BY <1>11, <2>1, <2>2 DEF ServerSocks
  <2> QED BY <2>3, <2>4, <2>5
<1>12. ASSUME NEW side \in {"peer", "server"}, Reap(side) PROVE TypeOK'
  BY <1>12 DEF Reap
<1>13. CASE NetFails
  BY <1>13 DEF NetFails
<1>14. CASE UNCHANGED vars
  BY <1>14 DEF vars
<1> QED BY <1>1, <1>2, <1>3, <1>4, <1>5, <1>6, <1>7, <1>8, <1>9, <1>10, <1>11, <1>12, <1>13, <1>14,
        <1>15
        DEF Next, ClientStep, ServerStep

\* A local endpoint that relays is not in front of a worker that has read nothing,
\* and the wires before the first request carry requests only.
LEMMA BeforeFirstStep ==
  ASSUME TypeOK, BeforeFirst, [Next]_vars
  PROVE  BeforeFirst'
<1> USE DEF BeforeFirst
<1> USE DEF PeerGoes, ServerGoes, PeerReads, PeerAtEnd
<1>0. c2s \in Seq(ToServer \cup {Part}) /\ s2c \in Seq(ToPeer) /\ serials \in SerialPairs
  BY DEF TypeOK
<1>1. CASE ClientConnect \/ ClientConnectFail \/ ClientTlsFail \/ ClientReplyEnd \/ ClientRelayEnd
  BY <1>1 DEF ClientConnect, ClientConnectFail, ClientTlsFail, ClientReplyEnd, ClientRelayEnd
<1>2. CASE ClientRequest
  <2>1. Request("GET", RequestPath(serials[1])) \in Requests
    BY <1>0, AgreedHits
  <2> QED BY <1>2, <2>1 DEF ClientRequest
<1>3. CASE ClientReply \/ ClientRelayDown \/ ClientRelayUp
  BY <1>3 DEF ClientReply, ClientRelayDown, ClientRelayUp
<1>4. CASE BrowserPart \/ \E r \in Browsing : BrowserRequest(r)
  <2>1. Browsing \cap Requests = Browsing /\ Requests \subseteq ToServer
    BY BrowsingAssumption DEF ToServer, BrowsingAssumption
  <2>2. c2s \in Seq(Requests \cup {Part}) => c2s' \in Seq(Requests \cup {Part})
    BY <1>4, <2>1, BrowserType
  <2>3. UNCHANGED <<spc, asked, s2c>> /\ cpc' = "tls"
    BY <1>4 DEF BrowserPart, BrowserRequest
  <2> QED BY <2>2, <2>3
<1>5. CASE BrowserRead \/ BrowserClose
  BY <1>5 DEF BrowserRead, BrowserClose
<1>6. CASE \/ ServerAccept \/ Negotiate \/ ServerTls \/ ServerTlsFail \/ ServerNoTls \/ ServerTimeout
           \/ ServerSelect \/ ServerWebEnd \/ ServerSocksEnd
  BY <1>6 DEF ServerAccept, Negotiate, ServerTls, ServerTlsFail, ServerNoTls, ServerTimeout,
              ServerSelect, ServerWebEnd, ServerSocksEnd
<1>7. CASE ServerFirst \/ ServerAnswer \/ ServerWeb \/ ServerSocks
  BY <1>7 DEF ServerFirst, ServerAnswer, ServerWeb, ServerSocks
<1>8. ASSUME NEW side \in {"peer", "server"}, Reap(side) PROVE BeforeFirst'
  BY <1>8 DEF Reap
<1>9. CASE NetFails \/ UNCHANGED vars
  BY <1>9 DEF NetFails, vars
<1> QED BY <1>1, <1>2, <1>3, <1>4, <1>5, <1>6, <1>7, <1>8, <1>9 DEF Next, ClientStep, ServerStep

\* The serials and the kind of peer are fixed.
LEMMA Fixed == [Next]_vars => serials' = serials /\ peer' = peer
BY DEF Next, ClientStep, ServerStep, vars, ClientConnect, ClientConnectFail, ClientRequest,
       ClientTlsFail, ClientReply, ClientReplyEnd, ClientRelayDown, ClientRelayUp,
       ClientRelayEnd, BrowserPart, BrowserRequest, BrowserRead, BrowserClose, ServerAccept, Negotiate,
       ServerTls, ServerTlsFail, ServerNoTls, ServerTimeout, ServerSelect, ServerFirst, ServerAnswer, ServerWeb, ServerWebEnd,
       ServerSocks, ServerSocksEnd, Reap, NetFails, PeerGoes, ServerGoes

\* The two ends of an agreed serial keep in step.
LEMMA ProgressStep ==
  ASSUME IInv, [Next]_vars
  PROVE  Progress'
<1> DEFINE r == Request("GET", RequestPath(serials[1]))
           Wires(cp, sp, cs, sc, cl) ==
             /\ "peer" \in cl => cp = "ended"
             /\ cp \in {"start", "tls"} =>
                  cs = <<>> /\ sc = <<>> /\ sp \in {"none", "queued", "tls", "select", "first", "ended"}
             /\ cp = "reply" =>
                  \/ /\ cs = <<r>> /\ sc = <<>>
                     /\ sp \in {"none", "queued", "tls", "select", "first", "ended"}
                  \/ cs = <<>> /\ sc = <<Status("200")>> /\ sp \in {"socks5", "ended"}
             /\ cp = "relay" =>
                  /\ sp \in {"socks5", "ended"}
                  /\ \A k \in 1..Len(cs) : cs[k] = AppData
                  /\ \A k \in 1..Len(sc) : sc[k] = TunnelData
<1> SUFFICES ASSUME Jackpot, Agreed PROVE Wires(cpc', spc', c2s', s2c', closed')
  BY Fixed, HitResponseOne DEF Progress, ReplyDue, Jackpot, Agreed
<1> USE DEF PeerGoes, ServerGoes, PeerReads, PeerAtEnd
<1>0. /\ c2s \in Seq(ToServer \cup {Part}) /\ s2c \in Seq(ToPeer) /\ serials \in SerialPairs
      /\ cpc \in ClientPC /\ spc \in ServerPC
  BY DEF IInv, TypeOK
<1>a. Wires(cpc, spc, c2s, s2c, closed)
  BY HitResponseOne DEF IInv, Progress, ReplyDue
<1>b. BeforeFirst
  BY DEF IInv
<1>c. r \in Requests /\ Hit(r)
  BY <1>0, AgreedHits
<1>d. AppData.type = "app" /\ r.type = "request" /\ r # AppData
  BY DEF AppData, Request
<1>1. CASE ClientConnect
  BY <1>1, <1>a, <1>b DEF ClientConnect, BeforeFirst
<1>2. CASE \/ ClientConnectFail \/ ClientTlsFail \/ ClientReplyEnd \/ ClientRelayEnd
           \/ BrowserRead \/ BrowserClose
  BY <1>2, <1>a DEF ClientConnectFail, ClientTlsFail, ClientReplyEnd, ClientRelayEnd,
                    BrowserRead, BrowserClose
<1>3. CASE ClientRequest
  BY <1>3, <1>a DEF ClientRequest
<1>4. CASE ClientReply
  <2>1. c2s = <<>> /\ s2c = <<Status("200")>> /\ spc \in {"socks5", "ended"}
    BY <1>4, <1>a DEF ClientReply
  <2>2. s2c' = <<>> /\ c2s' = <<>> /\ spc' = spc /\ cpc' \in {"relay", "ended"} /\ closed' = closed
    BY <1>4, <2>1 DEF ClientReply
  <2> QED BY <1>4, <1>a, <2>1, <2>2 DEF ClientReply
<1>5. CASE ClientRelayDown
  <2>1. Len(s2c') = Len(s2c) - 1 /\ \A k \in 1..Len(s2c') : s2c'[k] = s2c[k + 1]
    BY <1>5, <1>0 DEF ClientRelayDown
  <2> QED BY <1>0, <1>5, <1>a, <2>1 DEF ClientRelayDown
<1>6. CASE ClientRelayUp
  <2>1. \A k \in 1..Len(c2s') : (k \in 1..Len(c2s) /\ c2s'[k] = c2s[k]) \/ c2s'[k] = AppData
    BY <1>6, <1>0 DEF ClientRelayUp
  <2> QED BY <1>6, <1>a, <2>1 DEF ClientRelayUp
<1>7. ASSUME BrowserPart \/ \E q \in Browsing : BrowserRequest(q) PROVE FALSE
  BY <1>7 DEF BrowserPart, BrowserRequest
<1>8. CASE \/ ServerAccept \/ ServerTls \/ ServerTlsFail \/ ServerNoTls \/ ServerTimeout
           \/ ServerSelect \/ Negotiate
  BY <1>8, <1>a DEF ServerAccept, ServerTls, ServerTlsFail, ServerNoTls, ServerTimeout, ServerSelect,
                    Negotiate
<1>9. CASE ServerFirst
  <2>1. CASE ServerAtEnd /\ ServerGoes("web") /\ UNCHANGED <<c2s, s2c, out, asked>>
    <3>1. cpc = "ended"
      BY <1>0, <1>9, <2>1, <1>a, <1>d, PartAlone
         DEF ServerFirst, ClientPC, ServerAtEnd
    <3> QED BY <1>9, <2>1, <3>1 DEF ServerFirst
  <2>2. CASE ServerRecord /\ c2s' = Tail(c2s)
    <3>1. cpc = "ended" \/ (cpc = "reply" /\ c2s = <<r>> /\ s2c = <<>>)
      BY <1>0, <1>9, <2>2, <1>a DEF ServerFirst, ServerRecord, ServerReads, ClientPC
    <3>2. cpc = "ended" => cpc' = "ended"
      BY <1>9 DEF ServerFirst
    <3>3. cpc = "reply" => Head(c2s) = r /\ Tail(c2s) = <<>>
      <4>1. ASSUME NEW x PROVE Head(<<x>>) = x /\ Tail(<<x>>) = <<>>
        OBVIOUS
      <4> QED BY <3>1, <4>1
    <3>4. <<>> \o HitResponse = <<Status("200")>>
      BY HitResponseOne
    <3>5. cpc = "reply" => s2c' = <<Status("200")>> /\ spc' = "socks5"
      <4>1. cpc = "reply" => ~ServerAtEnd
        BY <1>a, <1>9 DEF ServerAtEnd, ServerFirst
      <4> QED BY <1>9, <2>2, <3>1, <3>3, <3>4, <4>1, <1>c DEF ServerFirst
    <3>6. cpc' = cpc /\ closed' = closed
      BY <1>9 DEF ServerFirst
    <3> QED BY <1>a, <2>2, <3>1, <3>2, <3>3, <3>5, <3>6
  <2> QED BY <1>9, <2>1, <2>2 DEF ServerFirst
<1>10. CASE ServerAnswer \/ ServerWeb \/ ServerWebEnd
  <2>1. cpc = "ended"
    BY <1>10, <1>a, <1>0 DEF ServerAnswer, ServerWeb, ServerWebEnd, ClientPC
  <2>2. cpc' = cpc
    BY <1>10 DEF ServerAnswer, ServerWeb, ServerWebEnd
  <2> QED BY <2>1, <2>2
<1>11. CASE ServerSocks
  <2>1. cpc \in {"relay", "ended"}
    BY <1>11, <1>a, <1>0 DEF ServerSocks, ServerRecord, ServerReads, ClientPC
  <2>2. Len(c2s') = Len(c2s) - 1 /\ \A k \in 1..Len(c2s') : c2s'[k] = c2s[k + 1]
    BY <1>11, <1>0 DEF ServerSocks, ServerRecord, ServerReads
  <2>3. \A k \in 1..Len(s2c') : (k \in 1..Len(s2c) /\ s2c'[k] = s2c[k]) \/ s2c'[k] = TunnelData
    BY <1>11, <1>0 DEF ServerSocks
  <2>4. cpc' = cpc /\ closed' = closed /\ spc' \in {"socks5", "ended"}
    BY <1>11 DEF ServerSocks
  <2>5. CASE cpc = "ended"
    BY <2>4, <2>5
  <2>6. CASE cpc = "relay"
    <3>1. /\ "peer" \notin closed
          /\ \A k \in 1..Len(c2s) : c2s[k] = AppData
          /\ \A k \in 1..Len(s2c) : s2c[k] = TunnelData
      BY <1>a, <2>6
    <3>2. \A k \in 1..Len(c2s') : k + 1 \in 1..Len(c2s)
      BY <2>2, <1>0
    <3>3. /\ \A k \in 1..Len(c2s') : c2s'[k] = AppData
          /\ \A k \in 1..Len(s2c') : s2c'[k] = TunnelData
      BY <2>2, <2>3, <3>1, <3>2
    <3> QED BY <2>4, <2>6, <3>1, <3>3
  <2> QED BY <2>1, <2>5, <2>6
<1>12. CASE ServerSocksEnd
  BY <1>12, <1>a DEF ServerSocksEnd
<1>13. ASSUME NEW side \in {"peer", "server"}, Reap(side)
       PROVE  Wires(cpc', spc', c2s', s2c', closed')
  BY <1>13, <1>a DEF Reap
<1>14. CASE NetFails \/ UNCHANGED vars
  BY <1>14, <1>a DEF NetFails, vars
<1> HIDE DEF Wires
<1> QED BY <1>1, <1>2, <1>3, <1>4, <1>5, <1>6, <1>7, <1>8, <1>9, <1>10, <1>11, <1>12, <1>13, <1>14
        DEF Next, ClientStep, ServerStep

\* The application of an agreed tunnel is handed what the SOCKS5 service sent.
LEMMA AppStep ==
  ASSUME IInv, [Next]_vars
  PROVE  AppSeesOnlyTunnelData'
<1> SUFFICES ASSUME Agreed PROVE got' \subseteq {"tunnel"}
  BY Fixed DEF AppSeesOnlyTunnelData, Agreed
<1>0. got \subseteq {"tunnel"} /\ s2c \in Seq(ToPeer)
  BY DEF IInv, AppSeesOnlyTunnelData, TypeOK
<1>1. CASE ClientRelayDown
  <2>1. \A k \in 1..Len(s2c) : s2c[k] = TunnelData
    BY <1>1 DEF IInv, Progress, ClientRelayDown
  <2>2. Head(s2c) = TunnelData
    BY <1>0, <1>1, <2>1 DEF ClientRelayDown, PeerReads
  <2>3. Head(s2c).type = "tunnel"
    BY <2>2 DEF TunnelData
  <2>4. got' = got \cup {Head(s2c).type} \/ got' = got
    BY <1>1 DEF ClientRelayDown
  <2> QED BY <1>0, <2>3, <2>4
<1>2. CASE ~ClientRelayDown
  <2>1. got' = got
    BY <1>2 DEF Next, ClientStep, ServerStep, vars, ClientConnect, ClientConnectFail,
       ClientRequest, ClientTlsFail, ClientReply, ClientReplyEnd, ClientRelayUp, ClientRelayEnd,
       BrowserPart, BrowserRequest, BrowserRead, BrowserClose, ServerAccept, Negotiate, ServerTls,
       ServerTlsFail, ServerNoTls, ServerTimeout, ServerSelect, ServerFirst, ServerAnswer, ServerWeb, ServerWebEnd, ServerSocks,
       ServerSocksEnd, Reap, NetFails, PeerGoes, ServerGoes
  <2> QED BY <1>0, <2>1
<1> QED BY <1>1, <1>2

\* A SOCKS5 session starts with the serial, and reads no request afterwards.
LEMMA SerialStep ==
  ASSUME IInv, [Next]_vars
  PROVE  TunnelOnlyOnSerial'
<1> SUFFICES ASSUME spc' = "socks5" PROVE asked' = {Request("GET", HitPath(serials[2]))}
  BY Fixed DEF TunnelOnlyOnSerial, HitPath
<1>0. BeforeFirst /\ TunnelOnlyOnSerial /\ c2s \in Seq(ToServer \cup {Part})
  BY DEF IInv, TypeOK
<1>1. CASE spc = "socks5"
  <2>1. asked' = asked
    BY <1>1 DEF Next, ClientStep, ServerStep, vars, ClientConnect, ClientConnectFail,
       ClientRequest, ClientTlsFail, ClientReply, ClientReplyEnd, ClientRelayDown, ClientRelayUp,
       ClientRelayEnd, BrowserPart, BrowserRequest, BrowserRead, BrowserClose, ServerAccept, Negotiate,
       ServerTls, ServerTlsFail, ServerNoTls, ServerTimeout, ServerSelect, ServerFirst, ServerAnswer, ServerWeb, ServerWebEnd,
       ServerSocks, ServerSocksEnd, Reap, NetFails, PeerGoes, ServerGoes
  <2> QED BY <1>0, <1>1, <2>1 DEF TunnelOnlyOnSerial
<1>2. CASE spc # "socks5"
  <2>1. /\ ServerFirst /\ ServerRecord /\ Hit(Head(c2s))
        /\ asked' = asked \cup {Head(c2s)}
    BY <1>2 DEF Next, ClientStep, ServerStep, vars, ClientConnect, ClientConnectFail,
       ClientRequest, ClientTlsFail, ClientReply, ClientReplyEnd, ClientRelayDown, ClientRelayUp,
       ClientRelayEnd, BrowserPart, BrowserRequest, BrowserRead, BrowserClose, ServerAccept, Negotiate,
       ServerTls, ServerTlsFail, ServerNoTls, ServerTimeout, ServerSelect, ServerFirst, ServerAnswer, ServerWeb, ServerWebEnd,
       ServerSocks, ServerSocksEnd, Reap, NetFails, PeerGoes, ServerGoes
  <2>2. asked = {} /\ c2s \in Seq(Requests \cup {Part})
    BY <1>0, <2>1 DEF ServerFirst, BeforeFirst
  <2>3. Head(c2s) \in Requests
    BY <2>1, <2>2, RecordType DEF ToServer
  <2>4. Head(c2s) = Request("GET", HitPath(serials[2]))
    BY <2>1, <2>3 DEF Hit, Requests, Request
  <2> QED BY <2>1, <2>2, <2>4
<1> QED BY <1>1, <1>2

-----------------------------------------------------------------------------
(* The theorems *)

\* The inductive invariant of the handshake holds in every reachable state.
THEOREM Invariant == Spec => []IInv
<1>1. Init => IInv
  BY InitOK
<1>2. IInv /\ [Next]_vars => IInv'
  <2> SUFFICES ASSUME IInv, [Next]_vars PROVE IInv'
    OBVIOUS
  <2>1. TypeOK' /\ BeforeFirst'
    BY TypeStep, BeforeFirstStep DEF IInv
  <2> QED BY <2>1, ProgressStep, AppStep, SerialStep DEF IInv
<1> QED BY <1>1, <1>2, PTL DEF Spec

\* Type correctness of the handshake.
THEOREM TypeCorrect == Spec => []TypeOK
<1>1. IInv => TypeOK
  BY DEF IInv
<1> QED BY Invariant, <1>1, PTL

\* Whatever the serials, site and interleaving: ends with the same serial never
\* disagree about what they speak.
THEOREM EndsAgree == Spec => []SameMode
<1>1. IInv => SameMode
  <2> SUFFICES ASSUME IInv, Jackpot, Agreed
      PROVE  /\ cpc = "relay" => spc \in {"socks5", "ended"}
             /\ spc \in {"answer", "web"} => cpc = "ended"
    BY DEF SameMode
  <2>1. cpc \in ClientPC
    BY DEF IInv, TypeOK
  <2> QED BY <2>1 DEF IInv, Progress, ReplyDue, ClientPC
<1> QED BY Invariant, <1>1, PTL

\* The application behind ends with the same serial is handed tunnel data only.
THEOREM AppIsClean == Spec => []AppSeesOnlyTunnelData
<1>1. IInv => AppSeesOnlyTunnelData
  BY DEF IInv
<1> QED BY Invariant, <1>1, PTL

\* A SOCKS5 session opens on the serial's request only, and on the first.
THEOREM SerialGuards == Spec => []TunnelOnlyOnSerial
<1>1. IInv => TunnelOnlyOnSerial
  BY DEF IInv
<1> QED BY Invariant, <1>1, PTL
=============================================================================
