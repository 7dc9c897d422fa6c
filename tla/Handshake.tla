------------------------------ MODULE Handshake ------------------------------
(***************************************************************************)
(* How a connection to the remote endpoint's TLS port becomes a tunnel or  *)
(* an HTTP session.  The peer is the worker of a local endpoint            *)
(* (Client::init, loc_accept, then transfer) or a browser; the remote      *)
(* endpoint's worker is SOCKS5::init and soc_accept, then SOCKS5::transfer *)
(* or WebSrv::transfer.                                                    *)
(*                                                                         *)
(* Both ends are configured with a serial.  The local endpoint asks for    *)
(* the path made from its serial and takes any answer with code 200 for    *)
(* the tunnel; the remote endpoint opens the tunnel only for the path made *)
(* from its own serial and answers everything else from the web site.      *)
(*                                                                         *)
(* Reads from a TLS session and writes to it block without a timeout, in   *)
(* the TLS handshake too; only the select() before the first request and   *)
(* the relays' and the web service's select() are timed.  A select() sees  *)
(* the first byte of a record; the read after it waits for the whole.      *)
(***************************************************************************)
EXTENDS Naturals, Sequences

CONSTANTS
  Names,         \* file names and serials without their leading slashes
  SerialPairs,   \* the <<local, remote>> serials a behaviour may start with
  NoRootfs,      \* Server::_norootfs: no web archive is configured
  Site,          \* the archive: file name -> [code, rest]; the name "" is the index file
  Browsing,      \* the requests a browser may send
  Cap,           \* records the connection holds on their way to the peer
  MaxSent,       \* bound on what the browser or the application sends
  NetMayFail     \* whether the network may stop delivering

Codes   == {"200", "301", "400", "404"}
Methods == {"GET", "other"}

\* A serial, or the path of a request: leading slashes, then the name.
Paths == [slashes : Nat, name : Names]
Path(slashes, name) == [slashes |-> slashes, name |-> name]
Root == Path(1, "")

\* Records.  An HTTP response is what one read of the handshake buffer takes,
\* with the status line, and the pieces of a page that does not fit in it.
Requests == [type : {"request"}, cmd : Methods, path : Paths]
Request(cmd, path) == [type |-> "request", cmd |-> cmd, path |-> path]
AppData    == [type |-> "app"]      \* what the SOCKS5 application sends
TunnelData == [type |-> "tunnel"]   \* what the SOCKS5 service sends
PageData   == [type |-> "page"]
Part       == [type |-> "part"]     \* the first bytes of a record
Status(code) == [type |-> "http", code |-> code]
ToServer == Requests \cup {AppData}
ToPeer   == {Status(code) : code \in Codes} \cup {PageData, TunnelData}

ASSUME NamesAssumption    == "" \in Names
ASSUME SerialsAssumption  == SerialPairs \subseteq Paths \X Paths
ASSUME SiteAssumption     == /\ NoRootfs \in BOOLEAN
                             /\ \A n \in DOMAIN Site : /\ Site[n].code \in {"200", "301"}
                                                       /\ Site[n].rest \in Nat
ASSUME BrowsingAssumption == Browsing \subseteq Requests
ASSUME BoundsAssumption   == Cap \in Nat \ {0} /\ MaxSent \in Nat /\ NetMayFail \in BOOLEAN

VARIABLES
  serials,  \* Server::_serial of the local and of the remote endpoint
  peer,     \* who connects: "jackpot" (a local endpoint) or "browser"
  cpc,      \* what the local endpoint's worker (or the browser) does next
  spc,      \* what the remote endpoint's worker does next
  tls,      \* whether the TLS session has been negotiated
  c2s,      \* records on their way to the remote endpoint
  s2c,      \* records on their way to the peer
  out,      \* what the remote endpoint has still to write of a page
  closed,   \* the ends that have closed the connection
  net,      \* whether the network delivers
  sent,     \* number of records the browser or the application has sent
  asked,    \* history: requests the remote endpoint has read
  got       \* history: kinds of records handed to the application

vars == <<serials, peer, cpc, spc, tls, c2s, s2c, out, closed, net, sent, asked, got>>

Init ==
  /\ serials \in SerialPairs
  /\ peer \in {"jackpot", "browser"}
  /\ cpc = "start" /\ spc = "none"
  /\ tls = FALSE
  /\ c2s = <<>> /\ s2c = <<>> /\ out = <<>>
  /\ closed = {}
  /\ net = "up"
  /\ sent = 0
  /\ asked = {} /\ got = {}

-----------------------------------------------------------------------------
(* The serial and the web site.  "Wrong" operators are bugs put in on *)
(* purpose, one before the definition it stands in for.               *)

Response(code, rest) == [k \in 1..(rest + 1) |-> IF k = 1 THEN Status(code) ELSE PageData]

\* "GET /" + _serial
RequestPath(serial) == Path(serial.slashes + 1, serial.name)

\* The bug: the slash is never put before the serial.
HitPathWrong(serial) == serial

\* ssr: a slash is put before a serial that does not start with one.
HitPath(serial) == IF serial.slashes > 0 THEN serial ELSE Path(1, serial.name)

\* The path finds a file of the archive: repeated slashes are skipped, except
\* that only "/" itself is the index.
Found(path) == path.name \in DOMAIN Site /\ (path.name = "" => path = Root)

\* The web service's answer to a request.
Answer(r) ==
  IF r.cmd # "GET" THEN Response("400", 0)
  ELSE IF NoRootfs THEN Response(IF r.path = Root THEN "200" ELSE "404", 0)
  ELSE IF Found(r.path) THEN Response(Site[r.path.name].code, Site[r.path.name].rest)
  ELSE Response("404", 0)

\* The bug: the welcome page is longer than the buffer it is read into.
HitResponseLongWrong == Response("200", 1)

\* The bug: a hit is not answered.
HitResponseNoneWrong == <<>>

\* DEF_CTX_SUCCESS
HitResponse == Response("200", 0)

\* The bug: the method is not compared.
HitWrong(r) == r.path = HitPath(serials[2])

Hit(r) == r.cmd = "GET" /\ r.path = HitPath(serials[2])

Delivers == net = "up"
\* select() of the remote endpoint returns; a read of an end returns: a record, or
\* the end of the stream.
ServerReads  == Delivers /\ c2s # <<>>
ServerRecord == ServerReads /\ Head(c2s) # Part
ServerAtEnd  == Delivers /\ c2s \in {<<>>, <<Part>>} /\ "peer" \in closed
PeerReads   == Delivers /\ s2c # <<>>
PeerAtEnd   == Delivers /\ s2c = <<>> /\ "server" \in closed

PeerGoes(label)   == cpc' = label /\ UNCHANGED <<serials, peer, spc, tls, out, closed, net, asked>>
ServerGoes(label) == spc' = label /\ UNCHANGED <<serials, peer, cpc, tls, closed, net, sent, got>>

-----------------------------------------------------------------------------
(* The local endpoint's worker *)

Jackpot == peer = "jackpot"

\* _host.connect(): the remote endpoint's kernel accepts, or four waits of two
\* seconds pass, or the connection is refused.
ClientConnect ==
  /\ cpc = "start" /\ Delivers
  /\ cpc' = "tls" /\ spc' = "queued"
  /\ UNCHANGED <<serials, peer, tls, c2s, s2c, out, closed, net, sent, asked, got>>

ClientConnectFail ==
  /\ Jackpot /\ cpc = "start"
  /\ PeerGoes("ended")
  /\ UNCHANGED <<c2s, s2c, sent, got>>

\* _tls.connect() returns and loc_accept() writes the request: the empty send
\* buffer is writable at once, so the select() before it never times out.
ClientRequest ==
  /\ Jackpot /\ cpc = "tls" /\ tls
  /\ c2s' = Append(c2s, Request("GET", RequestPath(serials[1])))
  /\ PeerGoes("reply")
  /\ UNCHANGED <<s2c, sent, got>>

\* The TLS handshake fails because the other end is gone.
ClientTlsFail ==
  /\ Jackpot /\ cpc = "tls" /\ ~tls /\ PeerAtEnd
  /\ PeerGoes("ended")
  /\ UNCHANGED <<c2s, s2c, sent, got>>

\* The blocking read of loc_accept(), which looks at the status code only.
ClientReply ==
  /\ Jackpot /\ cpc = "reply" /\ PeerReads
  /\ s2c' = Tail(s2c)
  /\ PeerGoes(IF Head(s2c).type = "http" /\ Head(s2c).code = "200" THEN "relay" ELSE "ended")
  /\ UNCHANGED <<c2s, sent, got>>

ClientReplyEnd ==
  /\ Jackpot /\ cpc = "reply" /\ PeerAtEnd
  /\ PeerGoes("ended")
  /\ UNCHANGED <<c2s, s2c, sent, got>>

\* transfer(): what the TLS session delivers goes to the application.
ClientRelayDown ==
  /\ Jackpot /\ cpc = "relay" /\ PeerReads
  /\ s2c' = Tail(s2c)
  /\ \/ got' = got \cup {Head(s2c).type} /\ PeerGoes("relay")
     \/ PeerGoes("ended") /\ UNCHANGED got    \* the application is gone
  /\ UNCHANGED <<c2s, sent>>

\* transfer(): what the application sends goes into the TLS session.
ClientRelayUp ==
  /\ Jackpot /\ cpc = "relay" /\ sent < MaxSent
  /\ sent' = sent + 1
  /\ c2s' = Append(c2s, AppData)
  /\ PeerGoes("relay")
  /\ UNCHANGED <<s2c, got>>

\* transfer() ends: the application or the remote endpoint has closed, or
\* nothing has come from either for _ctimeout seconds.
ClientRelayEnd ==
  /\ Jackpot /\ cpc = "relay" /\ ~PeerReads
  /\ PeerGoes("ended")
  /\ UNCHANGED <<c2s, s2c, sent, got>>

-----------------------------------------------------------------------------
(* A browser *)

Begun == c2s # <<>> /\ c2s[Len(c2s)] = Part

\* The first bytes of a record are sent, or arrive ahead of the rest.
BrowserPart ==
  /\ ~Jackpot /\ cpc = "tls" /\ tls /\ sent < MaxSent /\ ~Begun
  /\ c2s' = Append(c2s, Part)
  /\ PeerGoes("tls")
  /\ UNCHANGED <<s2c, sent, got>>

\* A record, or the rest of one.
BrowserRequest(r) ==
  /\ ~Jackpot /\ cpc = "tls" /\ tls /\ sent < MaxSent
  /\ sent' = sent + 1
  /\ c2s' = IF Begun THEN [c2s EXCEPT ![Len(c2s)] = r] ELSE Append(c2s, r)
  /\ PeerGoes("tls")
  /\ UNCHANGED <<s2c, got>>

BrowserRead ==
  /\ ~Jackpot /\ cpc = "tls" /\ PeerReads
  /\ s2c' = Tail(s2c)
  /\ PeerGoes("tls")
  /\ UNCHANGED <<c2s, sent, got>>

BrowserClose ==
  /\ ~Jackpot /\ cpc \in {"start", "tls"}
  /\ PeerGoes("ended")
  /\ UNCHANGED <<c2s, s2c, sent, got>>

-----------------------------------------------------------------------------
(* The remote endpoint *)

\* soc_accept_cb: the event loop accepts the connection and starts the worker.
ServerAccept ==
  /\ spc = "queued"
  /\ ServerGoes("tls")
  /\ UNCHANGED <<c2s, s2c, out, asked>>

\* Both ends are in the TLS handshake; neither verifies a certificate.
Negotiate ==
  /\ cpc = "tls" /\ spc = "tls" /\ ~tls /\ Delivers
  /\ tls' = TRUE
  /\ UNCHANGED <<serials, peer, cpc, spc, c2s, s2c, out, closed, net, sent, asked, got>>

\* _tls.accept() returns.
ServerTls ==
  /\ spc = "tls" /\ tls
  /\ ServerGoes("select")
  /\ UNCHANGED <<c2s, s2c, out, asked>>

ServerTlsFail ==
  /\ spc = "tls" /\ ~tls /\ ServerAtEnd
  /\ ServerGoes("ended")
  /\ UNCHANGED <<c2s, s2c, out, asked>>

\* No certificate has been configured, so there is no TLS context, or the two
\* ends have no version or cipher in common.
ServerNoTls ==
  /\ spc = "tls" /\ ~tls
  /\ ServerGoes("ended")
  /\ UNCHANGED <<c2s, s2c, out, asked>>

\* The bug: the wait for the first request is not timed.
ServerTimeoutWrong == FALSE

\* select(): no request within _ctimeout seconds.
ServerTimeout ==
  /\ spc = "select" /\ ~ServerReads /\ ~ServerAtEnd
  /\ ServerGoes("ended")
  /\ UNCHANGED <<c2s, s2c, out, asked>>

\* select() has returned: soc_accept() reads.
ServerSelect ==
  /\ spc = "select" /\ (ServerReads \/ ServerAtEnd)
  /\ ServerGoes("first")
  /\ UNCHANGED <<c2s, s2c, out, asked>>

\* soc_accept(): the first request decides.  A read that fails leads to the web
\* service like a request for a page.  The answer to the serial is one record,
\* the first on this connection: its write does not wait.
ServerFirst ==
  /\ spc = "first"
  /\ \/ /\ ServerRecord
        /\ c2s' = Tail(c2s)
        /\ asked' = asked \cup {Head(c2s)}
        /\ \/ /\ Hit(Head(c2s))
              /\ s2c' = s2c \o HitResponse
              /\ ServerGoes("socks5")
              /\ UNCHANGED out
           \/ /\ ~Hit(Head(c2s))
              /\ out' = Answer(Head(c2s))
              /\ ServerGoes("answer")
              /\ UNCHANGED s2c
     \/ /\ ServerAtEnd
        /\ ServerGoes("web")
        /\ UNCHANGED <<c2s, s2c, out, asked>>

\* The write of a page, of the first answer or of a later one: it goes on as the
\* connection takes it, and fails when the peer has closed.  Its result is not
\* looked at.
ServerAnswer ==
  /\ spc = "answer"
  /\ \/ /\ Len(s2c) < Cap
        /\ s2c' = Append(s2c, Head(out)) /\ out' = Tail(out)
        /\ ServerGoes(IF Tail(out) = <<>> THEN "web" ELSE "answer")
     \/ /\ "peer" \in closed
        /\ out' = <<>>
        /\ ServerGoes("web")
        /\ UNCHANGED s2c
  /\ UNCHANGED <<c2s, asked>>

\* WebSrv::transfer(): requests are answered, anything else ends the session.
ServerWeb ==
  /\ spc = "web" /\ ServerRecord
  /\ c2s' = Tail(c2s)
  /\ \/ /\ Head(c2s).type = "request"
        /\ asked' = asked \cup {Head(c2s)}
        /\ out' = Answer(Head(c2s))
        /\ ServerGoes("answer")
     \/ /\ Head(c2s).type # "request"
        /\ ServerGoes("ended")
        /\ UNCHANGED <<out, asked>>
  /\ UNCHANGED s2c

\* The end of the stream, or the web service's timeout.
ServerWebEnd ==
  /\ spc = "web" /\ (~ServerReads \/ ServerAtEnd)
  /\ ServerGoes("ended")
  /\ UNCHANGED <<c2s, s2c, out, asked>>

\* The bug: the application's record is sent back.
ServerSocksWrong ==
  /\ spc = "socks5" /\ ServerRecord
  /\ c2s' = Tail(c2s)
  /\ s2c' = Append(s2c, Head(c2s))
  /\ ServerGoes("socks5")
  /\ UNCHANGED <<out, asked>>

\* SOCKS5::transfer(): a SOCKS5 message is answered and the session goes on or
\* ends; what is not SOCKS5 is answered 0xff and ends the session.
ServerSocks ==
  /\ spc = "socks5" /\ ServerRecord
  /\ c2s' = Tail(c2s)
  /\ s2c' = Append(s2c, TunnelData)
  /\ \/ Head(c2s).type = "app" /\ ServerGoes("socks5")
     \/ ServerGoes("ended")
  /\ UNCHANGED <<out, asked>>

ServerSocksEnd ==
  /\ spc = "socks5" /\ ServerAtEnd
  /\ ServerGoes("ended")
  /\ UNCHANGED <<c2s, s2c, out, asked>>

-----------------------------------------------------------------------------
(* Closing, and the network *)

\* The worker has called stop(): its object is reaped and the connection closed.
Reap(side) ==
  /\ side \notin closed
  /\ (IF side = "peer" THEN cpc ELSE spc) = "ended"
  /\ closed' = closed \cup {side}
  /\ UNCHANGED <<serials, peer, cpc, spc, tls, c2s, s2c, out, net, sent, asked, got>>

\* The network delivers nothing from now on, and reports nothing.
NetFails ==
  /\ NetMayFail /\ net = "up"
  /\ net' = "down"
  /\ UNCHANGED <<serials, peer, cpc, spc, tls, c2s, s2c, out, closed, sent, asked, got>>

\* Steps of the local endpoint's worker that wait for nobody's decision.
ClientStep ==
  \/ ClientConnect \/ ClientConnectFail \/ ClientRequest \/ ClientTlsFail
  \/ ClientReply \/ ClientReplyEnd \/ ClientRelayDown \/ ClientRelayEnd

ServerStep ==
  \/ ServerAccept \/ ServerTls \/ ServerTlsFail \/ ServerTimeout \/ ServerSelect
  \/ ServerFirst \/ ServerAnswer
  \/ ServerWeb \/ ServerWebEnd \/ ServerSocks \/ ServerSocksEnd

Next ==
  \/ ClientStep \/ ServerStep \/ Negotiate \/ ServerNoTls
  \/ ClientRelayUp
  \/ (\E r \in Browsing : BrowserRequest(r))
  \/ BrowserPart \/ BrowserRead \/ BrowserClose
  \/ \E side \in {"peer", "server"} : Reap(side)
  \/ NetFails

Spec == Init /\ [][Next]_vars

\* Both workers run, unless they wait in a read or a write, and TLS libraries that
\* can talk do.  Nobody has to send, browse, read or close, ended workers may
\* never be reaped, and the network may fail.
Fairness == WF_vars(Jackpot /\ ClientStep) /\ WF_vars(ServerStep) /\ WF_vars(Negotiate)

FairSpec == Spec /\ Fairness
-----------------------------------------------------------------------------
(* Properties *)

ServerPC == {"none", "queued", "tls", "select", "first", "answer", "socks5", "web", "ended"}
ClientPC == {"start", "tls", "reply", "relay", "ended"}

\* Control points, stream directions and histories keep their types.
TypeOK ==
  /\ serials \in SerialPairs /\ peer \in {"jackpot", "browser"}
  /\ cpc \in ClientPC /\ spc \in ServerPC
  /\ tls \in BOOLEAN /\ net \in {"up", "down"}
  /\ c2s \in Seq(ToServer \cup {Part}) /\ s2c \in Seq(ToPeer)
  /\ out \in Seq(ToPeer) /\ (spc = "answer" <=> out # <<>>)
  /\ asked \subseteq ToServer
  /\ closed \subseteq {"peer", "server"}
  /\ sent \in 0..MaxSent
  /\ got \subseteq {"http", "page", "tunnel"}

\* The two ends have the same serial, written without a leading slash.
Agreed == serials[1] = serials[2] /\ serials[1].slashes = 0

\* With the same serial at both ends, a local endpoint that relays is connected
\* to a SOCKS5 session, and the remote endpoint does not take it for a browser
\* unless it has hung up: the two ends never disagree about what they speak.
SameMode ==
  Jackpot /\ Agreed =>
    /\ cpc = "relay" => spc \in {"socks5", "ended"}
    /\ spc \in {"answer", "web"} => cpc = "ended"

\* With the same serial at both ends, the application is handed SOCKS5 data
\* only: the HTTP answer to the serial is consumed to its end by the handshake.
AppSeesOnlyTunnelData == Agreed => got \subseteq {"tunnel"}

\* A SOCKS5 session is open only on a connection whose first and only request
\* was a GET of the remote endpoint's serial; a session that has asked for
\* anything else stays on the web site.
TunnelOnlyOnSerial ==
  spc = "socks5" => asked = {Request("GET", HitPath(serials[2]))}

\* The remote endpoint's worker is held up: by a record of which only a part has
\* come, or by a peer that does not read the page.
ServerHeld ==
  \/ spc = "first" /\ ~ServerRecord /\ ~ServerAtEnd
  \/ spc = "answer" /\ Len(s2c) >= Cap /\ "peer" \notin closed

\* Once TLS is up, the remote endpoint's worker leaves its handshake, whatever the
\* peer and the network do, but for two things that only the peer and the network
\* can end: a record that is never completed and a page that is never read.  The
\* timeout covers neither.
ServerHandshakeEnds ==
  spc = "select" ~> (spc \in {"socks5", "web", "ended"} \/ []ServerHeld)

\* The cleanup threads come round: when they do is EndedIsReaped of Lifecycle.
Reaped == \A side \in {"peer", "server"} : WF_vars(Reap(side))

\* As long as the network delivers, and ended workers are reaped, a local endpoint's
\* worker that has connected gets its tunnel or gives up: the two workers do not
\* wait for each other for ever.
ClientHandshakeEnds ==
  Reaped => (Jackpot /\ cpc \in {"tls", "reply"} ~> cpc \in {"relay", "ended"} \/ net = "down")

\* A connection becomes a tunnel only if the serial matched (jackpot.1:10): a
\* local endpoint that relays is not talking to the web site.
RelayOnlyInTunnel == Jackpot /\ cpc = "relay" => spc # "web"

\* A local endpoint started with the serial of the remote endpoint is switched
\* into the tunnel (jackpot.1:77): it is never left on the web site.
SameSerialTunnels ==
  Jackpot /\ serials[1] = serials[2] /\ spc = "web" => cpc = "ended"

-----------------------------------------------------------------------------
(* The inductive invariant (theorems in HandshakeProofs) *)

\* Until the remote endpoint has read a request, nothing but requests is on its
\* way to it and it has said nothing.
BeforeFirst ==
  /\ cpc = "start" => spc = "none"
  /\ spc \in {"none", "queued", "tls", "select", "first"} =>
       asked = {} /\ s2c = <<>> /\ c2s \in Seq(Requests \cup {Part}) /\ cpc # "relay"

\* The request of a local endpoint is on its way, or was read and answered.
ReplyDue ==
  \/ /\ c2s = <<Request("GET", RequestPath(serials[1]))>> /\ s2c = <<>>
     /\ spc \in {"none", "queued", "tls", "select", "first", "ended"}
  \/ c2s = <<>> /\ s2c = HitResponse /\ spc \in {"socks5", "ended"}

\* What is on the wires and where the remote worker is, for each step of the
\* local worker.
Progress ==
  Jackpot /\ Agreed =>
    /\ "peer" \in closed => cpc = "ended"
    /\ cpc \in {"start", "tls"} =>
         /\ c2s = <<>> /\ s2c = <<>>
         /\ spc \in {"none", "queued", "tls", "select", "first", "ended"}
    /\ cpc = "reply" => ReplyDue
    /\ cpc = "relay" =>
         /\ spc \in {"socks5", "ended"}
         /\ \A k \in 1..Len(c2s) : c2s[k] = AppData
         /\ \A k \in 1..Len(s2c) : s2c[k] = TunnelData

IInv == TypeOK /\ BeforeFirst /\ Progress /\ AppSeesOnlyTunnelData /\ TunnelOnlyOnSerial
=============================================================================
