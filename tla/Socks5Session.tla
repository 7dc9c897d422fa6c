---------------------------- MODULE Socks5Session ----------------------------
(***************************************************************************)
(* A SOCKS5 session: the application behind a local endpoint negotiates    *)
(* with SOCKS5::transfer() of the remote endpoint, through the tunnel.     *)
(*                                                                         *)
(* The local endpoint forwards whatever one recv() returns as one TLS      *)
(* record, so messages the application has sent without waiting may share  *)
(* a record.  The remote endpoint handles one message per record: what     *)
(* follows it in the record is dropped.                                    *)
(*                                                                         *)
(* A message is smaller than the smallest segment, so it is never split;   *)
(* its lengths and counts are at most 127, as the code reads them as       *)
(* signed characters.  The relaying of payload is abstract here.           *)
(***************************************************************************)
EXTENDS Naturals, Sequences

CONSTANTS
  Creds,      \* the <name, password> pairs an application may present
  UserTables, \* the tables Server::_nmpwd a behaviour may start with
  Offers,     \* the method lists an application may offer, in order
  Requests,   \* the requests an application may make
  MaxSent     \* bound on the payload sent

Methods == {"noauth", "gssapi", "usrpass"}
Cmds    == {"connect", "bind", "udp"}
Atyps   == {"ipv4", "ipv6", "domain", "other"}

ASSUME UsersAssumption    == UserTables \subseteq SUBSET Creds
ASSUME OffersAssumption   == Offers \subseteq Seq(Methods) \ {<<>>}
ASSUME RequestsAssumption == Requests \subseteq [cmd : Cmds, atyp : Atyps]
ASSUME BoundAssumption    == MaxSent \in Nat

VARIABLES
  users,    \* Server::_nmpwd: the accepted pairs
  eager,    \* whether the application sends without waiting for replies
  app,      \* what the application does next
  offered,  \* the methods it has offered
  asked,    \* whether it has sent its request
  sent,     \* number of payload messages it has sent
  out,      \* messages on their way from the application to the local endpoint
  c2s,      \* records (sequences of messages) in the tunnel
  s2c,      \* messages on their way back
  stage,    \* SOCKS5::_stage
  target,   \* the connection to the target: "none" or "up"
  shown,    \* history: the pairs the remote endpoint has read
  taken,    \* history: the types of the messages given to the target
  refused   \* history: the negotiations that were answered with a refusal

vars == <<users, eager, app, offered, asked, sent, out, c2s, s2c, stage, target, shown, taken,
          refused>>

Greeting(methods) == [type |-> "greeting", methods |-> methods]
Auth(cred)        == [type |-> "auth", cred |-> cred]
Request(r)        == [type |-> "request", cmd |-> r.cmd, atyp |-> r.atyp]
Payload           == [type |-> "payload"]
Messages == {Greeting(m) : m \in Offers} \cup {Auth(c) : c \in Creds}
              \cup {Request(r) : r \in Requests} \cup {Payload}

MethodReply(m) == [type |-> "method", result |-> m]
AuthReply(ok)  == [type |-> "auth", result |-> ok]
Reply(rep, atyp, length) == [type |-> "reply", result |-> rep, atyp |-> atyp, length |-> length]
TargetData     == [type |-> "data"]

\* The bytes of a reply that carries an address of type atyp.
LengthOf(atyp) == IF atyp = "ipv6" THEN 22 ELSE 10

Init ==
  /\ users \in UserTables
  /\ eager \in BOOLEAN
  /\ app = "start" /\ offered = {} /\ asked = FALSE /\ sent = 0
  /\ out = <<>> /\ c2s = <<>> /\ s2c = <<>>
  /\ stage = "init" /\ target = "none"
  /\ shown = {} /\ taken = {} /\ refused = {}

Server == <<users, stage, target, shown, taken, refused, c2s>>

-----------------------------------------------------------------------------
(* The application, which follows the SOCKS5 protocol *)

AppGreet ==
  /\ app = "start"
  /\ \E methods \in Offers :
       /\ out' = Append(out, Greeting(methods))
       /\ offered' = {methods[k] : k \in DOMAIN methods}
  /\ app' = "method"
  /\ UNCHANGED <<eager, asked, sent, s2c, Server>>

\* Where the application stands once it may make its request.
Ready == IF asked THEN "request" ELSE "ready"

AppReceive ==
  /\ s2c # <<>>
  /\ s2c' = Tail(s2c)
  /\ LET m == Head(s2c) IN
       \/ app = "method" /\ m.result = "noauth" /\ app' = Ready
       \/ app = "method" /\ m.result = "usrpass" /\ app' = "cred"
       \/ app = "auth" /\ m.result = "success" /\ app' = Ready
       \/ app = "request" /\ m.result = "success" /\ app' = "stream"
       \/ app = "stream" /\ app' = "stream"
       \/ /\ app \in {"method", "auth", "request"}
          /\ m.result \notin {"noauth", "usrpass", "success"}
          /\ app' = "over"
  /\ UNCHANGED <<eager, offered, asked, sent, out, Server>>

AppAuth ==
  /\ app = "cred"
  /\ \E cred \in Creds : out' = Append(out, Auth(cred))
  /\ app' = "auth"
  /\ UNCHANGED <<eager, offered, asked, sent, s2c, Server>>

\* The request, made when it may be made, or at once by an eager application.
AppRequest ==
  /\ ~asked
  /\ app = "ready" \/ (eager /\ app \in {"method", "auth"})
  /\ \E r \in Requests : out' = Append(out, Request(r))
  /\ asked' = TRUE
  /\ app' = IF app = "ready" THEN "request" ELSE app
  /\ UNCHANGED <<eager, offered, sent, s2c, Server>>

AppSend ==
  /\ app = "stream" /\ sent < MaxSent
  /\ out' = Append(out, Payload)
  /\ sent' = sent + 1
  /\ UNCHANGED <<eager, app, offered, asked, s2c, Server>>

\* The session has been closed, and everything before that was read.
AppEnd ==
  /\ app # "over" /\ stage = "fini" /\ s2c = <<>>
  /\ app' = "over"
  /\ UNCHANGED <<eager, offered, asked, sent, out, s2c, Server>>

\* The application leaves.
AppLeave ==
  /\ app # "over"
  /\ app' = "over"
  /\ UNCHANGED <<eager, offered, asked, sent, out, s2c, Server>>

-----------------------------------------------------------------------------
(* The local endpoint: read_cli() *)

\* One recv() returns the first n messages that have arrived.
Relay(n) ==
  /\ n \in 1..Len(out)
  /\ c2s' = Append(c2s, SubSeq(out, 1, n))
  /\ out' = SubSeq(out, n + 1, Len(out))
  /\ UNCHANGED <<users, eager, app, offered, asked, sent, s2c, stage, target, shown, taken,
                 refused>>

\* Client::transfer(): nothing has come from either side within the limit of its
\* select(), and it closes both.  For the application the session is over, whatever
\* it still reads of what it was sent before; what it writes is lost.
RelayTimeout ==
  /\ app # "over" /\ out = <<>>
  /\ app' = "over"
  /\ UNCHANGED <<eager, offered, asked, sent, out, s2c, Server>>

-----------------------------------------------------------------------------
(* The remote endpoint.  "Wrong" operators are bugs put in on purpose. *)

Others == <<users, eager, app, offered, asked, sent, out>>

\* transfer(): one record is read, its first message is the message.
Reads(s) == stage = s /\ c2s # <<>> /\ c2s' = Tail(c2s)
Message  == Head(Head(c2s))

Answers(reply) == s2c' = Append(s2c, reply)

\* stage_init() settles on the first method it likes.
Acceptable(m) == m = "usrpass" \/ (m = "noauth" /\ users = {})

Settles(methods, m) ==
  \/ /\ \A k \in DOMAIN methods : ~Acceptable(methods[k])
     /\ m = "unaccept"
  \/ \E k \in DOMAIN methods : /\ methods[k] = m /\ Acceptable(m)
                               /\ \A j \in 1..(k - 1) : ~Acceptable(methods[j])

StageAfter(m) == IF m = "usrpass" THEN "auth" ELSE IF m = "noauth" THEN "requ" ELSE "fini"

\* The bug: the stage is advanced without telling the application.
StageInitWrong ==
  /\ Reads("init") /\ Message.type = "greeting"
  /\ \E m \in Methods \cup {"unaccept"} :
       Settles(Message.methods, m) /\ stage' = StageAfter(m)
  /\ UNCHANGED <<Others, s2c, target, shown, taken, refused>>

\* The first message is always a greeting.
StageInit ==
  /\ Reads("init") /\ Message.type = "greeting"
  /\ \E m \in Methods \cup {"unaccept"} :
       /\ Settles(Message.methods, m)
       /\ Answers(MethodReply(m))
       /\ stage' = StageAfter(m)
       /\ refused' = IF m = "unaccept" THEN refused \cup {"method"} ELSE refused
  /\ UNCHANGED <<Others, target, shown, taken>>

\* The bug: the next stage is set before the password is compared.
StageAuthWrong ==
  /\ Reads("auth") /\ Message.type = "auth"
  /\ shown' = shown \cup {Message.cred}
  /\ stage' = "requ"
  /\ Answers(AuthReply(IF Message.cred \in users THEN "success" ELSE "refused"))
  /\ UNCHANGED <<Others, target, taken, refused>>

\* The pair is looked up.
StageAuth ==
  /\ Reads("auth") /\ Message.type = "auth"
  /\ shown' = shown \cup {Message.cred}
  /\ \/ /\ Message.cred \in users
        /\ Answers(AuthReply("success"))
        /\ stage' = "requ"
        /\ UNCHANGED refused
     \/ /\ Message.cred \notin users
        /\ Answers(AuthReply("refused"))
        /\ stage' = "fini"
        /\ refused' = refused \cup {"auth"}
  /\ UNCHANGED <<Others, target, taken>>

\* Not an authentication message.
StageAuthBad ==
  /\ Reads("auth") /\ Message.type # "auth"
  /\ Answers(AuthReply("error"))
  /\ stage' = "fini"
  /\ refused' = refused \cup {"auth"}
  /\ UNCHANGED <<Others, target, shown, taken>>

\* The bug: success whether or not the target could be reached.
StageRequUpWrong ==
  /\ Reads("requ") /\ Message.type = "request" /\ Message.cmd = "connect"
  /\ Message.atyp # "other"
  /\ Answers(Reply("success", "ipv4", 10))
  /\ stage' = "fini"
  /\ UNCHANGED <<Others, target, shown, taken, refused>>

\* CONNECT, and the target is reached.
StageRequUp ==
  /\ Reads("requ") /\ Message.type = "request" /\ Message.cmd = "connect"
  /\ Message.atyp # "other"
  /\ target' = "up"
  /\ Answers(Reply("success", IF Message.atyp = "ipv6" THEN "ipv6" ELSE "ipv4",
                   LengthOf(Message.atyp)))
  /\ stage' = "conn"
  /\ UNCHANGED <<Others, shown, taken, refused>>

\* The bug: the whole reply buffer is sent.
StageRequDownWrong ==
  /\ Reads("requ") /\ Message.type = "request" /\ Message.cmd = "connect"
  /\ Answers(Reply("hostunreach", "ipv4", 24))
  /\ stage' = "fini"
  /\ UNCHANGED <<Others, target, shown, taken, refused>>

\* CONNECT, and the target is not reached within eight seconds, or its address
\* is of an unknown type: the length of the reply stays that of an IPv4 address.
StageRequDown ==
  /\ Reads("requ") /\ Message.type = "request" /\ Message.cmd = "connect"
  /\ \/ /\ Message.atyp # "other"
        /\ Answers(Reply("hostunreach", IF Message.atyp = "ipv6" THEN "ipv6" ELSE "ipv4",
                         LengthOf("ipv4")))
     \/ /\ Message.atyp = "other"
        /\ Answers(Reply("error", "other", LengthOf("ipv4")))
  /\ stage' = "fini"
  /\ refused' = refused \cup {"request"}
  /\ UNCHANGED <<Others, target, shown, taken>>

\* The bug: the session waits for another request.
StageRequOtherWrong ==
  /\ Reads("requ") /\ ~(Message.type = "request" /\ Message.cmd = "connect")
  /\ UNCHANGED <<Others, s2c, stage, target, shown, taken, refused>>

\* Any other command, or not a request: no reply, the session ends.
StageRequOther ==
  /\ Reads("requ") /\ ~(Message.type = "request" /\ Message.cmd = "connect")
  /\ stage' = "fini"
  /\ refused' = refused \cup {"request"}
  /\ UNCHANGED <<Others, s2c, target, shown, taken>>

\* stage_conn(): a record goes to the target as it is.
ConnUp ==
  /\ Reads("conn")
  /\ taken' = taken \cup {Head(c2s)[k].type : k \in DOMAIN Head(c2s)}
  /\ UNCHANGED <<Others, s2c, stage, target, shown, refused>>

\* stage_conn(): the target answers.
ConnDown ==
  /\ stage = "conn" /\ Len(s2c) < 2      \* bound on what is in flight
  /\ Answers(TargetData)
  /\ UNCHANGED <<Others, c2s, stage, target, shown, taken, refused>>

\* stage_conn() ends: the target or the application has closed, or neither has
\* sent anything in time, upon which timeout() writes a reply into the stream.
ConnEnd ==
  /\ stage = "conn"
  /\ stage' = "fini"
  /\ \/ UNCHANGED s2c
     \/ Answers(Reply("ttlexpired", "ipv4", 10))
  /\ UNCHANGED <<Others, c2s, target, shown, taken, refused>>

\* The read of transfer() meets the end of the stream.
ReadEnd ==
  /\ stage \in {"init", "auth", "requ"} /\ app = "over" /\ out = <<>> /\ c2s = <<>>
  /\ stage' = "fini"
  /\ UNCHANGED <<Others, c2s, s2c, target, shown, taken, refused>>

ServerStep ==
  \/ StageInit \/ StageAuth \/ StageAuthBad \/ StageRequUp \/ StageRequDown \/ StageRequOther
  \/ ReadEnd

AppStep == AppReceive \/ AppEnd
RelayStep == \E n \in 1..Len(out) : Relay(n)

Next ==
  \/ AppGreet \/ AppAuth \/ AppRequest \/ AppSend \/ AppLeave \/ AppStep
  \/ RelayStep \/ RelayTimeout
  \/ ServerStep \/ ConnUp \/ ConnDown \/ ConnEnd

Spec == Init /\ [][Next]_vars

\* The relay and the session's worker run, and the application reads replies.
\* It need not send anything nor leave, and the limit of the relay need not be near.
Fairness == WF_vars(RelayStep) /\ WF_vars(ServerStep) /\ WF_vars(AppStep)

FairSpec == Spec /\ Fairness
-----------------------------------------------------------------------------
(* Properties *)

AppPC   == {"start", "method", "cred", "auth", "ready", "request", "stream", "over"}
Stages  == {"init", "auth", "requ", "conn", "fini"}
Replies == {MethodReply(m) : m \in Methods \cup {"unaccept"}}
             \cup {AuthReply(r) : r \in {"success", "refused", "error"}}
             \cup {Reply(r, a, n) : r \in {"success", "hostunreach", "error", "ttlexpired"},
                                    a \in Atyps, n \in {10, 22}}
             \cup {TargetData}

\* Stages, wires and histories keep their types.
TypeOK ==
  /\ users \in UserTables /\ eager \in BOOLEAN
  /\ app \in AppPC /\ offered \subseteq Methods /\ asked \in BOOLEAN /\ sent \in 0..MaxSent
  /\ out \in Seq(Messages) /\ c2s \in Seq(Seq(Messages) \ {<<>>}) /\ s2c \in Seq(Replies)
  /\ stage \in Stages /\ target \in {"none", "up"}
  /\ shown \subseteq Creds /\ taken \subseteq {"greeting", "auth", "request", "payload"}
  /\ refused \subseteq {"method", "auth", "request"}

\* No target is dialled, and no request read, for an application that has not
\* shown an accepted pair, unless the remote endpoint has no users at all; not
\* even when messages share records or come early.
AuthBeforeConnect ==
  stage \in {"requ", "conn"} \/ target = "up" =>
    users = {} \/ shown \cap users # {}

Quiet == out = <<>> /\ c2s = <<>> /\ s2c = <<>>

\* Whenever nothing is in flight, an application that waits for its replies and
\* the session stand at the same point of the protocol: in particular neither
\* waits for a message the other believes to have sent.
InStep ==
  ~eager /\ Quiet /\ stage # "fini" /\ app # "over" =>
    <<app, stage>> \in {<<"start", "init">>, <<"cred", "auth">>, <<"ready", "requ">>,
                        <<"stream", "conn">>}

\* An application that was told of success has a target behind it, and the
\* target is given payload only, never a message of the negotiation.
StreamReachesTarget == (app = "stream" => target = "up") /\ taken \subseteq {"payload"}

Waiting == app \in {"method", "auth", "request"}

\* An application that sends one message at a time is answered or cut off: the
\* negotiation never leaves it waiting.
Answered == ~eager /\ Waiting ~> ~Waiting

\* A remote endpoint without users asks for no password (jackpot.1:64): an
\* application that offers to go without is not refused for it.
OpenToAll ==
  ~eager /\ users = {} /\ "noauth" \in offered => refused \cap {"method", "auth"} = {}

-----------------------------------------------------------------------------
(* The inductive invariant behind InStep (theorems in Socks5SessionProofs) *)

\* Message m is on its way to the session, which is at stage s.
Sent(m, s) == /\ \/ out = <<m>> /\ c2s = <<>>
                 \/ out = <<>> /\ c2s = << <<m>> >>
              /\ s2c = <<>> /\ stage = s

\* Reply m is on its way to the application, the session has gone on to stage s.
Replied(m, s) == out = <<>> /\ c2s = <<>> /\ s2c = <<m>> /\ stage = s

\* What is in flight and where the session is, at each point of an application
\* that waits for its replies.
Turn ==
  ~eager =>
    /\ app = "start" => Quiet /\ stage = "init" /\ ~asked
    /\ app = "method" =>
         /\ ~asked
         /\ \/ \E methods \in Offers : Sent(Greeting(methods), "init")
            \/ \E m \in {"noauth", "usrpass", "unaccept"} :
                 Replied(MethodReply(m), StageAfter(m))
    /\ app = "cred" => Quiet /\ stage = "auth" /\ ~asked
    /\ app = "auth" =>
         /\ ~asked
         /\ \/ \E cred \in Creds : Sent(Auth(cred), "auth")
            \/ Replied(AuthReply("success"), "requ")
            \/ Replied(AuthReply("refused"), "fini")
    /\ app = "ready" => Quiet /\ stage = "requ" /\ ~asked
    /\ app = "request" =>
         \/ \E r \in Requests : Sent(Request(r), "requ")
         \/ stage \in {"conn", "fini"}
    /\ app = "stream" => stage \in {"conn", "fini"}

\* An application that waits for the reply to its request has one coming, once
\* the target is connected.
ReplyComing ==
  ~eager /\ app = "request" /\ stage = "conn" =>
    out = <<>> /\ c2s = <<>> /\ s2c # <<>> /\ Head(s2c).result = "success"

IInv == TypeOK /\ AuthBeforeConnect /\ Turn /\ ReplyComing

-----------------------------------------------------------------------------
(* The inductive invariant behind StreamReachesTarget, for eager applications too *)

\* The types of the messages in s, and whether one is on its way to the session.
Kinds(s)    == {s[k].type : k \in DOMAIN s}
InFlight(t) == t \in Kinds(out) \/ \E i \in DOMAIN c2s : t \in Kinds(c2s[i])

\* There is never more than one of them: not in what the application has written,
\* nor in two of the records and that.
Once(t) ==
  /\ \A j, k \in DOMAIN out : out[j].type = t /\ out[k].type = t => j = k
  /\ \A i \in DOMAIN c2s : t \in Kinds(c2s[i]) =>
       /\ t \notin Kinds(out)
       /\ \A j \in DOMAIN c2s : t \in Kinds(c2s[j]) => i = j

Negotiation == {"greeting", "auth", "request"}

\* What may be under way to the session at each of its stages, and what it then
\* cannot be sent any more.
Upstream ==
  /\ \A t \in Negotiation : Once(t)
  /\ InFlight("greeting") => stage = "init"
  /\ InFlight("auth") => stage \in {"auth", "fini"} /\ app \notin {"start", "method", "cred"}
  /\ InFlight("request") => asked
  /\ stage \in {"requ", "conn"} => app # "cred"
  /\ stage = "conn" => asked /\ ~InFlight("request")
  /\ taken \subseteq {"payload"}

\* The replies under way and what the application waits for.
IsAuth(k) == s2c[k].type = "auth"

Downstream ==
  /\ stage = "init" => s2c = <<>> /\ app \in {"start", "method", "over"}
  /\ app = "start" => stage = "init" /\ out = <<>> /\ c2s = <<>>
  /\ app = "method" /\ stage # "init" =>
       /\ s2c # <<>> /\ s2c[1].type = "method"
       /\ s2c[1].result = "usrpass" => stage \notin {"requ", "conn"}
       /\ s2c[1].result = "noauth" => stage # "auth" /\ \A k \in DOMAIN s2c : ~IsAuth(k)
  /\ \A j, k \in DOMAIN s2c : IsAuth(j) /\ IsAuth(k) => j = k
  /\ \A k \in DOMAIN s2c : IsAuth(k) => stage # "auth"
  /\ (stage = "auth" \/ \E k \in DOMAIN s2c : IsAuth(k)) =>
       app \in {"method", "cred", "auth", "over"} \/ target = "up"
  /\ stage \in {"init", "auth", "requ"} => target = "none"
  /\ stage = "conn" => target = "up"
  /\ \A k \in DOMAIN s2c :
       s2c[k].type = "data" \/ (s2c[k].type = "reply" /\ s2c[k].result = "success") =>
         target = "up"
  /\ app = "stream" => target = "up"
=============================================================================
