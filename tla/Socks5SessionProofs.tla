------------------------- MODULE Socks5SessionProofs -------------------------
(***************************************************************************)
(* Proofs about Socks5Session, for any users, method lists, requests and   *)
(* bounds: type correctness, AuthBeforeConnect (which is inductive by      *)
(* itself) and InStep, by way of Turn, which says what is in flight at     *)
(* each point of the negotiation.  StreamReachesTarget, for applications   *)
(* that send ahead too, rests on SInv: what may be under way at each stage.*)
(***************************************************************************)
EXTENDS Socks5Session, SequenceTheorems, TLAPS

-----------------------------------------------------------------------------
(* Lemmas *)

\* The messages the actions put on the wires are well typed.
LEMMA MessageTypes ==
  /\ \A methods \in Offers : Greeting(methods) \in Messages
  /\ \A cred \in Creds : Auth(cred) \in Messages
  /\ \A r \in Requests : Request(r) \in Messages
  /\ Payload \in Messages
BY DEF Messages

\* So are the replies.
LEMMA ReplyTypes ==
  /\ \A m \in Methods \cup {"unaccept"} : MethodReply(m) \in Replies
  /\ \A r \in {"success", "refused", "error"} : AuthReply(r) \in Replies
  /\ \A r \in {"success", "hostunreach", "error", "ttlexpired"}, a \in Atyps, n \in {10, 22} :
       Reply(r, a, n) \in Replies
  /\ TargetData \in Replies
BY DEF Replies

\* What a message carries is typed by its tag.
LEMMA MessageTags ==
  ASSUME NEW m \in Messages
  PROVE  /\ m.type \in {"greeting", "auth", "request", "payload"}
         /\ m.type = "auth" => m.cred \in Creds
<1>1. ASSUME NEW methods \in Offers, m = Greeting(methods) PROVE m.type = "greeting"
  BY <1>1 DEF Greeting
<1>2. ASSUME NEW cred \in Creds, m = Auth(cred) PROVE m.type = "auth" /\ m.cred \in Creds
  BY <1>2 DEF Auth
<1>3. ASSUME NEW r \in Requests, m = Request(r) PROVE m.type = "request"
  BY <1>3 DEF Request
<1>4. CASE m = Payload
  BY <1>4 DEF Payload
<1> QED BY <1>1, <1>2, <1>3, <1>4 DEF Messages

\* Sequences of one element.
LEMMA Singleton ==
  ASSUME NEW m
  PROVE  /\ Len(<<m>>) = 1 /\ Head(<<m>>) = m /\ Tail(<<m>>) = <<>>
         /\ SubSeq(<<m>>, 1, 1) = <<m>> /\ SubSeq(<<m>>, 2, 1) = <<>>
         /\ Append(<<>>, m) = <<m>> /\ <<m>> # <<>>
<1>1. <<m>> \in Seq({m})
  OBVIOUS
<1>2. Len(<<m>>) = 1 /\ Head(<<m>>) = m /\ <<m>> # <<>>
  OBVIOUS
<1>3. Tail(<<m>>) = <<>>
  OBVIOUS
<1>4. SubSeq(<<m>>, 1, 1) = <<m>>
  BY <1>1, <1>2, SubSeqFull
<1>5. SubSeq(<<m>>, 2, 1) = <<>>
  OBVIOUS
<1>6. Append(<<>>, m) = <<m>>
  OBVIOUS
<1> QED BY <1>2, <1>3, <1>4, <1>5, <1>6

\* For the application a relay that gives up is like leaving.
LEMMA TimeoutLeaves == RelayTimeout => AppLeave
BY DEF RelayTimeout, AppLeave

-----------------------------------------------------------------------------
(* Types *)

\* The invariant holds initially.
LEMMA InitOK == Init => IInv
<1> SUFFICES ASSUME Init PROVE IInv
  OBVIOUS
<1>1. TypeOK
  <2>1. <<>> \in Seq(Messages) /\ <<>> \in Seq(Seq(Messages) \ {<<>>}) /\ <<>> \in Seq(Replies)
    OBVIOUS
  <2>2. 0 \in 0..MaxSent
    BY BoundAssumption DEF BoundAssumption
  <2> QED BY <2>1, <2>2 DEF Init, TypeOK, AppPC, Stages
<1>2. AuthBeforeConnect /\ Turn /\ ReplyComing
  BY DEF Init, AuthBeforeConnect, Turn, ReplyComing, Quiet
<1> QED BY <1>1, <1>2 DEF IInv

\* The steps of the application.
LEMMA AppTypeStep ==
  ASSUME TypeOK, AppGreet \/ AppAuth \/ AppRequest \/ AppSend \/ AppLeave \/ AppStep
  PROVE  TypeOK'
<1> USE DEF TypeOK, AppPC, Server
<1>1. CASE AppGreet
  <2>1. PICK methods \in Offers : out' = Append(out, Greeting(methods))
                                  /\ offered' = {methods[k] : k \in DOMAIN methods}
    BY <1>1 DEF AppGreet
  <2>2. methods \in Seq(Methods)
    BY OffersAssumption DEF OffersAssumption
  <2>3. offered' \subseteq Methods
    BY <2>1, <2>2
  <2>4. out' \in Seq(Messages)
    BY <2>1, MessageTypes
  <2> QED BY <1>1, <2>3, <2>4 DEF AppGreet
<1>2. CASE AppAuth
  BY <1>2, MessageTypes DEF AppAuth
<1>3. CASE AppRequest
  BY <1>3, MessageTypes DEF AppRequest
<1>4. CASE AppSend
  BY <1>4, MessageTypes, BoundAssumption DEF AppSend, BoundAssumption
<1>5. CASE AppReceive
  <2>1. s2c' \in Seq(Replies) /\ app' \in AppPC
    BY <1>5 DEF AppReceive, Ready
  <2> QED BY <1>5, <2>1 DEF AppReceive
<1>6. CASE AppLeave \/ AppEnd
  BY <1>6 DEF AppLeave, AppEnd
<1> QED BY <1>1, <1>2, <1>3, <1>4, <1>5, <1>6 DEF AppStep

\* The local endpoint cuts the stream of messages into records of whole messages.
LEMMA RelayTypeStep ==
  ASSUME TypeOK, NEW n \in 1..Len(out), Relay(n)
  PROVE  TypeOK'
<1>1. SubSeq(out, 1, n) \in Seq(Messages) /\ SubSeq(out, n + 1, Len(out)) \in Seq(Messages)
  BY DEF TypeOK
<1>2. Len(SubSeq(out, 1, n)) = n
  BY DEF TypeOK
<1>3. SubSeq(out, 1, n) # <<>>
  BY <1>1, <1>2
<1>4. Append(c2s, SubSeq(out, 1, n)) \in Seq(Seq(Messages) \ {<<>>})
  BY <1>1, <1>3 DEF TypeOK
<1> QED BY <1>1, <1>4 DEF TypeOK, Relay

\* A record read from the tunnel has a first message, and the rest is as before.
LEMMA ReadTypes ==
  ASSUME TypeOK, NEW s, Reads(s)
  PROVE  /\ Head(c2s) \in Seq(Messages) /\ Message \in Messages
         /\ c2s' \in Seq(Seq(Messages) \ {<<>>})
<1>1. Head(c2s) \in Seq(Messages) /\ Head(c2s) # <<>>
  BY DEF TypeOK, Reads
<1>2. Head(Head(c2s)) \in Messages
  BY <1>1
<1>3. c2s' \in Seq(Seq(Messages) \ {<<>>})
  BY DEF TypeOK, Reads
<1> QED BY <1>1, <1>2, <1>3 DEF Message

\* The steps of the remote endpoint.
LEMMA ServerTypeStep ==
  ASSUME TypeOK, ServerStep \/ ConnUp \/ ConnDown \/ ConnEnd
  PROVE  TypeOK'
<1> USE DEF Others, Answers, Stages
<1>1. CASE StageInit
  <2>1. PICK m \in Methods \cup {"unaccept"} :
          /\ s2c' = Append(s2c, MethodReply(m)) /\ stage' = StageAfter(m)
          /\ refused' = IF m = "unaccept" THEN refused \cup {"method"} ELSE refused
    BY <1>1 DEF StageInit
  <2>2. s2c' \in Seq(Replies)
    BY <2>1, ReplyTypes DEF TypeOK
  <2>3. stage' \in Stages /\ refused' \subseteq {"method", "auth", "request"}
    BY <2>1 DEF StageAfter, TypeOK
  <2>4. c2s' \in Seq(Seq(Messages) \ {<<>>})
    BY <1>1, ReadTypes DEF StageInit
  <2> QED BY <1>1, <2>2, <2>3, <2>4 DEF TypeOK, StageInit
<1>2. CASE StageAuth
  <2>1. Message.cred \in Creds
    BY <1>2, ReadTypes, MessageTags DEF StageAuth
  <2>2. c2s' \in Seq(Seq(Messages) \ {<<>>})
    BY <1>2, ReadTypes DEF StageAuth
  <2>3. \E r \in {"success", "refused"} : s2c' = Append(s2c, AuthReply(r))
    BY <1>2 DEF StageAuth
  <2>4. s2c' \in Seq(Replies)
    BY <2>3, ReplyTypes DEF TypeOK
  <2>5. stage' \in Stages /\ refused' \subseteq {"method", "auth", "request"}
    BY <1>2 DEF StageAuth, TypeOK
  <2> QED BY <1>2, <2>1, <2>2, <2>4, <2>5 DEF TypeOK, StageAuth
<1>3. CASE StageAuthBad
  <2>1. c2s' \in Seq(Seq(Messages) \ {<<>>})
    BY <1>3, ReadTypes DEF StageAuthBad
  <2>2. s2c' \in Seq(Replies)
    BY <1>3, ReplyTypes DEF StageAuthBad, TypeOK
  <2> QED BY <1>3, <2>1, <2>2 DEF TypeOK, StageAuthBad
<1>4. CASE StageRequUp
  <2>1. c2s' \in Seq(Seq(Messages) \ {<<>>})
    BY <1>4, ReadTypes DEF StageRequUp
  <2>2. s2c' \in Seq(Replies)
    BY <1>4, ReplyTypes DEF StageRequUp, TypeOK, LengthOf, Atyps
  <2> QED BY <1>4, <2>1, <2>2 DEF TypeOK, StageRequUp
<1>5. CASE StageRequDown
  <2>1. c2s' \in Seq(Seq(Messages) \ {<<>>})
    BY <1>5, ReadTypes DEF StageRequDown
  <2>2. \E r \in {"hostunreach", "error"}, a \in Atyps : s2c' = Append(s2c, Reply(r, a, 10))
    BY <1>5 DEF StageRequDown, LengthOf, Atyps
  <2>3. s2c' \in Seq(Replies)
    BY <2>2, ReplyTypes DEF TypeOK
  <2> QED BY <1>5, <2>1, <2>3 DEF TypeOK, StageRequDown
<1>6. CASE StageRequOther
  <2>1. c2s' \in Seq(Seq(Messages) \ {<<>>})
    BY <1>6, ReadTypes DEF StageRequOther
  <2> QED BY <1>6, <2>1 DEF TypeOK, StageRequOther
<1>7. CASE ConnUp
  <2>1. \A k \in DOMAIN Head(c2s) : Head(c2s)[k] \in Messages
    BY <1>7, ReadTypes DEF ConnUp
  <2>2. taken' \subseteq {"greeting", "auth", "request", "payload"}
    BY <1>7, <2>1, MessageTags DEF ConnUp, TypeOK
  <2>3. c2s' \in Seq(Seq(Messages) \ {<<>>})
    BY <1>7, ReadTypes DEF ConnUp
  <2> QED BY <1>7, <2>2, <2>3 DEF TypeOK, ConnUp
<1>8. CASE ConnDown
  BY <1>8, ReplyTypes DEF ConnDown, TypeOK
<1>9. CASE ConnEnd
  <2>1. CASE UNCHANGED s2c
    BY <1>9, <2>1 DEF ConnEnd, TypeOK
  <2>2. CASE s2c' = Append(s2c, Reply("ttlexpired", "ipv4", 10))
    <3>1. s2c' \in Seq(Replies)
      BY <2>2, ReplyTypes DEF TypeOK, Atyps
    <3> QED BY <1>9, <3>1 DEF ConnEnd, TypeOK
  <2> QED BY <1>9, <2>1, <2>2 DEF ConnEnd
<1>10. CASE ReadEnd
  BY <1>10 DEF ReadEnd, TypeOK
<1> QED BY <1>1, <1>2, <1>3, <1>4, <1>5, <1>6, <1>7, <1>8, <1>9, <1>10 DEF ServerStep

\* Every step keeps the types.
LEMMA TypeStep == TypeOK /\ [Next]_vars => TypeOK'
<1>1. CASE UNCHANGED vars
  BY <1>1 DEF TypeOK, vars
<1> QED BY <1>1, AppTypeStep, RelayTypeStep, ServerTypeStep, TimeoutLeaves DEF Next, RelayStep

-----------------------------------------------------------------------------
(* The login *)

\* The request stage is entered by the method "noauth", which is settled on
\* only without users, or by a pair that is accepted; and it comes before the
\* target.
LEMMA AuthStep == AuthBeforeConnect /\ [Next]_vars => AuthBeforeConnect'
<1> SUFFICES ASSUME AuthBeforeConnect, [Next]_vars PROVE AuthBeforeConnect'
  OBVIOUS
<1> USE DEF AuthBeforeConnect
<1>1. CASE UNCHANGED vars
  BY <1>1 DEF vars
<1>2. CASE AppGreet \/ AppAuth \/ AppRequest \/ AppSend \/ AppLeave \/ AppStep
  <2>1. UNCHANGED Server
    BY <1>2 DEF AppGreet, AppAuth, AppRequest, AppSend, AppLeave, AppStep, AppReceive, AppEnd
  <2> QED BY <2>1 DEF Server
<1>3. CASE RelayStep
  BY <1>3 DEF RelayStep, Relay
<1>4. CASE StageInit
  <2>1. PICK m \in Methods \cup {"unaccept"} :
          Settles(Message.methods, m) /\ stage' = StageAfter(m)
    BY <1>4 DEF StageInit
  <2>2. CASE m = "noauth"
    <3>1. users = {}
      BY <2>1, <2>2 DEF Settles, Acceptable
    <3> QED BY <1>4, <3>1 DEF StageInit, Others
  <2>3. CASE m # "noauth"
    <3>1. stage' \notin {"requ", "conn"}
      BY <2>1, <2>3 DEF StageAfter
    <3> QED BY <1>4, <3>1 DEF StageInit, Others
  <2> QED BY <2>2, <2>3
<1>5. CASE StageAuth
  <2>1. shown \subseteq shown' /\ UNCHANGED <<users, target>>
    BY <1>5 DEF StageAuth, Others
  <2>2. CASE Message.cred \in users
    <3>1. shown' \cap users # {}
      BY <1>5, <2>2 DEF StageAuth
    <3> QED BY <2>1, <3>1
  <2>3. CASE Message.cred \notin users
    <3>1. stage' = "fini"
      BY <1>5, <2>3 DEF StageAuth
    <3> QED BY <2>1, <3>1
  <2> QED BY <2>2, <2>3
<1>6. CASE StageAuthBad \/ StageRequDown \/ StageRequOther \/ ConnEnd \/ ReadEnd
  <2>1. stage' = "fini" /\ UNCHANGED <<users, target, shown>>
    BY <1>6 DEF StageAuthBad, StageRequDown, StageRequOther, ConnEnd, ReadEnd, Others
  <2> QED BY <2>1
<1>7. CASE StageRequUp
  <2>1. stage = "requ" /\ UNCHANGED <<users, shown>>
    BY <1>7 DEF StageRequUp, Reads, Others
  <2> QED BY <2>1
<1>8. CASE ConnUp \/ ConnDown
  BY <1>8 DEF ConnUp, ConnDown, Others
<1> QED BY <1>1, <1>2, <1>3, <1>4, <1>5, <1>6, <1>7, <1>8, TimeoutLeaves DEF Next, ServerStep

-----------------------------------------------------------------------------
(* Turns *)

\* Message m is the only one in flight, in a record of its own.
Carried(m) == out = <<>> /\ c2s = << <<m>> >> /\ s2c = <<>>

\* A session that reads a record before it is connected reads what a waiting
\* application has just sent.
LEMMA ReadsWhatWasSent ==
  ASSUME Turn, ~eager, app # "over", TypeOK, NEW s \in {"init", "auth", "requ"}, Reads(s)
  PROVE  \/ /\ s = "init" /\ app = "method" /\ ~asked
            /\ \E methods \in Offers : Carried(Greeting(methods))
         \/ /\ s = "auth" /\ app = "auth" /\ ~asked
            /\ \E cred \in Creds : Carried(Auth(cred))
         \/ /\ s = "requ" /\ app = "request"
            /\ \E r \in Requests : Carried(Request(r))
<1>1. c2s # <<>> /\ stage = s
  BY DEF Reads
<1>2. CASE app \in {"start", "cred", "ready", "stream"}
  BY <1>1, <1>2 DEF Turn, Quiet
<1>3. CASE app = "method"
  BY <1>1, <1>3 DEF Turn, Sent, Replied, Carried
<1>4. CASE app = "auth"
  BY <1>1, <1>4 DEF Turn, Sent, Replied, Carried
<1>5. CASE app = "request"
  BY <1>1, <1>5 DEF Turn, Sent, Replied, Carried
<1> QED BY <1>2, <1>3, <1>4, <1>5 DEF TypeOK, AppPC

\* Reading it empties the tunnel.
LEMMA ReadOne ==
  ASSUME NEW m, Carried(m), NEW s, Reads(s)
  PROVE  Message = m /\ c2s' = <<>>
<1>1. Head(c2s) = <<m>> /\ Tail(c2s) = <<>>
  BY Singleton DEF Carried
<1> QED BY <1>1, Singleton DEF Message, Reads

\* The application sends only when nothing is in flight.
LEMMA SendTurn ==
  ASSUME Turn, ReplyComing, ~eager,
         AppGreet \/ AppAuth \/ AppRequest \/ AppSend \/ AppLeave \/ AppEnd
  PROVE  Turn' /\ ReplyComing'
<1> USE DEF Server
<1>1. CASE AppGreet
  <2>1. PICK methods \in Offers : out' = Append(out, Greeting(methods))
    BY <1>1 DEF AppGreet
  <2>2. Quiet /\ stage = "init" /\ ~asked
    BY <1>1 DEF AppGreet, Turn
  <2>3. Sent(Greeting(methods), "init")'
    BY <1>1, <2>1, <2>2, Singleton DEF AppGreet, Sent, Quiet
  <2>4. app' = "method" /\ ~asked'
    BY <1>1, <2>2 DEF AppGreet
  <2> QED BY <2>3, <2>4 DEF Turn, ReplyComing
<1>2. CASE AppAuth
  <2>1. PICK cred \in Creds : out' = Append(out, Auth(cred))
    BY <1>2 DEF AppAuth
  <2>2. Quiet /\ stage = "auth" /\ ~asked
    BY <1>2 DEF AppAuth, Turn
  <2>3. Sent(Auth(cred), "auth")'
    BY <1>2, <2>1, <2>2, Singleton DEF AppAuth, Sent, Quiet
  <2>4. app' = "auth" /\ ~asked'
    BY <1>2, <2>2 DEF AppAuth
  <2> QED BY <2>3, <2>4 DEF Turn, ReplyComing
<1>3. CASE AppRequest
  <2>1. PICK r \in Requests : out' = Append(out, Request(r))
    BY <1>3 DEF AppRequest
  <2>2. Quiet /\ stage = "requ"
    BY <1>3 DEF AppRequest, Turn
  <2>3. Sent(Request(r), "requ")'
    BY <1>3, <2>1, <2>2, Singleton DEF AppRequest, Sent, Quiet
  <2>4. app' = "request" /\ stage' = "requ"
    BY <1>3, <2>2 DEF AppRequest
  <2> QED BY <2>3, <2>4 DEF Turn, ReplyComing
<1>4. CASE AppSend
  <2>1. app' = "stream" /\ stage' \in {"conn", "fini"}
    BY <1>4 DEF AppSend, Turn
  <2> QED BY <2>1 DEF Turn, ReplyComing
<1>5. CASE AppLeave \/ AppEnd
  <2>1. app' = "over"
    BY <1>5 DEF AppLeave, AppEnd
  <2> QED BY <2>1 DEF Turn, ReplyComing
<1> QED BY <1>1, <1>2, <1>3, <1>4, <1>5

\* The application takes a reply that is the only message in flight, until it
\* streams.
LEMMA ReceiveTurn ==
  ASSUME Turn, ReplyComing, ~eager, AppReceive
  PROVE  Turn' /\ ReplyComing'
<1> USE DEF Server
<1>1. s2c # <<>> /\ UNCHANGED <<out, c2s, stage, asked>> /\ s2c' = Tail(s2c)
  BY DEF AppReceive
<1>2. CASE app = "method"
  <2>1. PICK m \in {"noauth", "usrpass", "unaccept"} : Replied(MethodReply(m), StageAfter(m))
    BY <1>1, <1>2 DEF Turn, Sent
  <2>2. Head(s2c).result = m /\ s2c' = <<>> /\ ~asked
    BY <1>1, <1>2, <2>1, Singleton DEF Replied, MethodReply, Turn
  <2>3. Quiet' /\ stage' = StageAfter(m) /\ ~asked'
    BY <1>1, <2>1, <2>2 DEF Replied, Quiet
  <2>4. CASE m = "noauth"
    <3>1. app' = "ready"
      BY <1>2, <2>2, <2>4 DEF AppReceive, Ready
    <3> QED BY <2>3, <2>4, <3>1 DEF StageAfter, Turn, ReplyComing
  <2>5. CASE m = "usrpass"
    <3>1. app' = "cred"
      BY <1>2, <2>2, <2>5 DEF AppReceive
    <3> QED BY <2>3, <2>5, <3>1 DEF StageAfter, Turn, ReplyComing
  <2>6. CASE m = "unaccept"
    <3>1. app' = "over"
      BY <1>2, <2>2, <2>6 DEF AppReceive
    <3> QED BY <3>1 DEF Turn, ReplyComing
  <2> QED BY <2>4, <2>5, <2>6
<1>3. CASE app = "auth"
  <2>1. PICK m \in {"success", "refused"} :
          Replied(AuthReply(m), IF m = "success" THEN "requ" ELSE "fini")
    BY <1>1, <1>3 DEF Turn, Sent
  <2>2. Head(s2c).result = m /\ s2c' = <<>> /\ ~asked
    BY <1>1, <1>3, <2>1, Singleton DEF Replied, AuthReply, Turn
  <2>3. CASE m = "success"
    <3>1. Quiet' /\ stage' = "requ" /\ ~asked'
      BY <1>1, <2>1, <2>2, <2>3 DEF Replied, Quiet
    <3>2. app' = "ready"
      BY <1>3, <2>2, <2>3 DEF AppReceive, Ready
    <3> QED BY <3>1, <3>2 DEF Turn, ReplyComing
  <2>4. CASE m = "refused"
    <3>1. app' = "over"
      BY <1>3, <2>2, <2>4 DEF AppReceive
    <3> QED BY <3>1 DEF Turn, ReplyComing
  <2> QED BY <2>3, <2>4
<1>4. CASE app \in {"request", "stream"}
  <2>1. stage \in {"conn", "fini"}
    BY <1>1, <1>4 DEF Turn, Sent
  <2>2. app' \in {"stream", "over"}
    BY <1>4 DEF AppReceive
  <2> QED BY <1>1, <2>1, <2>2 DEF Turn, ReplyComing
<1> QED BY <1>2, <1>3, <1>4 DEF AppReceive

\* The local endpoint takes the only message in flight, until the application
\* streams.
LEMMA RelayTurn ==
  ASSUME Turn, ReplyComing, ~eager, TypeOK, NEW n \in 1..Len(out), Relay(n)
  PROVE  Turn' /\ ReplyComing'
<1>1. out # <<>>
  <2>1. Len(out) # 0
    BY DEF TypeOK
  <2> QED BY <2>1
<1>2. UNCHANGED <<eager, app, asked, s2c, stage>>
  BY DEF Relay
<1>3. ASSUME NEW m, NEW s, Sent(m, s) PROVE Sent(m, s)'
  <2>1. out = <<m>> /\ c2s = <<>>
    BY <1>1, <1>3 DEF Sent
  <2>2. n = 1
    BY <2>1, Singleton
  <2>3. c2s' = Append(<<>>, SubSeq(<<m>>, 1, 1)) /\ out' = SubSeq(<<m>>, 1 + 1, 1)
    BY <2>1, <2>2, Singleton DEF Relay
  <2>4. c2s' = << <<m>> >> /\ out' = <<>>
    BY <2>3, Singleton
  <2> QED BY <1>2, <1>3, <2>4 DEF Sent
<1>4. CASE app \in {"start", "cred", "ready"}
  BY <1>1, <1>4 DEF Turn, Quiet
<1>5. CASE app = "method"
  <2>1. ~asked /\ \E methods \in Offers : Sent(Greeting(methods), "init")
    BY <1>1, <1>5 DEF Turn, Replied
  <2>2. \E methods \in Offers : Sent(Greeting(methods), "init")'
    BY <2>1, <1>3
  <2> QED BY <1>2, <1>5, <2>1, <2>2 DEF Turn, ReplyComing, Greeting
<1>6. CASE app = "auth"
  <2>1. ~asked /\ \E cred \in Creds : Sent(Auth(cred), "auth")
    BY <1>1, <1>6 DEF Turn, Replied
  <2>2. \E cred \in Creds : Sent(Auth(cred), "auth")'
    BY <2>1, <1>3
  <2> QED BY <1>2, <1>6, <2>1, <2>2 DEF Turn, ReplyComing, Auth
<1>7. CASE app = "request"
  <2>1. stage # "conn"
    BY <1>1, <1>7 DEF ReplyComing
  <2>2. CASE \E r \in Requests : Sent(Request(r), "requ")
    <3>1. \E r \in Requests : Sent(Request(r), "requ")'
      BY <2>2, <1>3
    <3> QED BY <1>2, <1>7, <2>1, <3>1 DEF Turn, ReplyComing, Request
  <2>3. CASE stage = "fini"
    BY <1>2, <1>7, <2>3 DEF Turn, ReplyComing
  <2> QED BY <1>7, <2>1, <2>2, <2>3 DEF Turn
<1>8. CASE app \in {"stream", "over"}
  BY <1>2, <1>8 DEF Turn, ReplyComing
<1> QED BY <1>4, <1>5, <1>6, <1>7, <1>8 DEF TypeOK, AppPC

\* A step of the session answers the message the application waits on, if it
\* does.
LEMMA ServerTurn ==
  ASSUME Turn, ReplyComing, ~eager, app # "over", TypeOK,
         ServerStep \/ ConnUp \/ ConnDown \/ ConnEnd
  PROVE  Turn' /\ ReplyComing'
<1> USE DEF Others
<1>1. UNCHANGED <<eager, app, asked, out>>
  BY DEF ServerStep, StageInit, StageAuth, StageAuthBad, StageRequUp, StageRequDown,
         StageRequOther, ReadEnd, ConnUp, ConnDown, ConnEnd
<1>2. CASE StageInit
  <2>1. Reads("init")
    BY <1>2 DEF StageInit
  <2>2. PICK methods \in Offers :
          app = "method" /\ ~asked /\ Carried(Greeting(methods))
    BY <2>1, ReadsWhatWasSent
  <2>3. PICK m \in Methods \cup {"unaccept"} :
          /\ Settles(Message.methods, m)
          /\ s2c' = Append(s2c, MethodReply(m)) /\ stage' = StageAfter(m)
    BY <1>2 DEF StageInit, Answers
  <2>4. m \in {"noauth", "usrpass", "unaccept"}
    BY <2>3 DEF Settles, Acceptable
  <2>5. s2c' = <<MethodReply(m)>> /\ c2s' = <<>> /\ out' = <<>>
    BY <1>1, <2>1, <2>2, <2>3, ReadOne, Singleton DEF Carried
  <2>6. Replied(MethodReply(m), StageAfter(m))'
    BY <2>3, <2>5 DEF Replied
  <2> QED BY <1>1, <2>2, <2>4, <2>6 DEF Turn, ReplyComing
<1>3. CASE StageAuth
  <2>1. Reads("auth")
    BY <1>3 DEF StageAuth
  <2>2. PICK cred \in Creds : app = "auth" /\ ~asked /\ Carried(Auth(cred))
    BY <2>1, ReadsWhatWasSent
  <2>3. PICK m \in {"success", "refused"} :
          /\ s2c' = Append(s2c, AuthReply(m))
          /\ stage' = IF m = "success" THEN "requ" ELSE "fini"
    BY <1>3 DEF StageAuth, Answers
  <2>4. s2c' = <<AuthReply(m)>> /\ c2s' = <<>> /\ out' = <<>>
    BY <1>1, <2>1, <2>2, <2>3, ReadOne, Singleton DEF Carried
  <2>5. Replied(AuthReply(m), IF m = "success" THEN "requ" ELSE "fini")'
    BY <2>3, <2>4 DEF Replied
  <2>6. Replied(AuthReply("success"), "requ")' \/ Replied(AuthReply("refused"), "fini")'
    BY <2>5
  <2> QED BY <1>1, <2>2, <2>6 DEF Turn, ReplyComing
<1>4. CASE StageAuthBad
  <2>1. Reads("auth") /\ Message.type # "auth"
    BY <1>4 DEF StageAuthBad
  <2>2. PICK cred \in Creds : Carried(Auth(cred))
    BY <2>1, ReadsWhatWasSent
  <2>3. Message = Auth(cred)
    BY <2>1, <2>2, ReadOne
  <2> QED BY <2>1, <2>3 DEF Auth
<1>5. CASE StageRequUp
  <2>1. Reads("requ")
    BY <1>5 DEF StageRequUp
  <2>2. PICK r \in Requests : app = "request" /\ Carried(Request(r))
    BY <2>1, ReadsWhatWasSent
  <2>3. PICK a \in Atyps, n \in {10, 22} : s2c' = Append(s2c, Reply("success", a, n))
    BY <1>5 DEF StageRequUp, Answers, LengthOf, Atyps
  <2>4. s2c' = <<Reply("success", a, n)>> /\ c2s' = <<>> /\ out' = <<>>
    BY <1>1, <2>1, <2>2, <2>3, ReadOne, Singleton DEF Carried
  <2>5. s2c' # <<>> /\ Head(s2c').result = "success"
    BY <2>4, Singleton DEF Reply
  <2>6. stage' = "conn"
    BY <1>5 DEF StageRequUp
  <2> QED BY <1>1, <2>2, <2>4, <2>5, <2>6 DEF Turn, ReplyComing
<1>6. CASE StageRequDown \/ StageRequOther
  <2>1. Reads("requ") /\ stage' = "fini"
    BY <1>6 DEF StageRequDown, StageRequOther
  <2>2. app = "request"
    BY <2>1, ReadsWhatWasSent
  <2> QED BY <1>1, <2>1, <2>2 DEF Turn, ReplyComing
<1>7. ASSUME stage = "conn" PROVE app \in {"request", "stream"}
  BY <1>7 DEF Turn, Sent, Replied, Quiet, StageAfter, TypeOK, AppPC
<1>8. CASE ConnUp
  <2>1. stage = "conn" /\ stage' = "conn" /\ c2s # <<>>
    BY <1>8 DEF ConnUp, Reads
  <2>2. app = "stream"
    BY <1>7, <2>1 DEF ReplyComing
  <2> QED BY <1>1, <2>1, <2>2 DEF Turn, ReplyComing
<1>9. CASE ConnDown
  <2>1. stage = "conn" /\ stage' = "conn" /\ s2c' = Append(s2c, TargetData) /\ c2s' = c2s
    BY <1>9 DEF ConnDown, Answers
  <2>2. s2c # <<>> => s2c' # <<>> /\ Head(s2c') = Head(s2c)
    BY <2>1 DEF TypeOK
  <2> QED BY <1>1, <1>7, <2>1, <2>2 DEF Turn, ReplyComing
<1>10. CASE ConnEnd
  <2>1. stage = "conn" /\ stage' = "fini"
    BY <1>10 DEF ConnEnd
  <2> QED BY <1>1, <1>7, <2>1 DEF Turn, ReplyComing
<1>11. CASE ReadEnd
  BY <1>11 DEF ReadEnd
<1> QED BY <1>2, <1>3, <1>4, <1>5, <1>6, <1>8, <1>9, <1>10, <1>11 DEF ServerStep

\* Every step keeps the turns.
LEMMA TurnStep ==
  ASSUME TypeOK, Turn, ReplyComing, [Next]_vars
  PROVE  Turn' /\ ReplyComing'
<1>1. CASE UNCHANGED vars
  BY <1>1 DEF Turn, ReplyComing, Quiet, Sent, Replied, vars
<1>2. CASE Next
  <2>1. eager' = eager
    BY <1>2, TimeoutLeaves DEF Next, AppGreet, AppAuth, AppRequest, AppSend, AppLeave, AppStep, AppReceive,
         AppEnd, RelayStep, Relay, ServerStep, StageInit, StageAuth, StageAuthBad, StageRequUp,
         StageRequDown, StageRequOther, ReadEnd, ConnUp, ConnDown, ConnEnd, Others
  <2>2. CASE eager
    BY <2>1, <2>2 DEF Turn, ReplyComing
  <2>3. CASE ~eager /\ (ServerStep \/ ConnUp \/ ConnDown \/ ConnEnd) /\ app = "over"
    <3>1. app' = "over"
      BY <2>3 DEF ServerStep, StageInit, StageAuth, StageAuthBad, StageRequUp, StageRequDown,
         StageRequOther, ReadEnd, ConnUp, ConnDown, ConnEnd, Others
    <3> QED BY <3>1 DEF Turn, ReplyComing
  <2> QED BY <1>2, <2>2, <2>3, SendTurn, ReceiveTurn, RelayTurn, ServerTurn,
       TimeoutLeaves DEF Next, RelayStep, AppStep
<1> QED BY <1>1, <1>2

-----------------------------------------------------------------------------
(* Theorems *)

\* The invariant is inductive.
THEOREM Invariant == Spec => []IInv
<1>1. IInv /\ [Next]_vars => IInv'
  BY TypeStep, AuthStep, TurnStep DEF IInv
<1> QED BY InitOK, <1>1, PTL DEF Spec

\* Type correctness.
THEOREM TypeCorrect == Spec => []TypeOK
<1>1. IInv => TypeOK
  BY DEF IInv
<1> QED BY Invariant, <1>1, PTL

\* No target is dialled before an accepted pair was shown, unless there are no
\* users: whatever the tables, the offers and the way messages share records.
THEOREM LoginGuards == Spec => []AuthBeforeConnect
<1>1. IInv => AuthBeforeConnect
  BY DEF IInv
<1> QED BY Invariant, <1>1, PTL

\* Two ends that take turns stand at the same point whenever nothing is in
\* flight.
THEOREM KeepsStep == Spec => []InStep
<1>1. IInv => InStep
  <2> SUFFICES ASSUME IInv, ~eager, Quiet, stage # "fini", app # "over"
               PROVE  <<app, stage>> \in {<<"start", "init">>, <<"cred", "auth">>,
                                          <<"ready", "requ">>, <<"stream", "conn">>}
    BY DEF InStep
  <2>1. CASE app \in {"start", "cred", "ready", "stream"}
    BY <2>1 DEF IInv, Turn
  <2>2. CASE app \in {"method", "auth", "request"}
    BY <2>2 DEF IInv, Turn, ReplyComing, Quiet, Sent, Replied
  <2> QED BY <2>1, <2>2 DEF IInv, TypeOK, AppPC
<1> QED BY Invariant, <1>1, PTL

-----------------------------------------------------------------------------
(* The stream: what is under way, also for an eager application *)

\* A message the application writes.
LEMMA PutInFlight ==
  ASSUME TypeOK, NEW m \in Messages, out' = Append(out, m), c2s' = c2s, NEW t
  PROVE  /\ InFlight(t)' => InFlight(t) \/ t = m.type
         /\ Once(t) /\ (t = m.type => ~InFlight(t)) => Once(t)'
<1>1. /\ DOMAIN out = 1..Len(out) /\ Len(out) \in Nat /\ DOMAIN out' = 1..(Len(out) + 1)
      /\ \A k \in 1..Len(out) : out'[k] = out[k]
      /\ out'[Len(out) + 1] = m
  BY DEF TypeOK
<1>2. \A k \in DOMAIN out' : k \in DOMAIN out \/ k = Len(out) + 1
  BY <1>1
<1>3. Kinds(out') \subseteq Kinds(out) \cup {m.type}
  BY <1>1, <1>2 DEF Kinds
<1>4. \A k \in DOMAIN out : out[k].type \in Kinds(out) /\ out'[k] = out[k]
  BY <1>1 DEF Kinds
<1>5. InFlight(t)' => InFlight(t) \/ t = m.type
  BY <1>3 DEF InFlight
<1>6. ASSUME Once(t), t = m.type => ~InFlight(t)
      PROVE  Once(t)'
  <2>1. \A j, k \in DOMAIN out' : out'[j].type = t /\ out'[k].type = t => j = k
    BY <1>1, <1>2, <1>4, <1>6 DEF Once, InFlight
  <2>2. \A i \in DOMAIN c2s : t \in Kinds(c2s[i]) => t \notin Kinds(out')
    BY <1>3, <1>6 DEF Once, InFlight
  <2> QED BY <1>6, <2>1, <2>2 DEF Once
<1> QED BY <1>5, <1>6

\* What is left of a sequence without its first n elements.
LEMMA RestOf ==
  ASSUME NEW S, NEW s \in Seq(S), NEW n \in 1..Len(s)
  PROVE  /\ Len(SubSeq(s, n + 1, Len(s))) = Len(s) - n
         /\ \A k \in 1..(Len(s) - n) : SubSeq(s, n + 1, Len(s))[k] = s[n + k]
<1> DEFINE m == n + 1
           l == Len(s)
<1>1. /\ m \in Int /\ l \in Int /\ n \in Nat /\ l \in Nat /\ n >= 1 /\ n <= l
      /\ \A i \in m..l : s[i] \in S
  OBVIOUS
<1>2. /\ (IF m <= l THEN l - m + 1 ELSE 0) = l - n /\ l - m + 1 = l - n
      /\ \A k \in 1..(l - n) : m + k - 1 = n + k
  BY <1>1
<1> HIDE DEF m, l
<1>3. /\ Len(SubSeq(s, m, l)) = IF m <= l THEN l - m + 1 ELSE 0
      /\ \A i \in 1..(l - m + 1) : SubSeq(s, m, l)[i] = s[m + i - 1]
  BY <1>1, SubSeqProperties
<1>4. /\ Len(SubSeq(s, m, l)) = l - n
      /\ \A k \in 1..(l - n) : SubSeq(s, m, l)[k] = s[n + k]
  BY <1>2, <1>3
<1> QED BY <1>4 DEF m, l

\* What the local endpoint forwards.
LEMMA RelayInFlight ==
  ASSUME TypeOK, NEW n \in 1..Len(out), Relay(n), NEW t
  PROVE  /\ InFlight(t)' => InFlight(t)
         /\ Once(t) => Once(t)'
<1> DEFINE fst == SubSeq(out, 1, n)
           rst == SubSeq(out, n + 1, Len(out))
<1>1. /\ out \in Seq(Messages) /\ Len(out) \in Nat /\ DOMAIN out = 1..Len(out)
      /\ out' = rst /\ c2s' = Append(c2s, fst)
  BY DEF TypeOK, Relay
<1>2. /\ DOMAIN fst = 1..n /\ \A k \in 1..n : fst[k] = out[k]
      /\ DOMAIN rst = 1..(Len(out) - n)
      /\ \A k \in 1..(Len(out) - n) : rst[k] = out[n + k]
  <2>1. Len(fst) = n /\ \A k \in 1..n : fst[k] = out[k]
    BY <1>1
  <2>2. Len(rst) = Len(out) - n /\ \A k \in 1..(Len(out) - n) : rst[k] = out[n + k]
    BY <1>1, RestOf
  <2>3. fst \in Seq(Messages) /\ rst \in Seq(Messages)
    BY <1>1
  <2> QED BY <2>1, <2>2, <2>3
<1>3. /\ DOMAIN c2s = 1..Len(c2s) /\ Len(c2s) \in Nat /\ DOMAIN c2s' = 1..(Len(c2s) + 1)
      /\ \A i \in 1..Len(c2s) : c2s'[i] = c2s[i]
      /\ c2s'[Len(c2s) + 1] = fst
  BY <1>1 DEF TypeOK
<1> HIDE DEF fst, rst
<1>4. \A k \in DOMAIN fst : k \in DOMAIN out /\ fst[k] = out[k] /\ k <= n
  BY <1>1, <1>2
<1>5. \A k \in DOMAIN rst : n + k \in DOMAIN out /\ rst[k] = out[n + k] /\ n + k > n
  BY <1>1, <1>2
<1>6. Kinds(fst) \subseteq Kinds(out) /\ Kinds(rst) \subseteq Kinds(out)
  BY <1>4, <1>5 DEF Kinds
<1>7. \A i \in DOMAIN c2s' : (i \in DOMAIN c2s /\ c2s'[i] = c2s[i])
                              \/ (i = Len(c2s) + 1 /\ c2s'[i] = fst)
  BY <1>3
<1>8. InFlight(t)' => InFlight(t)
  BY <1>1, <1>6, <1>7 DEF InFlight
<1>9. ASSUME Once(t)
      PROVE  Once(t)'
  <2>1. ASSUME NEW j \in DOMAIN rst, NEW k \in DOMAIN rst, rst[j].type = t, rst[k].type = t
        PROVE  j = k
    <3>1. n + j = n + k
      BY <1>5, <1>9, <2>1 DEF Once
    <3> QED BY <1>2, <3>1
  <2>2. t \in Kinds(fst) => t \notin Kinds(rst)
    <3>1. SUFFICES ASSUME NEW j \in DOMAIN fst, NEW k \in DOMAIN rst, fst[j].type = t, rst[k].type = t
                   PROVE  FALSE
      BY DEF Kinds
    <3>2. j = n + k
      BY <1>4, <1>5, <1>9, <3>1 DEF Once
    <3>3. j \in 1..n /\ k \in Nat \ {0}
      BY <1>1, <1>2
    <3> QED BY <3>2, <3>3
  <2>3. ASSUME NEW i \in DOMAIN c2s', t \in Kinds(c2s'[i])
        PROVE  /\ t \notin Kinds(rst)
               /\ \A j \in DOMAIN c2s' : t \in Kinds(c2s'[j]) => i = j
    BY <1>6, <1>7, <1>9, <2>2, <2>3 DEF Once
  <2> QED BY <1>1, <2>1, <2>3 DEF Once
<1> QED BY <1>8, <1>9

\* A record the session reads: all of it is gone, what it did not look at too.
LEMMA ReadInFlight ==
  ASSUME TypeOK, NEW s, Reads(s), out' = out, NEW t
  PROVE  /\ InFlight(t)' => InFlight(t)
         /\ Once(t) => Once(t)'
         /\ Once(t) /\ t \in Kinds(Head(c2s)) => ~InFlight(t)'
         /\ Message.type \in Kinds(Head(c2s)) /\ (t \in Kinds(Head(c2s)) => InFlight(t))
<1>1. /\ DOMAIN c2s = 1..Len(c2s) /\ Len(c2s) \in Nat /\ Len(c2s) > 0
      /\ Head(c2s) = c2s[1] /\ DOMAIN c2s' = 1..(Len(c2s) - 1)
      /\ \A i \in 1..(Len(c2s) - 1) : c2s'[i] = c2s[i + 1]
  BY DEF TypeOK, Reads
<1>2. \A i \in DOMAIN c2s' : i + 1 \in DOMAIN c2s /\ c2s'[i] = c2s[i + 1] /\ i + 1 # 1 /\ i \in Nat
  BY <1>1
<1>3. InFlight(t)' => InFlight(t)
  BY <1>2 DEF InFlight
<1>4. ASSUME Once(t)
      PROVE  Once(t)'
  <2>1. ASSUME NEW i \in DOMAIN c2s', NEW j \in DOMAIN c2s', t \in Kinds(c2s'[i]), t \in Kinds(c2s'[j])
        PROVE  i = j
    <3>1. i + 1 = j + 1
      BY <1>2, <1>4, <2>1 DEF Once
    <3> QED BY <1>2, <3>1
  <2> QED BY <1>2, <1>4, <2>1 DEF Once
<1>5. ASSUME Once(t), t \in Kinds(Head(c2s))
      PROVE  ~InFlight(t)'
  <2>1. 1 \in DOMAIN c2s /\ t \in Kinds(c2s[1])
    BY <1>1, <1>5
  <2>2. t \notin Kinds(out)
    BY <1>5, <2>1 DEF Once
  <2>3. \A i \in DOMAIN c2s' : t \notin Kinds(c2s'[i])
    BY <1>2, <1>5, <2>1 DEF Once
  <2> QED BY <2>2, <2>3 DEF InFlight
<1>6. Message.type \in Kinds(Head(c2s))
  <2>1. Head(c2s) \in Seq(Messages) /\ Head(c2s) # <<>>
    BY DEF TypeOK, Reads
  <2>2. 1 \in DOMAIN Head(c2s) /\ Head(Head(c2s)) = Head(c2s)[1]
    BY <2>1
  <2> QED BY <2>2 DEF Message, Kinds
<1>7. t \in Kinds(Head(c2s)) => InFlight(t)
  BY <1>1 DEF InFlight
<1> QED BY <1>3, <1>4, <1>5, <1>6, <1>7

LEMMA SameInFlight ==
  ASSUME out' = out, c2s' = c2s, NEW t
  PROVE  (InFlight(t)' => InFlight(t)) /\ (Once(t) => Once(t)')
BY DEF InFlight, Once

LEMMA Tags ==
  /\ \A x : Greeting(x).type = "greeting" /\ Auth(x).type = "auth" /\ Request(x).type = "request"
  /\ Payload.type = "payload"
BY DEF Greeting, Auth, Request, Payload

\* What the application writes: a greeting before anything else, one pair that the
\* session has yet to read and one request.
LEMMA WriteUpstream ==
  ASSUME TypeOK, Upstream, Downstream, AppGreet \/ AppAuth \/ AppRequest \/ AppSend
  PROVE  Upstream'
<1> USE DEF Server
<1>1. CASE AppGreet
  <2>1. PICK methods \in Offers : out' = Append(out, Greeting(methods))
    BY <1>1 DEF AppGreet
  <2>2. /\ Greeting(methods) \in Messages /\ Greeting(methods).type = "greeting" /\ c2s' = c2s
    BY <1>1, MessageTypes, Tags DEF AppGreet
  <2>3. out = <<>> /\ c2s = <<>> /\ stage = "init"
    BY <1>1 DEF AppGreet, Downstream
  <2>4. \A t : ~InFlight(t)
    BY <2>3 DEF InFlight, Kinds
  <2>5. \A t : (InFlight(t)' => t = "greeting") /\ (Once(t) => Once(t)')
    BY <2>1, <2>2, <2>4, PutInFlight
  <2> QED BY <1>1, <2>3, <2>5 DEF AppGreet, Upstream
<1>2. CASE AppAuth
  <2>1. PICK cred \in Creds : out' = Append(out, Auth(cred))
    BY <1>2 DEF AppAuth
  <2>2. Auth(cred) \in Messages /\ Auth(cred).type = "auth" /\ c2s' = c2s
    BY <1>2, MessageTypes, Tags DEF AppAuth
  <2>3. ~InFlight("auth") /\ stage \in {"auth", "fini"}
    BY <1>2 DEF AppAuth, Upstream, Downstream, TypeOK, Stages
  <2>4. \A t : /\ InFlight(t)' => InFlight(t) \/ t = "auth"
               /\ Once(t) => Once(t)'
    BY <2>1, <2>2, <2>3, PutInFlight
  <2> QED BY <1>2, <2>3, <2>4 DEF AppAuth, Upstream
<1>3. CASE AppRequest
  <2>1. PICK r \in Requests : out' = Append(out, Request(r))
    BY <1>3 DEF AppRequest
  <2>2. Request(r) \in Messages /\ Request(r).type = "request" /\ c2s' = c2s
    BY <1>3, MessageTypes, Tags DEF AppRequest
  <2>3. ~InFlight("request") /\ stage # "conn"
    BY <1>3 DEF AppRequest, Upstream
  <2>4. \A t : /\ InFlight(t)' => InFlight(t) \/ t = "request"
               /\ Once(t) => Once(t)'
    BY <2>1, <2>2, <2>3, PutInFlight
  <2> QED BY <1>3, <2>3, <2>4 DEF AppRequest, Upstream
<1>4. CASE AppSend
  <2>1. out' = Append(out, Payload) /\ Payload \in Messages /\ Payload.type = "payload" /\ c2s' = c2s
    BY <1>4, MessageTypes, Tags DEF AppSend
  <2>2. \A t \in Negotiation : (InFlight(t)' => InFlight(t)) /\ (Once(t) => Once(t)')
    BY <2>1, PutInFlight DEF Negotiation
  <2> QED BY <1>4, <2>2 DEF AppSend, Upstream, Negotiation
<1> QED BY <1>1, <1>2, <1>3, <1>4

\* The steps that write nothing to the session.
LEMMA OtherUpstream ==
  ASSUME TypeOK, Upstream, Downstream,
         \/ AppLeave \/ AppStep \/ RelayStep \/ ConnDown \/ ConnEnd \/ ReadEnd
         \/ UNCHANGED vars
  PROVE  Upstream'
<1> USE DEF Server, Others
<1>1. \A t : (InFlight(t)' => InFlight(t)) /\ (Once(t) => Once(t)')
  <2>1. CASE RelayStep
    BY <2>1, RelayInFlight DEF RelayStep
  <2>2. CASE UNCHANGED <<out, c2s>>
    BY <2>2, SameInFlight
  <2> QED BY <2>1, <2>2
      DEF AppLeave, AppStep, AppReceive, AppEnd, ConnDown, ConnEnd, ReadEnd, vars
<1>2. UNCHANGED <<asked, taken>>
  BY DEF AppLeave, AppStep, AppReceive, AppEnd, RelayStep, Relay, ConnDown, ConnEnd, ReadEnd, vars
<1>3. stage' \in {stage, "fini"}
  BY DEF AppLeave, AppStep, AppReceive, AppEnd, RelayStep, Relay, ConnDown, ConnEnd, ReadEnd, vars
<1>4. CASE AppReceive
  <2>1. s2c # <<>> /\ Head(s2c) = s2c[1] /\ stage' = stage
    BY <1>4 DEF AppReceive, TypeOK
  <2>2. app' = "cred" => stage \notin {"requ", "conn"}
    BY <1>4, <2>1 DEF AppReceive, Ready, Downstream
  <2>3. app \notin {"start", "method", "cred"} => app' \notin {"start", "method", "cred"}
    BY <1>4 DEF AppReceive, Ready
  <2> QED BY <1>1, <1>2, <2>1, <2>2, <2>3 DEF Upstream
<1>5. stage = "init" => stage' = stage \/ ~InFlight("greeting")
  <2>1. CASE ReadEnd
    BY <2>1 DEF ReadEnd, InFlight, Kinds
  <2>2. CASE ConnEnd
    BY <2>2 DEF ConnEnd
  <2> QED BY <2>1, <2>2
      DEF AppLeave, AppStep, AppReceive, AppEnd, RelayStep, Relay, ConnDown, vars
<1>6. CASE app' \in {app, "over"}
  BY <1>1, <1>2, <1>3, <1>5, <1>6 DEF Upstream
<1> QED BY <1>4, <1>6
    DEF AppLeave, AppStep, AppEnd, RelayStep, Relay, ConnDown, ConnEnd, ReadEnd, vars

\* The session reads a message: there is no other one of its type, and what it
\* leaves unread in the record is gone.
LEMMA ReadUpstream ==
  ASSUME TypeOK, Upstream, Downstream,
         StageInit \/ StageAuth \/ StageAuthBad \/ StageRequUp \/ StageRequDown \/ StageRequOther
           \/ ConnUp
  PROVE  Upstream'
<1> USE DEF Others
<1>0. UNCHANGED <<app, asked, out>> /\ Reads(stage)
  BY DEF StageInit, StageAuth, StageAuthBad, StageRequUp, StageRequDown, StageRequOther, ConnUp,
         Reads
<1>1. /\ \A t : /\ InFlight(t)' => InFlight(t)
                /\ Once(t) => Once(t)'
                /\ Once(t) /\ t \in Kinds(Head(c2s)) => ~InFlight(t)'
                /\ t \in Kinds(Head(c2s)) => InFlight(t)
      /\ Message.type \in Kinds(Head(c2s))
  BY <1>0, ReadInFlight
<1>2. CASE StageInit
  <2>1. Message.type = "greeting" /\ stage = "init" /\ taken' = taken
    BY <1>2 DEF StageInit, Reads
  <2>2. stage' \in {"auth", "requ", "fini"}
    BY <1>2 DEF StageInit, StageAfter
  <2>3. ~InFlight("greeting")' /\ ~InFlight("auth")' /\ app # "cred"
    BY <1>1, <2>1 DEF Upstream, Downstream, Negotiation
  <2> QED BY <1>0, <1>1, <2>1, <2>2, <2>3 DEF Upstream
<1>3. CASE StageAuth
  <2>1. Message.type = "auth" /\ stage = "auth" /\ taken' = taken
    BY <1>3 DEF StageAuth, Reads
  <2>2. stage' \in {"requ", "fini"}
    BY <1>3 DEF StageAuth
  <2>3. ~InFlight("greeting")' /\ ~InFlight("auth")' /\ app # "cred"
    BY <1>1, <2>1 DEF Upstream, Negotiation
  <2> QED BY <1>0, <1>1, <2>1, <2>2, <2>3 DEF Upstream
<1>4. CASE StageAuthBad \/ StageRequDown \/ StageRequOther
  <2>1. stage' = "fini" /\ taken' = taken /\ stage \in {"auth", "requ"}
    BY <1>4 DEF StageAuthBad, StageRequDown, StageRequOther, Reads
  <2> QED BY <1>0, <1>1, <2>1 DEF Upstream
<1>5. CASE StageRequUp
  <2>1. Message.type = "request" /\ stage = "requ" /\ taken' = taken /\ stage' = "conn"
    BY <1>5 DEF StageRequUp, Reads
  <2>2. /\ ~InFlight("greeting")' /\ ~InFlight("auth")' /\ ~InFlight("request")'
        /\ app # "cred" /\ asked
    BY <1>1, <2>1 DEF Upstream, Negotiation
  <2> QED BY <1>0, <1>1, <2>1, <2>2 DEF Upstream
<1>6. CASE ConnUp
  <2>1. stage = "conn" /\ stage' = stage /\ taken' = taken \cup Kinds(Head(c2s))
    BY <1>6 DEF ConnUp, Reads, Kinds
  <2>2. Kinds(Head(c2s)) \subseteq {"greeting", "auth", "request", "payload"}
    BY <1>0, ReadTypes, MessageTags DEF Kinds
  <2>3. ~InFlight("greeting") /\ ~InFlight("auth") /\ ~InFlight("request")
    BY <2>1 DEF Upstream
  <2>4. taken' \subseteq {"payload"}
    BY <1>1, <2>1, <2>2, <2>3 DEF Upstream
  <2> QED BY <1>0, <1>1, <2>1, <2>4 DEF Upstream
<1> QED BY <1>2, <1>3, <1>4, <1>5, <1>6

\* What a reply is typed by.
LEMMA ReplyTags ==
  /\ \A m : MethodReply(m).type = "method" /\ MethodReply(m).result = m
  /\ \A r : AuthReply(r).type = "auth"
  /\ \A r, a, n : Reply(r, a, n).type = "reply" /\ Reply(r, a, n).result = r
  /\ TargetData.type = "data"
  /\ \A m \in Replies : /\ m.type \in {"method", "auth", "reply", "data"}
                        /\ m.type = "method" => m.result # "success"
<1>1. /\ \A m : MethodReply(m).type = "method" /\ MethodReply(m).result = m
      /\ \A r : AuthReply(r).type = "auth"
      /\ \A r, a, n : Reply(r, a, n).type = "reply" /\ Reply(r, a, n).result = r
      /\ TargetData.type = "data"
  BY DEF MethodReply, AuthReply, Reply, TargetData
<1>2. ASSUME NEW m \in Replies
      PROVE  /\ m.type \in {"method", "auth", "reply", "data"}
             /\ m.type = "method" => m.result # "success"
  <2>1. CASE m \in {MethodReply(x) : x \in Methods \cup {"unaccept"}}
    BY <1>1, <2>1 DEF Methods
  <2>2. CASE m \in {AuthReply(r) : r \in {"success", "refused", "error"}}
    BY <1>1, <2>2
  <2>3. CASE m \in {Reply(r, a, n) : r \in {"success", "hostunreach", "error", "ttlexpired"},
                                    a \in Atyps, n \in {10, 22}}
    BY <1>1, <2>3
  <2>4. CASE m = TargetData
    BY <1>1, <2>4
  <2> QED BY <2>1, <2>2, <2>3, <2>4 DEF Replies
<1> QED BY <1>1, <1>2

\* A reply that is sent, and one that is received.
LEMMA AnswerMoves ==
  ASSUME TypeOK, NEW m \in Replies, Answers(m)
  PROVE  /\ s2c' # <<>>
         /\ s2c'[1] = IF s2c = <<>> THEN m ELSE s2c[1]
         /\ \A k \in DOMAIN s2c' : \/ k \in DOMAIN s2c /\ s2c'[k] = s2c[k]
                                   \/ k = Len(s2c) + 1 /\ s2c'[k] = m
         /\ s2c = <<>> => DOMAIN s2c' = {1}
<1>1. /\ DOMAIN s2c = 1..Len(s2c) /\ Len(s2c) \in Nat /\ DOMAIN s2c' = 1..(Len(s2c) + 1)
      /\ \A k \in 1..Len(s2c) : s2c'[k] = s2c[k]
      /\ s2c'[Len(s2c) + 1] = m /\ s2c' # <<>> /\ (s2c = <<>> <=> Len(s2c) = 0)
  <2>1. s2c \in Seq(Replies) /\ s2c' = Append(s2c, m)
    BY DEF TypeOK, Answers
  <2>2. Len(s2c) \in Nat /\ DOMAIN s2c = 1..Len(s2c) /\ (s2c = <<>> <=> Len(s2c) = 0)
    BY <2>1, EmptySeq
  <2>3. DOMAIN s2c' = 1..(Len(s2c) + 1) /\ s2c' # <<>>
    BY <2>1
  <2> QED BY <2>1, <2>2, <2>3
<1>2. s2c = <<>> => DOMAIN s2c' = {1} /\ s2c'[1] = m
  BY <1>1
<1>3. s2c # <<>> => s2c'[1] = s2c[1]
  BY <1>1
<1>4. \A k \in DOMAIN s2c' : k \in DOMAIN s2c \/ k = Len(s2c) + 1
  BY <1>1
<1> QED BY <1>1, <1>2, <1>3, <1>4

LEMMA ReceiveMoves ==
  ASSUME TypeOK, s2c # <<>>, s2c' = Tail(s2c)
  PROVE  /\ Head(s2c) = s2c[1] /\ 1 \in DOMAIN s2c /\ s2c[1] \in Replies
         /\ \A k \in DOMAIN s2c' : /\ k + 1 \in DOMAIN s2c /\ s2c'[k] = s2c[k + 1]
                                   /\ k + 1 # 1 /\ k \in Nat
BY DEF TypeOK

\* The application's side.
LEMMA AppDownstream ==
  ASSUME TypeOK, Upstream, Downstream,
         AppGreet \/ AppAuth \/ AppRequest \/ AppSend \/ AppLeave \/ AppStep
  PROVE  Downstream'
<1> USE DEF Server
<1>1. UNCHANGED <<stage, target, c2s>>
  BY DEF AppGreet, AppAuth, AppRequest, AppSend, AppLeave, AppStep, AppReceive, AppEnd
<1>2. CASE AppReceive
  <2>1. s2c # <<>> /\ s2c' = Tail(s2c) /\ stage # "init"
    BY <1>2 DEF AppReceive, Downstream
  <2>2. /\ Head(s2c) = s2c[1] /\ 1 \in DOMAIN s2c
        /\ s2c[1].type \in {"method", "auth", "reply", "data"}
        /\ s2c[1].type = "method" => s2c[1].result # "success"
        /\ \A k \in DOMAIN s2c' : /\ k + 1 \in DOMAIN s2c /\ s2c'[k] = s2c[k + 1]
                                  /\ k + 1 # 1 /\ k \in Nat
    BY <2>1, ReceiveMoves, ReplyTags
  <2>3. /\ \A k \in DOMAIN s2c' : IsAuth(k)' => IsAuth(k + 1)
        /\ \A j, k \in DOMAIN s2c' : IsAuth(j)' /\ IsAuth(k)' => j = k
    <3>1. \A k \in DOMAIN s2c' : IsAuth(k)' => IsAuth(k + 1)
      BY <2>2 DEF IsAuth
    <3>2. ASSUME NEW j \in DOMAIN s2c', NEW k \in DOMAIN s2c', IsAuth(j)', IsAuth(k)'
          PROVE  j = k
      <4>1. j + 1 = k + 1
        BY <2>2, <3>1, <3>2 DEF Downstream
      <4> QED BY <2>2, <4>1
    <3> QED BY <3>1, <3>2
  <2>4. app' \notin {"start", "method"}
    BY <1>2 DEF AppReceive, Ready
  <2>5. \/ app = "method" /\ s2c[1].result = "noauth" /\ app' = Ready
        \/ app = "method" /\ app' = "cred"
        \/ app = "auth" /\ s2c[1].result = "success" /\ app' = Ready
        \/ app = "request" /\ s2c[1].result = "success" /\ app' = "stream"
        \/ app = "stream" /\ app' = "stream"
        \/ app' = "over"
    BY <1>2, <2>2 DEF AppReceive
  <2>6. ASSUME stage = "auth" \/ \E k \in DOMAIN s2c' : IsAuth(k)'
        PROVE  app' \in {"method", "cred", "auth", "over"} \/ target = "up"
    <3>1. CASE app = "method" /\ s2c[1].result = "noauth"
      BY <2>1, <2>2, <2>3, <2>6, <3>1 DEF Downstream
    <3>2. CASE app = "auth" /\ s2c[1].result = "success"
      <4>1. CASE s2c[1].type = "auth"
        <5>1. IsAuth(1)
          BY <4>1 DEF IsAuth
        <5>2. stage # "auth" /\ \A k \in DOMAIN s2c' : ~IsAuth(k + 1)
          BY <2>2, <5>1 DEF Downstream
        <5> QED BY <2>3, <2>6, <5>2
      <4>2. CASE s2c[1].type \in {"reply", "data"}
        BY <2>2, <3>2, <4>2 DEF Downstream
      <4> QED BY <2>2, <3>2, <4>1, <4>2
    <3>3. CASE app \in {"request", "stream"}
      <4>1. stage = "auth" \/ \E k \in DOMAIN s2c : IsAuth(k)
        BY <2>2, <2>3, <2>6
      <4> QED BY <3>3, <4>1 DEF Downstream
    <3> QED BY <2>5, <3>1, <3>2, <3>3
  <2>7. ASSUME app' = "stream"
        PROVE  target = "up"
    <3>1. CASE app = "stream"
      BY <3>1 DEF Downstream
    <3>2. CASE app = "request" /\ s2c[1].result = "success"
      <4>1. CASE s2c[1].type = "auth"
        BY <2>2, <3>2, <4>1 DEF Downstream, IsAuth
      <4>2. CASE s2c[1].type \in {"reply", "data"}
        BY <2>2, <3>2, <4>2 DEF Downstream
      <4> QED BY <2>2, <3>2, <4>1, <4>2
    <3> QED BY <2>5, <2>7, <3>1, <3>2 DEF Ready
  <2>8. \A k \in DOMAIN s2c' : IsAuth(k)' => stage # "auth"
    BY <2>2, <2>3 DEF Downstream
  <2>9. \A k \in DOMAIN s2c' :
          s2c'[k].type = "data" \/ (s2c'[k].type = "reply" /\ s2c'[k].result = "success") =>
            target = "up"
    BY <2>2 DEF Downstream
  <2> QED BY <1>1, <2>1, <2>3, <2>4, <2>6, <2>7, <2>8, <2>9 DEF Downstream
<1>3. CASE AppGreet \/ AppAuth \/ AppRequest \/ AppSend \/ AppLeave \/ AppEnd
  <2>1. s2c' = s2c /\ \A k : IsAuth(k)' = IsAuth(k)
    BY <1>3 DEF AppGreet, AppAuth, AppRequest, AppSend, AppLeave, AppEnd, IsAuth
  <2>2. CASE AppGreet
    BY <1>1, <2>1, <2>2 DEF AppGreet, Downstream
  <2>3. CASE AppAuth
    BY <1>1, <2>1, <2>3 DEF AppAuth, Downstream
  <2>4. CASE AppRequest
    BY <1>1, <2>1, <2>4 DEF AppRequest, Downstream
  <2>5. CASE AppSend
    BY <1>1, <2>1, <2>5 DEF AppSend, Downstream
  <2>6. CASE AppLeave \/ AppEnd
    BY <1>1, <2>1, <2>6 DEF AppLeave, AppEnd, Downstream
  <2> QED BY <1>3, <2>2, <2>3, <2>4, <2>5, <2>6
<1> QED BY <1>2, <1>3 DEF AppStep

\* The session's side.
LEMMA SessionDownstream ==
  ASSUME TypeOK, Upstream, Downstream, ServerStep \/ ConnUp \/ ConnDown \/ ConnEnd
  PROVE  Downstream'
<1> USE DEF Others
<1>0. UNCHANGED <<app, out>>
  BY DEF ServerStep, StageInit, StageAuth, StageAuthBad, StageRequUp, StageRequDown,
         StageRequOther, ReadEnd, ConnUp, ConnDown, ConnEnd
<1>1. ASSUME NEW s, Reads(s)
      PROVE  stage = s /\ app # "start" /\ Message.type \in Kinds(Head(c2s))
             /\ InFlight(Message.type)
  <2>1. stage = s /\ c2s # <<>>
    BY <1>1 DEF Reads
  <2> QED BY <1>0, <1>1, <2>1, ReadInFlight DEF Downstream
<1>2. ASSUME NEW m \in Replies, Answers(m)
      PROVE  /\ s2c' # <<>> /\ (s2c # <<>> => s2c'[1] = s2c[1]) /\ (s2c = <<>> => s2c'[1] = m)
             /\ \A k \in DOMAIN s2c' : \/ k \in DOMAIN s2c /\ s2c'[k] = s2c[k]
                                       \/ k = Len(s2c) + 1 /\ s2c'[k] = m
             /\ s2c = <<>> => DOMAIN s2c' = {1}
  BY <1>2, AnswerMoves
<1>3. CASE StageInit
  <2>1. stage = "init" /\ app \in {"method", "over"} /\ s2c = <<>> /\ target = "none"
        /\ target' = target
    BY <1>1, <1>3 DEF StageInit, Downstream
  <2>2. PICK m \in Methods \cup {"unaccept"} : Answers(MethodReply(m)) /\ stage' = StageAfter(m)
    BY <1>3 DEF StageInit
  <2>3. DOMAIN s2c' = {1} /\ s2c'[1] = MethodReply(m) /\ s2c' # <<>>
    BY <1>2, <2>1, <2>2, ReplyTypes
  <2>4. s2c'[1].type = "method" /\ s2c'[1].result = m /\ \A k \in DOMAIN s2c' : ~IsAuth(k)'
    BY <2>3, ReplyTags DEF IsAuth
  <2>5. /\ stage' \in {"auth", "requ", "fini"} /\ (m = "usrpass" => stage' = "auth")
        /\ (m = "noauth" => stage' = "requ")
    BY <2>2 DEF StageAfter
  <2>6. /\ stage' = "auth" => app' \in {"method", "cred", "auth", "over"}
        /\ app' # "start" /\ app' # "stream"
    BY <1>0, <2>1
  <2> QED BY <1>0, <2>1, <2>3, <2>4, <2>5, <2>6 DEF Downstream
<1>4. CASE StageAuth \/ StageAuthBad
  <2>1. /\ stage = "auth" /\ target = "none" /\ target' = target
        /\ app \in {"method", "cred", "auth", "over"}
        /\ \A k \in DOMAIN s2c : ~IsAuth(k)
    BY <1>4 DEF StageAuth, StageAuthBad, Reads, Downstream
  <2>2. PICK r \in {"success", "refused", "error"} : Answers(AuthReply(r))
    BY <1>4 DEF StageAuth, StageAuthBad
  <2>3. stage' \in {"requ", "fini"} /\ (app = "method" => stage' = "fini")
    <3>1. CASE StageAuth
      <4>1. app # "method"
        BY <1>1, <3>1 DEF StageAuth, Upstream
      <4> QED BY <3>1, <4>1 DEF StageAuth
    <3>2. CASE StageAuthBad
      BY <3>2 DEF StageAuthBad
    <3> QED BY <1>4, <3>1, <3>2
  <2>4. AuthReply(r) \in Replies /\ AuthReply(r).type = "auth"
    BY ReplyTypes, ReplyTags
  <2>5. /\ \A k \in DOMAIN s2c' : IsAuth(k)' => k = Len(s2c) + 1
        /\ \A k \in DOMAIN s2c' : (k \in DOMAIN s2c /\ s2c'[k] = s2c[k]) \/ IsAuth(k)'
    BY <1>2, <2>1, <2>2, <2>4 DEF IsAuth
  <2>6. app = "method" => /\ s2c # <<>> /\ s2c'[1] = s2c[1] /\ s2c[1].type = "method"
                          /\ s2c[1].result # "noauth"
    BY <1>2, <2>1, <2>2, <2>4 DEF Downstream
  <2>7. \A k \in DOMAIN s2c' :
          s2c'[k].type = "data" \/ (s2c'[k].type = "reply" /\ s2c'[k].result = "success") =>
            target = "up"
    BY <2>5 DEF Downstream, IsAuth
  <2>8. app' \in {"method", "cred", "auth", "over"} /\ target' = "none" /\ s2c' # <<>>
    BY <1>0, <1>2, <2>1, <2>2, <2>4
  <2> QED BY <1>0, <2>1, <2>3, <2>5, <2>6, <2>7, <2>8 DEF Downstream
<1>5. ASSUME NEW m \in Replies, Answers(m), m.type \in {"reply", "data"},
             m.type = "data" \/ m.result = "success" => target' = "up",
             app # "start", stage \in {"requ", "conn"}, stage' \in {"conn", "fini"},
             stage' = "conn" => target' = "up", target = "up" => target' = "up"
      PROVE  Downstream'
  <2>1. \A k \in DOMAIN s2c' : IsAuth(k)' => k \in DOMAIN s2c /\ IsAuth(k)
    BY <1>2, <1>5 DEF IsAuth
  <2>2. \A k \in DOMAIN s2c' :
          s2c'[k].type = "data" \/ (s2c'[k].type = "reply" /\ s2c'[k].result = "success") =>
            target' = "up"
    BY <1>2, <1>5 DEF Downstream
  <2>3. app = "method" => /\ s2c # <<>> /\ s2c'[1] = s2c[1] /\ s2c[1].type = "method"
                          /\ s2c[1].result # "usrpass"
                          /\ s2c[1].result = "noauth" => \A k \in DOMAIN s2c : ~IsAuth(k)
    BY <1>2, <1>5 DEF Downstream
  <2>4. /\ \A j, k \in DOMAIN s2c' : IsAuth(j)' /\ IsAuth(k)' => j = k
        /\ (\E k \in DOMAIN s2c' : IsAuth(k)') =>
             app \in {"method", "cred", "auth", "over"} \/ target' = "up"
    BY <1>5, <2>1 DEF Downstream
  <2>5. app = "stream" => target' = "up"
    BY <1>5 DEF Downstream
  <2> QED BY <1>0, <1>2, <1>5, <2>1, <2>2, <2>3, <2>4, <2>5 DEF Downstream
<1>6. CASE StageRequUp
  <2>1. PICK a \in Atyps, n \in {10, 22} : Answers(Reply("success", a, n))
    BY <1>6 DEF StageRequUp, LengthOf, Atyps
  <2>2. /\ Reply("success", a, n) \in Replies /\ Reply("success", a, n).type = "reply"
        /\ app # "start" /\ stage = "requ" /\ stage' = "conn" /\ target' = "up"
    BY <1>1, <1>6, ReplyTypes, ReplyTags DEF StageRequUp
  <2> QED BY <1>5, <2>1, <2>2
<1>7. CASE StageRequDown
  <2>1. PICK r \in {"hostunreach", "error"}, a \in Atyps : Answers(Reply(r, a, 10))
    BY <1>7 DEF StageRequDown, LengthOf, Atyps
  <2>2. /\ Reply(r, a, 10) \in Replies /\ Reply(r, a, 10).type = "reply"
        /\ Reply(r, a, 10).result = r
        /\ app # "start" /\ stage = "requ" /\ stage' = "fini" /\ target' = target
    BY <1>1, <1>7, ReplyTypes, ReplyTags DEF StageRequDown
  <2> QED BY <1>5, <2>1, <2>2
<1>8. CASE ConnDown
  <2>1. /\ TargetData \in Replies /\ TargetData.type = "data" /\ Answers(TargetData)
        /\ app # "start" /\ stage = "conn" /\ stage' = "conn" /\ target' = target /\ target = "up"
    BY <1>8, ReplyTypes, ReplyTags DEF ConnDown, Downstream
  <2> QED BY <1>5, <2>1
<1>9. CASE ConnEnd /\ Answers(Reply("ttlexpired", "ipv4", 10))
  <2>1. /\ Reply("ttlexpired", "ipv4", 10) \in Replies
        /\ Reply("ttlexpired", "ipv4", 10).type = "reply"
        /\ app # "start" /\ stage = "conn" /\ stage' = "fini" /\ target' = target /\ target = "up"
    BY <1>9, ReplyTypes, ReplyTags DEF ConnEnd, Downstream, Atyps
  <2> QED BY <1>5, <1>9, <2>1
<1>10. CASE UNCHANGED <<s2c, target>> /\ (StageRequOther \/ ConnUp \/ ConnEnd \/ ReadEnd)
  <2>1. /\ stage' = "fini" \/ (stage' = "conn" /\ stage = "conn")
        /\ app # "start" /\ app' # "start"
    BY <1>0, <1>1, <1>10 DEF StageRequOther, ConnUp, ConnEnd, ReadEnd, Reads, Downstream
  <2>2. \A k : IsAuth(k)' = IsAuth(k)
    BY <1>10 DEF IsAuth
  <2>3. app = "method" => stage # "init"
    BY <1>10 DEF StageRequOther, ConnUp, ConnEnd, ReadEnd, Reads
  <2> QED BY <1>0, <1>10, <2>1, <2>2, <2>3 DEF Downstream
<1> QED BY <1>3, <1>4, <1>6, <1>7, <1>8, <1>9, <1>10
    DEF ServerStep, StageRequOther, ConnUp, ConnEnd, ReadEnd

LEMMA RelayDownstream ==
  ASSUME TypeOK, Downstream, RelayStep \/ UNCHANGED vars
  PROVE  Downstream'
<1>1. UNCHANGED <<app, s2c, stage, target>>
  BY DEF RelayStep, Relay, vars
<1>2. app = "start" => out' = <<>> /\ c2s' = <<>>
  <2>1. out = <<>> => ~RelayStep
    BY DEF RelayStep
  <2> QED BY <2>1 DEF Downstream, vars
<1> QED BY <1>1, <1>2 DEF Downstream, IsAuth

SInv == TypeOK /\ Upstream /\ Downstream

LEMMA InitStreams == Init => Upstream /\ Downstream
BY DEF Init, Upstream, Downstream, InFlight, Once, Kinds

THEOREM StreamInvariant == Spec => []SInv
<1>1. Init => SInv
  BY InitOK, InitStreams DEF IInv, SInv
<1>2. SInv /\ [Next]_vars => SInv'
  <2> SUFFICES ASSUME TypeOK, Upstream, Downstream, [Next]_vars PROVE SInv'
    BY DEF SInv
  <2>1. TypeOK'
    BY TypeStep
  <2>2. Upstream'
    BY WriteUpstream, OtherUpstream, ReadUpstream, TimeoutLeaves DEF Next, ServerStep
  <2>3. Downstream'
    BY AppDownstream, SessionDownstream, RelayDownstream, TimeoutLeaves DEF Next
  <2> QED BY <2>1, <2>2, <2>3 DEF SInv
<1> QED BY <1>1, <1>2, PTL DEF Spec

\* An application that streams has a target behind it, which is given nothing of the
\* negotiation: for eager applications too, however their messages share records.
THEOREM StreamIsClean == Spec => []StreamReachesTarget
<1>1. SInv => StreamReachesTarget
  BY DEF SInv, Upstream, Downstream, StreamReachesTarget
<1> QED BY <1>1, StreamInvariant, PTL
=============================================================================
