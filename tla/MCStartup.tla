----------------------------- MODULE MCStartup -----------------------------
(* A small instance of Startup for TLC: one process whose file lists users  *)
(* in every way, and two with command lines that get in each other's way.   *)
EXTENDS Startup

MCProcs == {"p1", "p2", "p3"}

Values == {"bob:a", "bob:b", "amy:a", "nobody"}
MCSplit == [v \in Values |-> IF v = "nobody" THEN <<"nobody">>
                             ELSE IF v = "amy:a" THEN <<"amy", "a">>
                             ELSE IF v = "bob:a" THEN <<"bob", "a">>
                             ELSE <<"bob", "b">>]
MCAddresses == [h \in {"0.0.0.0", "two", "far", "unknown"} |->
                  CASE h = "0.0.0.0" -> <<TRUE>>
                    [] h = "two" -> <<FALSE, TRUE>>
                    [] h = "far" -> <<FALSE>>
                    [] h = "unknown" -> <<>>]

User0 == Pair("user0", "bob:a", "")
UserLines == {User0, Pair("user1", "amy:a", ""), Pair("user1", "bob:b", ""),
              Pair("user0", "nobody", ""), Pair("user1", "amy:a", "["), Other}
Lists == {<<Section("user")>> \o s : s \in UNION {[1..n -> UserLines] : n \in 0..2}}
    \cup {<<Section("user"), User0, l, Pair("user1", "amy:a", "")>> :
            l \in {Section("main"), Comment, Pair("user1", "bob:b", "=")}}

ServerOptions == [k |-> "key", c |-> "cert", s |-> "serial", m |-> "/run/pid"]
ClientOptions == [i |-> "far", s |-> "serial", m |-> "/run/pid", w |-> 1081]
Line(opts, file) == [opts |-> opts, file |-> file, readable |-> TRUE]
Listing == {Line(ServerOptions @@ [n |-> "file"], list) : list \in Lists}
Oddities ==
  {Line([ClientOptions EXCEPT !.i = "unknown"], <<>>),
   Line(ServerOptions @@ [a |-> "two"], <<>>),          \* second address
   Line([d |-> "", s |-> "serial", i |-> "far"], <<>>), \* no pid file
   [opts |-> [n |-> "file"], file |-> <<>>, readable |-> FALSE]}
Rivals ==
  {Line(ServerOptions @@ [p |-> 444, w |-> 81], <<>>),  \* its own ports
   Line(ServerOptions @@ [w |-> 82], <<>>),             \* one in common
   Line(ClientOptions, <<>>)}
Clients ==
  {Line(ClientOptions, <<>>),
   Line([ClientOptions EXCEPT !.m = "/etc/pid"], <<>>)} \* read-only
All == Listing \cup Oddities \cup Rivals \cup Clients
MCCommands == FoldSet(LAMBDA c, s : Append(s, c), <<>>, All)
NumbersOf(lines) == {n \in DOMAIN MCCommands : MCCommands[n] \in lines}
MCCommandsOf == [p \in MCProcs |->
  NumbersOf(IF p = "p1" THEN Listing \cup Oddities
            ELSE IF p = "p2" THEN Rivals ELSE Clients)]
=============================================================================
