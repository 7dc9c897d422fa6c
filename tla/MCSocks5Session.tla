-------------------------- MODULE MCSocks5Session --------------------------
(* Instances of Socks5Session for TLC: a remote endpoint with and without *)
(* users, and applications that offer the methods in several orders.       *)
EXTENDS Socks5Session

MCCreds == {"alice", "mallory"}
MCTables == {{}, {"alice"}}
MCOffers == {<<"noauth">>, <<"usrpass">>, <<"gssapi">>, <<"noauth", "usrpass">>,
             <<"usrpass", "noauth">>, <<"gssapi", "noauth">>}
MCRequests == {[cmd |-> "connect", atyp |-> "ipv4"], [cmd |-> "connect", atyp |-> "ipv6"],
               [cmd |-> "connect", atyp |-> "domain"], [cmd |-> "connect", atyp |-> "other"],
               [cmd |-> "bind", atyp |-> "ipv4"]}
=============================================================================
