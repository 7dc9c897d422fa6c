---------------------------- MODULE MCHandshake ----------------------------
(* Instances of Handshake for TLC: serials that are equal, different, empty *)
(* or start with a slash, and a web archive with pages of those names.      *)
EXTENDS Handshake

Hello == Path(0, "hello")
Other == Path(0, "other")
Slash == Path(1, "hello")
Empty == Path(0, "")

\* Every way two ends may be configured.
MCSerials == {Hello, Other, Slash, Empty} \X {Hello, Slash, Empty}
\* The ends have different serials, and the local one names a page.
MCDifferent == {<<Other, Hello>>}
\* The ends have the same serial, written with a leading slash.
MCSlash == {<<Slash, Slash>>}

\* An index that fits in the handshake buffer, a page that does not, and a link.
MCNames == {"", "hello", "other"}
MCSite == [n \in MCNames |->
             IF n = "other" THEN [code |-> "200", rest |-> 1]
             ELSE IF n = "hello" THEN [code |-> "301", rest |-> 0]
             ELSE [code |-> "200", rest |-> 0]]

MCBrowsing == {Request("GET", Root), Request("GET", Path(1, "hello")),
               Request("GET", Path(2, "other")), Request("other", Path(1, "hello"))}
=============================================================================
