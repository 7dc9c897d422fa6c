---------------------------- MODULE MCLifecycle ----------------------------
(* Small instances of Lifecycle for TLC.  Chunks of one size are alike,    *)
(* so permuting them is sound; the mixed instance numbers them.            *)
EXTENDS Lifecycle, TLC

\* Remote endpoint: one chunk of each size.
MCMixed == [s \in Slots |-> IF s = 1 THEN "socks5" ELSE "websrv"]
\* Local endpoint.
MCClients == [s \in Slots |-> "client"]

\* Chunks of one size are interchangeable.
MCChunks == Permutations(Slots)
=============================================================================
