-------------------------------- MODULE Pipe --------------------------------
(***************************************************************************)
(* What one direction of a tunnel promises: the receiver gets the chunks   *)
(* that were sent, in their order, none of them twice, and possibly not    *)
(* the last ones.  Where notices are allowed one may follow, as the last   *)
(* thing received.                                                         *)
(***************************************************************************)
EXTENDS Naturals, Sequences

CONSTANTS
  Notices   \* what may be received though it was not sent, none of them a chunk

VARIABLES
  sent,   \* number of chunks sent: they are 1, 2, ...
  got     \* what was received

vars == <<sent, got>>

Init == sent = 0 /\ got = <<>>

Send == sent' = sent + 1 /\ UNCHANGED got

Ended == got # <<>> /\ got[Len(got)] \in Notices

Deliver ==
  /\ ~Ended /\ Len(got) < sent
  /\ got' = Append(got, Len(got) + 1)
  /\ UNCHANGED sent

Notify ==
  /\ ~Ended
  /\ \E n \in Notices : got' = Append(got, n)
  /\ UNCHANGED sent

Next == Send \/ Deliver \/ Notify

Spec == Init /\ [][Next]_vars
=============================================================================
