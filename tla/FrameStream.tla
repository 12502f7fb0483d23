---------------------------- MODULE FrameStream ----------------------------
(***************************************************************************)
(* What a connection promises a peer that keeps to the protocol: the items *)
(* it sends are handed over one by one, in order, none changed, lost or    *)
(* invented.  FramePipeline implements it.                                 *)
(***************************************************************************)
EXTENDS Integers, Sequences

VARIABLES
    sent,           \* items the peer has sent
    got             \* items that were handed over

Init == sent = <<>> /\ got = <<>>

Send == sent = SubSeq(sent', 1, Len(sent)) /\ UNCHANGED got

Deliver ==
    /\ \E n \in Len(got) + 1 .. Len(sent) : got' = SubSeq(sent, 1, n)
    /\ UNCHANGED sent

Next == Send \/ Deliver

Spec == Init /\ [][Next]_<<sent, got>> /\ WF_<<sent, got>>(Deliver)
=============================================================================
