----------------------------- MODULE ByteStream -----------------------------
(* What one direction of a tunnel promises to the two programs at its      *)
(* ends: what was read is always a prefix of what was written.             *)
EXTENDS Sequences, SequencesExt

CONSTANTS Byte, MaxSent   \* MaxSent bounds what TLC lets the writer write

VARIABLES sent, got

Init == sent = <<>> /\ got = <<>>

Write == \E n \in 1 .. MaxSent - Len(sent) : \E chunk \in [1 .. n -> Byte] :
            sent' = sent \o chunk /\ UNCHANGED got

Deliver == \E n \in Len(got) + 1 .. Len(sent) :
            got' = SubSeq(sent, 1, n) /\ UNCHANGED sent

Next == Write \/ Deliver

Spec == Init /\ [][Next]_<<sent, got>>
=============================================================================
