----------------------------- MODULE ByteStream -----------------------------
(***************************************************************************)
(* What either direction of the tunnel promises the programs at its ends,  *)
(* and no more: the bytes that come out are the bytes that went in, in     *)
(* order, and the end of the stream is shown only after the last of them.  *)
(* The tunnel has no authenticated close: once a part of it has failed the *)
(* reader may be shown an end too early, and nothing tells it so.          *)
(***************************************************************************)
EXTENDS Naturals, Sequences, SequencesExt

VARIABLES
    sent,           \* bytes the writer has handed in
    closed,         \* the writer has ended its stream
    got,            \* bytes the reader has been given
    eof,            \* the reader has been shown the end
    broken          \* a part of the tunnel has failed

streamVars == <<sent, closed, got, eof, broken>>

Init ==
    /\ sent = <<>>
    /\ got = <<>>
    /\ ~closed /\ ~eof /\ ~broken

Send ==
    /\ ~closed
    /\ IsStrictPrefix(sent, sent')
    /\ UNCHANGED <<closed, got, eof, broken>>

Receive ==
    /\ ~eof
    /\ IsStrictPrefix(got, got')
    /\ IsPrefix(got', sent)
    /\ UNCHANGED <<sent, closed, eof>>
    /\ broken => broken'

Close ==
    /\ ~closed /\ closed'
    /\ UNCHANGED <<sent, got, eof, broken>>

End ==
    /\ ~eof /\ eof'
    /\ closed /\ got = sent
    /\ UNCHANGED <<sent, closed, got, broken>>

\* Either end may also learn of the failure as an end of its stream.
Break ==
    /\ broken'
    /\ eof => eof'
    /\ UNCHANGED <<sent, closed, got>>

Next == Send \/ Receive \/ Close \/ End \/ Break

Spec == Init /\ [][Next]_streamVars
=============================================================================
