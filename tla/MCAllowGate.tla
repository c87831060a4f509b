----------------------------- MODULE MCAllowGate -----------------------------
(* Small instances of AllowGate for TLC. *)
EXTENDS AllowGate

CONSTANTS k1, k2, ip1, ip2

MCKeys == {k1, k2}
MCIps == {ip1, ip2}
MCLimits == {0, 1}

Full(limit) == [full |-> TRUE, limit |-> limit]
File(c1, c2) == [k \in MCKeys |-> IF k = k1 THEN c1 ELSE c2]

\* Both listed, k2 without a limit; k1 removed and k2 limited to one session.
RevokingFiles == { File(Full(1), Full(0)), File(None, Full(1)) }

\* Two clients that are never changed.
SteadyFiles == { File(Full(1), Full(1)) }
==============================================================================
