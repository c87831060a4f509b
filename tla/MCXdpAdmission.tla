--------------------------- MODULE MCXdpAdmission ---------------------------
(* Small instances of XdpAdmission for TLC. *)
EXTENDS XdpAdmission, TLC

CONSTANTS ip1, ip2

MCIps == {ip1, ip2}

\* Source addresses are interchangeable.
IpSymmetry == Permutations(MCIps)
=============================================================================
