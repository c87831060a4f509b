---------------------------- MODULE MCSpaVerifier ----------------------------
(* Small instances of SpaVerifier for TLC. *)
EXTENDS SpaVerifier

CONSTANTS k1, k2, ip1, ip2

Payload(k, c, t, ip, anySource, good) ==
    [key |-> k, counter |-> c, timestamp_ms |-> t, allow_ip |-> ip,
     use_packet_source |-> anySource, authentic |-> good]

MCKeys == {k1, k2}
MCIps == {ip1, ip2}
MCTimes == {0, 2}

\* Two bound payloads of k1, one escape-hatch payload of k2, one forgery each.
MCPackets ==
    { Payload(k1, 1, 0, ip1, FALSE, TRUE),
      Payload(k1, 2, 1, ip1, FALSE, TRUE),
      Payload(k2, 1, 1, ip2, TRUE, TRUE),
      Payload(k1, 3, 1, ip2, TRUE, FALSE),
      Payload(k2, 2, 2, ip2, FALSE, FALSE) }

\* Both clients; k1 removed; k2 demoted to the decoy tier.
MCKeyFiles ==
    { [k \in MCKeys |-> "full"],
      [k \in MCKeys |-> IF k = k1 THEN "absent" ELSE "full"],
      [k \in MCKeys |-> IF k = k2 THEN "decoy" ELSE "full"] }
==============================================================================
