------------------------------ MODULE MCBlockCheck ------------------------------
EXTENDS BlockCheck

CONSTANTS a

(* Two scanners that can and cannot be told apart, and every way in which their     *)
(* replies may count: open, blocking, remapped by the CDN, unusable, unknown.       *)
Says(id, verdicts, unblocked) ==
    [probeId |-> id, verdicts |-> verdicts, cdnUnblocked |-> unblocked, hostsTried |-> TRUE]

MCReplies ==
    {Says(a, {"ok"}, FALSE), Says(a, {"tspu_block", "ok"}, FALSE), Says(a, {"uncertain"}, FALSE),
     Says(Null, {"ok"}, TRUE), Says(Null, {"whitelist"}, FALSE), Says(Null, {"cdn_block"}, FALSE),
     Says(Null, {"sni_block"}, FALSE), Says(Null, {"other"}, FALSE)}
================================================================================
