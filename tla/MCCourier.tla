----------------------------- MODULE MCCourier -----------------------------
(* Two files in one directory of audit/, one in the root, one in a directory of *)
(* its own.                                                                     *)
EXTENDS Courier, TLC

CONSTANTS a, b, f, h, AuditDir, Dir

MCFiles == {a, b, f, h}
MCDirs  == {AuditDir, Dir}
MCUnder == (AuditDir :> {a, b}) @@ (Dir :> {h})
MCAudit == {a, b, AuditDir}

CourierSymmetry == Permutations(Contents) \cup Permutations({a, b})
=============================================================================
