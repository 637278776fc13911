----------------------------- MODULE UidPolicy -----------------------------
(***************************************************************************)
(* The verdict of TeapodTun2socksCallback.validate (Kotlin) on a flow: the *)
(* owner that UidResolver.resolveUid finds, the whitelist and the optional *)
(* custom validator.                                                       *)
(***************************************************************************)
EXTENDS Integers

CONSTANTS
  Uids,          \* Android UIDs, all of them non-negative
  AllowedUids,   \* allowedUids, the set given to the callback
  CustomDenies   \* flows that the custom UidValidator answers with false

ASSUME PolicyAssumption == Uids \subseteq Nat /\ AllowedUids \subseteq Uids

WhitelistMode == {"ALLOW_ONLY", "DENY_ONLY", "ALLOW_ALL"}

NoUid == -1   \* getConnectionOwnerUid found no owner, or it threw

checkUidWhitelist(mode, uid) ==
  \/ mode = "ALLOW_ONLY" /\ uid \in AllowedUids
  \/ mode = "DENY_ONLY" /\ uid \notin AllowedUids
  \/ mode = "ALLOW_ALL"

validate(mode, f, uid) ==
  uid >= 0 /\ checkUidWhitelist(mode, uid) /\ f \notin CustomDenies
=============================================================================
