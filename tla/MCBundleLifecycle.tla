-------------------------- MODULE MCBundleLifecycle --------------------------
(***************************************************************************)
(* BundleLifecycle for TLC: a bundle with an empty payload, one of one     *)
(* block, which fills the quota, and one that exceeds it.                  *)
(***************************************************************************)
EXTENDS BundleLifecycle

CONSTANTS empty, small, large

MCBundles == {empty, small, large}
MCPayloadLength ==
    [b \in MCBundles |-> CASE b = empty -> 0 [] b = small -> 3 [] b = large -> 5]
=============================================================================
