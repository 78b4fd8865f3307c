------------------------ MODULE MCLTPBundleProcessor ------------------------
(***************************************************************************)
(* Two settings of LTPBundleProcessor in one state space: the one the      *)
(* configuration file gives (files, disk errors, intermediate checkpoints, *)
(* a shutdown), and one in which the block is cut in memory, with a single *)
(* checkpoint and without a shutdown.                                      *)
(***************************************************************************)
EXTENDS LTPBundleProcessor

VARIABLE plain    \* whether this is a behaviour of the second setting

Plain == INSTANCE LTPBundleProcessor
           WITH UseFile <- FALSE, DiskMayFail <- FALSE,
                Intermediate <- FALSE, MayShutdown <- FALSE

MCInit == \/ plain = FALSE /\ Init
          \/ plain = TRUE /\ Plain!Init

MCNext == /\ UNCHANGED plain
          /\ \/ ~plain /\ Next
             \/ plain /\ Plain!Next

MCSpec == /\ MCInit
          /\ [][MCNext]_<<vars, plain>>
          /\ plain => Plain!Fairness

(* Cut in memory, with one checkpoint and without a shutdown, a block meets *)
(* neither ASSERT of process_bundles: the last bundle of the list is seen   *)
(* to be the last although others expired, so "should always have sent the  *)
(* last segment and be at the end of the bundle list" is true.              *)
PlainAssertsHold == plain => AssertsHold

(* In the same setting the bundles of a cancelled session always return to  *)
(* the bundle daemon: PostTransmitProcessing gets the bundle list.          *)
PlainCancelReachesBundles == (plain /\ session # "DS") ~> list = {}
=============================================================================
