-------------------------- MODULE MCStreamTransfer --------------------------
(***************************************************************************)
(* Instances of StreamTransfer: node "a" sends bundles "x" and "y", or it  *)
(* sends "x" while node "b" sends "y".                                     *)
(***************************************************************************)
EXTENDS StreamTransfer

MCOneWay == [b \in {"x", "y"} |-> "a"]
MCBothWays == [b \in {"x", "y"} |-> IF b = "x" THEN "a" ELSE "b"]
MCSize == [b \in {"x", "y"} |-> IF b = "x" THEN 2 ELSE 1]

\* Room for one bundle at the destination.
MCQuota == [n \in {"a", "b"} |-> IF n = "a" THEN 2 ELSE 1]

\* Node "a" is full with its own bundle.
MCFullQuota == [n \in {"a", "b"} |-> IF n = "a" THEN 1 ELSE 2]

=============================================================================
