---------------------- MODULE LTPBundleProcessorProofs ----------------------
(***************************************************************************)
(* The locking of LTPBundleProcessor does its work for any number of        *)
(* bundles, with or without a file, and at any point of a shutdown; and a   *)
(* block cut in memory meets no ASSERT of process_bundles.                  *)
(***************************************************************************)
EXTENDS MCLTPBundleProcessor, WellFoundedInduction, TLAPS

(* Where the bundle processor holds the lock of the bundle list. *)
Holding == {"expire", "file", "flush", "fileSegs", "loop", "segment", "end", "abort"}

(* The inductive invariant: the bundle processor owns the list from the     *)
(* time it looks for expired bundles until it is through with the block.    *)
ListOwned ==
    /\ pc \in [Threads -> Labels]
    /\ owner \in [Locks -> Threads \cup {"free"}]
    /\ list \subseteq Bundles /\ blocks \subseteq Bundles
    /\ pc["bp"] \in Holding => owner["BL"] = "bp"
    /\ IteratorValid

-----------------------------------------------------------------------------
(* A non-empty set of naturals has a least element. *)
LEMMA LeastNatural ==
    ASSUME NEW S \in SUBSET Nat, S # {}
    PROVE  \E x \in S : \A y \in S : x <= y
<1>1. PICK x \in S : \A y \in S : ~(<<y, x>> \in OpToRel(<, Nat))
  BY Zenon, NatLessThanWellFounded, WFMin
<1>2. ASSUME NEW y \in S PROVE ~(y < x)
  <2>1. ASSUME y < x PROVE <<y, x>> \in OpToRel(<, Nat)
    BY <2>1 DEF OpToRel
  <2> QED BY Zenon, <2>1, <1>1
<1> QED BY <1>2

(* Bundles are numbered by naturals, and the end of the list is none. *)
LEMMA BundlesAreNaturals == Bundles \subseteq Nat /\ NBundles + 1 \notin Bundles
<1>1. NBundles \in Nat
  BY BundleProcessorAssumption, Zenon
<1> QED BY <1>1 DEF Bundles

(* The iterator moves to a member of the list or to its end. *)
LEMMA FromIsMember ==
    ASSUME NEW b \in Nat, NEW members \in SUBSET Bundles
    PROVE  From(b, members) \in members \cup {NBundles + 1}
<1> DEFINE S == {c \in members : c >= b}
<1>1. S \in SUBSET Nat
  BY Zenon, BundlesAreNaturals
<1>2. CASE S = {}
  BY <1>2 DEF From
<1>3. CASE S # {}
  <2>1. PICK c \in S : \A d \in S : c <= d
    <3> HIDE DEF S
    <3> QED BY <1>1, <1>3, LeastNatural
  <2>2. c \in members /\ c >= b /\ \A d \in members : d >= b => c <= d
    BY <2>1
  <2> QED BY <2>2 DEF From
<1> QED BY <1>2, <1>3

(* The list is touched only by its owner or while nobody owns it: process_  *)
(* bundles can rely on the iterator it keeps across segments.               *)
THEOREM IteratorStaysValid == Spec => []IteratorValid
<1>1. Init => ListOwned
  BY DEF Init, ListOwned, IteratorValid, Threads, Locks, Labels, Holding
<1>2. ASSUME ListOwned, [Next]_vars PROVE ListOwned'
  <2> USE <1>2 DEF ListOwned, Holding, Goto, Free, Acquire, Release, Threads, Locks, Labels
  <2>1. ASSUME NEW members \in SUBSET list, NEW b \in Nat
        PROVE  From(b, members) \in members \cup {NBundles + 1}
    <3>1. members \in SUBSET Bundles
      OBVIOUS
    <3> QED BY <3>1, FromIsMember
  <2>2. pc["bp"] \in {"file", "fileSegs", "segment"} /\ ~AtEnd => next + 1 \in Nat
    <3>1. next \in list => next \in Nat
      BY BundlesAreNaturals, Zenon
    <3>2. next \in Nat => next + 1 \in Nat
      OBVIOUS
    <3> QED BY <3>1, <3>2 DEF IteratorValid
  <2>3. CASE SndrBundleProcessor_run
    BY <2>3 DEF SndrBundleProcessor_run, IteratorValid, AtEnd
  <2>4. CASE remove_expired_bundles
    BY <2>1, <2>4 DEF remove_expired_bundles, IteratorValid, AtEnd
  <2>5. CASE AbortedDueToExpiredBundles
    BY <2>5 DEF AbortedDueToExpiredBundles, IteratorValid
  <2>6. CASE FileError
    BY <2>6 DEF FileError, IteratorValid
  <2>7. CASE WriteBundle
    BY <2>1, <2>2, <2>7 DEF WriteBundle, IteratorValid, AtEnd
  <2>8. CASE FlushFile
    BY <2>1, <2>8 DEF FlushFile, IteratorValid, AtEnd
  <2>9. CASE send_segment_using_file
    BY <2>1, <2>2, <2>9 DEF send_segment_using_file, IteratorValid, AtEnd
  <2>10. CASE RevertToMemory
    BY <2>10 DEF RevertToMemory, IteratorValid
  <2>11. CASE NextBundle
    BY <2>11 DEF NextBundle, IteratorValid, AtEnd
  <2>12. CASE check_send_segment
    <3>1. /\ next' = From(next + 1, list) /\ list' = list /\ owner' = owner
          /\ pc' = [pc EXCEPT !["bp"] = "loop"] /\ pc["bp"] = "segment"
      BY <2>12 DEF check_send_segment
    <3>2. ~AtEnd
      BY <2>12, BundlesAreNaturals DEF check_send_segment, AtEnd
    <3>3. blocks' \subseteq Bundles
      BY <2>12 DEF check_send_segment
    <3> QED BY <3>1, <3>2, <3>3, <2>1, <2>2 DEF IteratorValid, AtEnd
  <2>13. CASE EndOfBlock \/ AssertFails
    BY <2>13 DEF EndOfBlock, AssertFails, IteratorValid
  <2>14. CASE Timer
    BY <2>14 DEF Timer, data_seg_timeout, TimerPops, PostTransmitProcessing, IteratorValid, AtEnd
  <2>15. CASE Receiver
    BY <2>15 DEF Receiver, process_CS, ReceiverPops, erase_send_session, PostTransmitProcessing,
       IteratorValid, AtEnd
  <2>16. CASE Shutdown
    BY <2>16 DEF Shutdown, start_shutdown, cancel_all_sessions, ShutdownPops,
       PostTransmitProcessing, IteratorValid, AtEnd
  <2>17. CASE UNCHANGED vars
    BY <2>17 DEF vars, IteratorValid, AtEnd
  <2> QED BY <2>3, <2>4, <2>5, <2>6, <2>7, <2>8, <2>9, <2>10, <2>11, <2>12, <2>13, <2>14, <2>15,
             <2>16, <2>17 DEF Next, BundleProcessor
<1>3. ListOwned => IteratorValid
  BY DEF ListOwned
<1> QED BY <1>1, <1>2, <1>3, PTL DEF Spec

(* No bundle is reported twice and none is lost, whichever of the four      *)
(* threads takes it off the list.                                           *)
THEOREM ReportedExactlyWhenPopped == Spec => []ReportedIffPopped
<1> DEFINE I == list \subseteq Bundles /\ told \in [Bundles -> {"nothing", "failure", "expired"}] /\ ReportedIffPopped
<1>1. Init => I
  BY DEF Init, ReportedIffPopped
<1>2. ASSUME I, [Next]_vars PROVE I'
  <2>1. CASE UNCHANGED <<list, told>>
    BY <1>2, <2>1 DEF ReportedIffPopped
  <2>2. CASE PostTransmitProcessing
    BY <1>2, <2>2 DEF PostTransmitProcessing, ReportedIffPopped
  <2>3. CASE remove_expired_bundles
    BY <1>2, <2>3 DEF remove_expired_bundles, ReportedIffPopped
  <2> HIDE DEF I
  <2> QED BY <1>2, <2>1, <2>2, <2>3 DEF Next, vars, BundleProcessor, Timer, Receiver, Shutdown,
     SndrBundleProcessor_run, AbortedDueToExpiredBundles, FileError, WriteBundle, FlushFile,
     send_segment_using_file, RevertToMemory, NextBundle, check_send_segment, EndOfBlock,
     AssertFails, data_seg_timeout, TimerPops, process_CS, ReceiverPops, erase_send_session,
     start_shutdown, cancel_all_sessions, ShutdownPops
<1> QED BY <1>1, <1>2, PTL DEF Spec

-----------------------------------------------------------------------------
(* The inductive invariant of the plain setting: the processor keeps the    *)
(* list, the blocks of every bundle from the iterator on still exist, and   *)
(* the iterator comes to the end only with the last segment.                *)
PlainInv ==
    plain => /\ ListOwned
             /\ inMemory /\ ~stopping /\ pc["stop"] = "idle"
             /\ pc["bp"] \in {"idle", "expire", "abort", "loop", "segment", "end", "done"}
             /\ pc["bp"] \in {"idle", "expire"} => blocks = Bundles
             /\ pc["bp"] \in {"loop", "segment"} => \A c \in list : c >= next => c \in blocks
             /\ pc["bp"] = "loop" /\ AtEnd => lastSeg
             /\ pc["bp"] = "segment" => ~AtEnd
             /\ pc["bp"] = "end" => lastSeg

(* The iterator does not go back, and comes to the end only when no bundle  *)
(* is left in front of it.                                                  *)
LEMMA FromIsAhead ==
    ASSUME NEW b \in 1 .. NBundles + 1, NEW members \in SUBSET Bundles
    PROVE  /\ From(b, members) \in Nat /\ From(b, members) >= b
           /\ From(b, members) = NBundles + 1 => \A c \in members : c < b
<1> DEFINE S == {c \in members : c >= b}
<1>0. NBundles \in Nat /\ b \in Nat /\ b <= NBundles + 1
  BY BundleProcessorAssumption
<1>1. S \in SUBSET Nat
  BY Zenon, BundlesAreNaturals
<1>2. CASE S = {}
  <2>1. From(b, members) = NBundles + 1
    BY <1>2 DEF From
  <2>2. \A c \in members : c \in Nat /\ ~(c >= b)
    BY <1>2, BundlesAreNaturals
  <2> QED BY <2>1, <2>2, <1>0
<1>3. CASE S # {}
  <2>1. PICK c \in S : \A d \in S : c <= d
    <3> HIDE DEF S
    <3> QED BY <1>1, <1>3, LeastNatural
  <2>2. From(b, members) \in members /\ From(b, members) >= b
    BY <2>1 DEF From
  <2> QED BY <2>2, BundlesAreNaturals
<1> QED BY <1>2, <1>3

(* A block that is cut in memory and not interrupted by a shutdown has the  *)
(* blocks of each bundle it comes to and ends with its last segment,        *)
(* whichever bundles expired first and whoever pops the list meanwhile.     *)
THEOREM PlainBlockIsCompleted == MCSpec => []PlainAssertsHold
<1> DEFINE mcvars == <<vars, plain>>
<1>1. MCInit => PlainInv
  <2>1. ASSUME plain, Plain!Init PROVE PlainInv
    BY <2>1 DEF Plain!Init, Plain!Bundles, Plain!Threads, Plain!Locks, PlainInv, ListOwned,
       IteratorValid, Bundles, Threads, Locks, Labels, Holding
  <2> QED BY <2>1 DEF MCInit, PlainInv
<1>2. ASSUME PlainInv, [MCNext]_mcvars PROVE PlainInv'
  <2>1. CASE UNCHANGED mcvars
    BY <1>2, <2>1 DEF PlainInv, ListOwned, IteratorValid, AtEnd, vars
  <2>2. CASE ~plain /\ plain' = plain
    BY <2>2 DEF PlainInv
  <2>3. ASSUME plain, plain' = plain, Plain!Next PROVE PlainInv'
    <3> USE <1>2, <2>3 DEF PlainInv, ListOwned, Holding, Threads, Locks, Labels
    <3>0. \A c \in list : c \in Nat
      BY Zenon, BundlesAreNaturals
    <3>1. NBundles \in Nat /\ 1 \in 1 .. NBundles + 1
      BY BundleProcessorAssumption
    <3>2. CASE Plain!SndrBundleProcessor_run
      BY <3>2 DEF Plain!SndrBundleProcessor_run, Plain!Goto, Plain!Acquire, Plain!Free,
         IteratorValid, AtEnd
    <3>3. CASE Plain!remove_expired_bundles
      <4>1. PICK expired \in SUBSET list :
               /\ list' = list \ expired
               /\ next' = From(1, list \ expired)
               /\ pc' = [pc EXCEPT !["bp"] = IF list = expired THEN "abort" ELSE "loop"]
        BY <3>3 DEF Plain!remove_expired_bundles, Plain!Goto, Plain!From, From
      <4>2. list \ expired \in SUBSET Bundles
        OBVIOUS
      <4>3. list # expired => next' \in list' /\ next' # NBundles + 1
        <5>1. From(1, list \ expired) \in (list \ expired) \cup {NBundles + 1}
          BY <4>2, FromIsMember
        <5>2. From(1, list \ expired) = NBundles + 1 => \A c \in list \ expired : c < 1
          BY <4>2, <3>1, FromIsAhead
        <5>3. \A c \in Bundles : ~(c < 1)
          BY <3>1 DEF Bundles
        <5> QED BY <4>1, <5>1, <5>2, <5>3
      <4>4. /\ pc["bp"] = "expire" /\ blocks = Bundles
            /\ UNCHANGED <<owner, blocks, lastSeg, stopping, inMemory, plain>>
        BY <3>3 DEF Plain!remove_expired_bundles
      <4> QED BY <4>1, <4>3, <4>4 DEF IteratorValid, AtEnd
    <3>4. CASE Plain!AbortedDueToExpiredBundles
      BY <3>4 DEF Plain!AbortedDueToExpiredBundles, Plain!Goto, Plain!Release, IteratorValid, AtEnd
    <3>5. CASE Plain!NextBundle
      BY <3>5 DEF Plain!NextBundle, Plain!Goto, Plain!AtEnd, IteratorValid, AtEnd
    <3>6. CASE Plain!check_send_segment
      <4>1. /\ pc["bp"] = "segment" /\ pc' = [pc EXCEPT !["bp"] = "loop"]
            /\ blocks' = blocks \ {next} /\ next \in blocks
            /\ next' = From(next + 1, list)
            /\ lastSeg' = (From(next + 1, list) = NBundles + 1)
            /\ UNCHANGED <<owner, list, stopping, inMemory>>
        BY <3>6 DEF Plain!check_send_segment, Plain!Goto, Plain!From, From, Plain!Queue,
           Plain!IsLast
      <4>2. next \in Nat /\ next + 1 \in Nat /\ next + 1 \in 1 .. NBundles + 1
        BY <4>1, <3>1 DEF Bundles
      <4>3. next' \in Nat /\ next' >= next + 1
        BY <4>1, <4>2, FromIsAhead
      <4>4. next' \in list \cup {NBundles + 1}
        BY <4>1, <4>2, FromIsMember
      <4>5. \A c \in list : c >= next' => c \in blocks'
        <5>1. ASSUME NEW c \in list, c >= next' PROVE c >= next /\ c # next
          BY <5>1, <4>2, <4>3, <3>0
        <5>2. \A c \in list : c >= next => c \in blocks
          BY <4>1
        <5> QED BY <4>1, <5>1, <5>2, Zenon
      <4> QED BY <4>1, <4>4, <4>5 DEF IteratorValid, AtEnd
    <3>7. CASE Plain!EndOfBlock
      BY <3>7 DEF Plain!EndOfBlock, Plain!Goto, Plain!Release, IteratorValid, AtEnd
    <3>8. CASE Plain!AssertFails
      <4>1. pc["bp"] = "segment" => next \in blocks
        <5>1. next \in list => next >= next
          BY <3>0
        <5> QED BY <5>1 DEF IteratorValid, AtEnd
      <4> QED BY <3>8, <4>1 DEF Plain!AssertFails
    <3>8a. ASSUME NEW t \in {"timer", "rx"}, NEW l \in {"pop", "erase", "done"},
                  NEW h \in {"timer", "free", owner["SM"]},
                  pc' = [pc EXCEPT ![t] = l], owner' = [owner EXCEPT !["SM"] = h]
           PROVE  /\ pc' \in [Threads -> Labels] /\ owner' \in [Locks -> Threads \cup {"free"}]
                  /\ pc'["bp"] = pc["bp"] /\ pc'["stop"] = pc["stop"]
                  /\ owner'["BL"] = owner["BL"]
      BY <3>8a
    <3>9. ASSUME Plain!data_seg_timeout \/ Plain!process_CS \/ Plain!erase_send_session
          PROVE  PlainInv'
      <4>0. \E t \in {"timer", "rx"}, l \in {"pop", "erase", "done"},
               h \in {"timer", "free", owner["SM"]} :
               pc' = [pc EXCEPT ![t] = l] /\ owner' = [owner EXCEPT !["SM"] = h]
        <5>1. owner = [owner EXCEPT !["SM"] = owner["SM"]]
          OBVIOUS
        <5> QED BY <3>9, <5>1, Zenon DEF Plain!data_seg_timeout, Plain!process_CS,
              Plain!erase_send_session, Plain!Goto, Plain!Acquire
      <4>1. /\ pc' \in [Threads -> Labels] /\ owner' \in [Locks -> Threads \cup {"free"}]
            /\ pc'["bp"] = pc["bp"] /\ pc'["stop"] = pc["stop"] /\ owner'["BL"] = owner["BL"]
            /\ UNCHANGED <<list, blocks, next, lastSeg, stopping, inMemory>>
        BY <3>9, <4>0, <3>8a, Zenon DEF Plain!data_seg_timeout, Plain!process_CS,
           Plain!erase_send_session
      <4> QED BY <4>1, Zenon DEF IteratorValid, AtEnd
    <3>10. ASSUME Plain!TimerPops \/ Plain!ReceiverPops PROVE PlainInv'
      <4>0. \E t \in {"timer", "rx"}, l \in {"pop", "erase", "done"},
               h \in {"timer", "free", owner["SM"]} :
               pc' = [pc EXCEPT ![t] = l] /\ owner' = [owner EXCEPT !["SM"] = h]
        <5>1. owner = [owner EXCEPT !["SM"] = owner["SM"]]
          OBVIOUS
        <5> QED BY <3>10, <5>1, Zenon DEF Plain!TimerPops, Plain!ReceiverPops, Plain!Goto,
              Plain!Release
      <4>1. /\ pc' \in [Threads -> Labels] /\ owner' \in [Locks -> Threads \cup {"free"}]
            /\ pc'["bp"] = pc["bp"] /\ pc'["stop"] = pc["stop"] /\ owner'["BL"] = owner["BL"]
            /\ UNCHANGED <<blocks, next, lastSeg, stopping, inMemory>>
            /\ list' = {}
        BY <3>10, <4>0, <3>8a, Zenon DEF Plain!TimerPops, Plain!ReceiverPops,
           Plain!PostTransmitProcessing
      <4>2. owner["BL"] # "bp"
        BY <3>10 DEF Plain!TimerPops, Plain!ReceiverPops, Plain!Free
      <4>3. pc["bp"] \notin Holding
        BY <4>2
      <4> QED BY <4>1, <4>2, <4>3 DEF IteratorValid, AtEnd
    <3>11. ~Plain!Shutdown
      BY DEF Plain!Shutdown, Plain!start_shutdown, Plain!cancel_all_sessions, Plain!ShutdownPops
    <3>12. ~(Plain!FileError \/ Plain!WriteBundle \/ Plain!FlushFile
             \/ Plain!send_segment_using_file \/ Plain!RevertToMemory)
      BY DEF Plain!FileError, Plain!WriteBundle, Plain!FlushFile, Plain!send_segment_using_file,
         Plain!RevertToMemory
    <3> QED BY <3>2, <3>3, <3>4, <3>5, <3>6, <3>7, <3>8, <3>9, <3>10, <3>11, <3>12
       DEF Plain!Next, Plain!BundleProcessor, Plain!Timer, Plain!Receiver
  <2> QED BY <1>2, <2>1, <2>2, <2>3 DEF MCNext
<1>3. PlainInv => PlainAssertsHold
  BY DEF PlainInv, PlainAssertsHold, AssertsHold, Alive
<1> QED BY <1>1, <1>2, <1>3, PTL DEF MCSpec
=============================================================================
