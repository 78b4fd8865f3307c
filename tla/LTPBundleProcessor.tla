-------------------------- MODULE LTPBundleProcessor --------------------------
(***************************************************************************)
(* The threads that meet on one outgoing session while its block is being   *)
(* cut, lock by lock: the bundle processor (SndrBundleProcessor::run), the  *)
(* timer thread (data_seg_timeout with its retries exhausted), the receiver *)
(* thread (process_CS) and the thread that shuts the engine down.           *)
(*                                                                          *)
(* LTPSender treats "wait for the bundle list" as one guard; here is what   *)
(* the threads hold while they wait.                                        *)
(***************************************************************************)
EXTENDS Naturals, FiniteSets

CONSTANTS
    NBundles,       \* bundles aggregated into the session
    UseFile,        \* use_files_xmit, and the session is large enough
    DiskMayFail,    \* writes to the session file may fail
    Intermediate,   \* bytes_per_checkpoint: a checkpoint at the end of every bundle
    MayShutdown     \* whether start_shutdown may be called

ASSUME BundleProcessorAssumption ==
    /\ NBundles \in Nat \ {0}
    /\ {UseFile, DiskMayFail, Intermediate, MayShutdown} \subseteq BOOLEAN

Bundles == 1 .. NBundles
Threads == {"bp", "timer", "rx", "stop"}

(* BL: Bundle_List()->lock(), SM: SegMap_Lock(), SL: session_list_lock_ *)
Locks == {"BL", "SM", "SL"}

(* Where a thread can be. *)
Labels == {"idle", "expire", "file", "flush", "fileSegs", "retry", "loop", "segment", "end",
           "abort", "pop", "erase", "lock", "assert", "done"}

VARIABLES
    pc,             \* where each thread is
    owner,          \* which thread holds each lock
    list,           \* the session's Bundle_List
    blocks,         \* bundles whose transmit blocks still exist
    next,           \* the bundle the iterator points at; NBundles + 1 at the end
    lastSeg,        \* last_seg
    out,            \* the most that was queued: nothing, data, or a checkpoint
    session,        \* DS, CS or erased from send_sessions_
    stopping,       \* start_shutting_down_
    inMemory,       \* the attempt that needs no file
    told            \* what the bundle daemon was told of each bundle

vars == <<pc, owner, list, blocks, next, lastSeg, out, session, stopping, inMemory,
          told>>

TypeOK ==
    /\ pc \in [Threads -> Labels]
    /\ owner \in [Locks -> Threads \cup {"free"}]
    /\ list \subseteq Bundles
    /\ blocks \subseteq Bundles
    /\ next \in 1 .. NBundles + 1
    /\ lastSeg \in BOOLEAN
    /\ out \in {"nothing", "data", "checkpoint"}
    /\ session \in {"DS", "CS", "erased"}
    /\ stopping \in BOOLEAN
    /\ inMemory \in BOOLEAN
    /\ told \in [Bundles -> {"nothing", "failure", "expired"}]

Init ==
    /\ pc = [t \in Threads |-> "idle"]
    /\ owner = [l \in Locks |-> "free"]
    /\ list = Bundles
    /\ blocks = Bundles
    /\ next = 1
    /\ lastSeg = FALSE
    /\ out = "nothing"
    /\ session = "DS"
    /\ stopping = FALSE
    /\ inMemory = ~UseFile
    /\ told = [b \in Bundles |-> "nothing"]

-----------------------------------------------------------------------------
Goto(t, label) == pc' = [pc EXCEPT ![t] = label]
Free(t, l) == owner[l] \in {"free", t}
Acquire(t, l) == Free(t, l) /\ owner' = [owner EXCEPT ![l] = t]
Release(l) == owner' = [owner EXCEPT ![l] = "free"]

(* The iterator over a list whose members from b on are list \ 1 .. b - 1.  *)
From(b, members) ==
    IF \E c \in members : c >= b
    THEN CHOOSE c \in members : c >= b /\ \A d \in members : d >= b => c <= d
    ELSE NBundles + 1
AtEnd == next = NBundles + 1
(* Mutant: the last bundle is taken to be the last one that was loaded. *)
IsLast_AsLoaded(b) == b = NBundles
IsLast(b) == From(b + 1, list) = NBundles + 1

(* PostTransmitProcessing: every bundle still on the list is popped and     *)
(* reported; a bundle that expired in the queue is not reported again.      *)
PostTransmitProcessing ==
    /\ list' = {}
    /\ told' = [b \in Bundles |-> IF b \in list /\ told[b] = "nothing"
                                  THEN "failure" ELSE told[b]]

(* A segment goes to the convergence layer, as a checkpoint if it is the    *)
(* last or bytes_per_checkpoint is reached.                                 *)
Queue(last) ==
    /\ lastSeg' = last
    /\ out' = IF Intermediate \/ last \/ out = "checkpoint" THEN "checkpoint" ELSE "data"

-----------------------------------------------------------------------------
(* The bundle processor *)

(* SndrBundleProcessor::run and the entry of process_bundles: nothing is    *)
(* started once the engine is shutting down.                                *)
SndrBundleProcessor_run ==
    /\ pc["bp"] = "idle"
    /\ \/ stopping /\ Goto("bp", "done") /\ UNCHANGED owner
       \/ ~stopping /\ Acquire("bp", "BL") /\ Goto("bp", "expire")
    /\ UNCHANGED <<list, blocks, next, lastSeg, out, session, stopping, inMemory, told>>

(* Mutant: expired bundles are dropped without a word. *)
remove_expired_bundles_Silent ==
    /\ pc["bp"] = "expire"
    /\ \E expired \in SUBSET list :
        /\ list' = list \ expired
        /\ next' = From(1, list \ expired)
        /\ Goto("bp", IF list = expired THEN "abort" ELSE IF inMemory THEN "loop" ELSE "file")
    /\ UNCHANGED <<owner, blocks, lastSeg, out, session, stopping, inMemory, told>>

(* remove_expired_bundles, and the test for an empty list. *)
remove_expired_bundles ==
    /\ pc["bp"] = "expire"
    /\ \E expired \in SUBSET list :
        /\ list' = list \ expired
        /\ told' = [b \in Bundles |-> IF b \in expired THEN "expired" ELSE told[b]]
        /\ next' = From(1, list \ expired)
        /\ Goto("bp", IF list = expired THEN "abort" ELSE IF inMemory THEN "loop" ELSE "file")
    /\ UNCHANGED <<owner, blocks, lastSeg, out, session, stopping, inMemory>>

(* cleanup_sender_session, called with the bundle list locked: it looks the *)
(* session up and erases it under session_list_lock_.                       *)
AbortedDueToExpiredBundles ==
    /\ pc["bp"] = "abort"
    /\ Free("bp", "SL")
    /\ session' = "erased"
    /\ Release("BL")
    /\ Goto("bp", "done")
    /\ UNCHANGED <<list, blocks, next, lastSeg, out, stopping, inMemory, told>>

(* process_bundles_using_a_file, one bundle: its transmit blocks are        *)
(* written to the file and deleted.  A write that fails reverts to memory.  *)
FileError ==
    /\ pc["bp"] \in {"file", "flush"}
    /\ DiskMayFail
    /\ pc["bp"] = "file" => ~stopping /\ ~AtEnd /\ next \in blocks
    /\ Release("BL")
    /\ inMemory' = TRUE
    /\ Goto("bp", "retry")
    /\ UNCHANGED <<list, blocks, next, lastSeg, out, session, stopping, told>>

WriteBundle ==
    /\ pc["bp"] = "file"
    /\ \/ /\ stopping \/ AtEnd
          /\ Goto("bp", "flush")
          /\ UNCHANGED <<blocks, next>>
       \/ /\ ~stopping /\ ~AtEnd /\ next \in blocks
          /\ blocks' = blocks \ {next}
          /\ next' = From(next + 1, list)
          /\ UNCHANGED pc
    /\ UNCHANGED <<owner, list, lastSeg, out, session, stopping, inMemory, told>>

FlushFile ==
    /\ pc["bp"] = "flush"
    /\ Goto("bp", "fileSegs")
    /\ next' = From(1, list)
    /\ UNCHANGED <<owner, list, blocks, lastSeg, out, session, stopping, inMemory, told>>

(* The segments of the file, here one per bundle; AddSegment_outgoing takes *)
(* the segment-map lock.                                                    *)
send_segment_using_file ==
    /\ pc["bp"] = "fileSegs"
    /\ \/ /\ stopping \/ AtEnd
          /\ Release("BL")
          /\ Goto("bp", "done")
          /\ UNCHANGED <<next, lastSeg, out>>
       \/ /\ ~stopping /\ ~AtEnd
          /\ Free("bp", "SM")
          /\ Queue(IsLast(next))
          /\ next' = From(next + 1, list)
          /\ UNCHANGED <<pc, owner>>
    /\ UNCHANGED <<list, blocks, session, stopping, inMemory, told>>

(* After an error with the file process_bundles starts over in memory: it   *)
(* takes the list again, without asking whether a shutdown has begun.       *)
RevertToMemory ==
    /\ pc["bp"] = "retry"
    /\ Acquire("bp", "BL")
    /\ Goto("bp", "expire")
    /\ UNCHANGED <<list, blocks, next, lastSeg, out, session, stopping, inMemory, told>>

(* process_bundles, one bundle: its blocks are needed to produce it, and    *)
(* are deleted when its last segment is out.                                *)
NextBundle ==
    /\ pc["bp"] = "loop"
    /\ Goto("bp", IF stopping \/ AtEnd THEN "end" ELSE "segment")
    /\ UNCHANGED <<owner, list, blocks, next, lastSeg, out, session, stopping, inMemory, told>>

check_send_segment ==
    /\ pc["bp"] = "segment"
    /\ next \in blocks
    /\ Free("bp", "SM")
    /\ Queue(IsLast(next))
    /\ blocks' = blocks \ {next}
    /\ next' = From(next + 1, list)
    /\ Goto("bp", "loop")
    /\ UNCHANGED <<owner, list, session, stopping, inMemory, told>>

(* Mutant: the bundle list stays locked. *)
EndOfBlock_KeepsLock ==
    /\ pc["bp"] = "end"
    /\ lastSeg \/ pc["stop"] = "done"
    /\ Goto("bp", "done")
    /\ UNCHANGED <<owner, list, blocks, next, lastSeg, out, session, stopping, inMemory, told>>

(* The end of process_bundles.  Once start_shutdown has returned, shutdown  *)
(* may have set shutting_down_, and then last_seg is not looked at.         *)
EndOfBlock ==
    /\ pc["bp"] = "end"
    /\ lastSeg \/ pc["stop"] = "done"
    /\ Release("BL")
    /\ Goto("bp", "done")
    /\ UNCHANGED <<list, blocks, next, lastSeg, out, session, stopping, inMemory, told>>

(* ASSERT(sptr_blocks != nullptr), ASSERT(last_seg): the daemon aborts. *)
AssertFails ==
    /\ \/ pc["bp"] = "file" /\ ~stopping /\ ~AtEnd /\ next \notin blocks
       \/ pc["bp"] = "segment" /\ next \notin blocks
       \/ pc["bp"] = "end" /\ ~lastSeg
    /\ Goto("bp", "assert")
    /\ UNCHANGED <<owner, list, blocks, next, lastSeg, out, session, stopping, inMemory, told>>

-----------------------------------------------------------------------------
(* The other threads *)

(* data_seg_timeout gives up on a checkpoint: under the segment-map lock    *)
(* build_CS_segment turns the session to CS, then pops the bundle list.     *)
data_seg_timeout ==
    /\ pc["timer"] = "idle"
    /\ out = "checkpoint" /\ session = "DS"
    /\ Acquire("timer", "SM")
    /\ session' = "CS"
    /\ Goto("timer", "pop")
    /\ UNCHANGED <<list, blocks, next, lastSeg, out, stopping, inMemory, told>>

(* Mutant: the timer thread pops the list without its lock. *)
TimerPops_Unlocked ==
    /\ pc["timer"] = "pop"
    /\ PostTransmitProcessing
    /\ Release("SM")
    /\ Goto("timer", "done")
    /\ UNCHANGED <<blocks, next, lastSeg, out, session, stopping, inMemory>>

TimerPops ==
    /\ pc["timer"] = "pop"
    /\ Free("timer", "BL")
    /\ PostTransmitProcessing
    /\ Release("SM")
    /\ Goto("timer", "done")
    /\ UNCHANGED <<blocks, next, lastSeg, out, session, stopping, inMemory>>

(* process_CS: RemoveSegments, then cleanup_sender_session pops the list    *)
(* and erases the session.  It holds no lock across these.                  *)
process_CS ==
    /\ pc["rx"] = "idle"
    /\ out # "nothing" /\ session # "erased"
    /\ Free("rx", "SL") /\ Free("rx", "SM")
    /\ Goto("rx", "pop")
    /\ UNCHANGED <<owner, list, blocks, next, lastSeg, out, session, stopping, inMemory, told>>

ReceiverPops ==
    /\ pc["rx"] = "pop"
    /\ Free("rx", "BL") /\ Free("rx", "SL")
    /\ PostTransmitProcessing
    /\ Goto("rx", "erase")
    /\ UNCHANGED <<owner, blocks, next, lastSeg, out, session, stopping, inMemory>>

erase_send_session ==
    /\ pc["rx"] = "erase"
    /\ Free("rx", "SL")
    /\ session' = "erased"
    /\ Goto("rx", "done")
    /\ UNCHANGED <<owner, list, blocks, next, lastSeg, out, stopping, inMemory, told>>

(* Sender::start_shutdown, then cancel_all_sessions under session_list_lock_*)
start_shutdown ==
    /\ MayShutdown
    /\ pc["stop"] = "idle"
    /\ stopping' = TRUE
    /\ Goto("stop", "lock")
    /\ UNCHANGED <<owner, list, blocks, next, lastSeg, out, session, inMemory, told>>

cancel_all_sessions ==
    /\ pc["stop"] = "lock"
    /\ \/ /\ session = "DS"
          /\ Free("stop", "SM")
          /\ Acquire("stop", "SL")
          /\ session' = "CS"
          /\ Goto("stop", "pop")
       \/ /\ session # "DS"
          /\ Goto("stop", "done")
          /\ UNCHANGED <<owner, session>>
    /\ UNCHANGED <<list, blocks, next, lastSeg, out, stopping, inMemory, told>>

ShutdownPops ==
    /\ pc["stop"] = "pop"
    /\ Free("stop", "BL")
    /\ PostTransmitProcessing
    /\ Release("SL")
    /\ Goto("stop", "done")
    /\ UNCHANGED <<blocks, next, lastSeg, out, session, stopping, inMemory>>

-----------------------------------------------------------------------------
BundleProcessor ==
    \/ SndrBundleProcessor_run
    \/ remove_expired_bundles
    \/ AbortedDueToExpiredBundles
    \/ FileError
    \/ WriteBundle
    \/ FlushFile
    \/ send_segment_using_file
    \/ RevertToMemory
    \/ NextBundle
    \/ check_send_segment
    \/ EndOfBlock
    \/ AssertFails
Timer == data_seg_timeout \/ TimerPops
Receiver == process_CS \/ ReceiverPops \/ erase_send_session
Shutdown == start_shutdown \/ cancel_all_sessions \/ ShutdownPops

Alive == pc["bp"] # "assert"
Next == Alive /\ (BundleProcessor \/ Timer \/ Receiver \/ Shutdown)

Spec == Init /\ [][Next]_vars

(* Every thread keeps running; that a timeout, a cancel or a shutdown       *)
(* happens at all is not assumed.                                           *)
Fairness ==
    /\ WF_vars(Alive /\ BundleProcessor)
    /\ WF_vars(Alive /\ TimerPops)
    /\ WF_vars(Alive /\ (ReceiverPops \/ erase_send_session))
    /\ WF_vars(Alive /\ (cancel_all_sessions \/ ShutdownPops))
FairSpec == Spec /\ Fairness

-----------------------------------------------------------------------------
(* Properties *)

(* The iterator of process_bundles stays valid: while it is in its loops no *)
(* other thread pops the bundle it points at off the list.                  *)
IteratorValid ==
    pc["bp"] \in {"file", "fileSegs", "loop", "segment"} => AtEnd \/ next \in list

(* A bundle off the list has been reported, and one on it has not, whoever  *)
(* took it off: PostTransmitProcessing of three threads and                 *)
(* remove_expired_bundles never report a bundle twice or lose it.           *)
ReportedIffPopped == \A b \in Bundles : b \in list <=> told[b] = "nothing"

(* process_bundles "should always have sent the last segment and be at the  *)
(* end of the bundle list", and always has the blocks of the bundle it is   *)
(* about to produce: neither ASSERT fails.                                  *)
AssertsHold == Alive

(* A session whose retries are exhausted, or that is cancelled otherwise,   *)
(* gets its bundles back to the bundle daemon: build_CS_segment ends with   *)
(* PostTransmitProcessing, which must get the bundle list.                  *)
CancelReachesBundles == session # "DS" ~> list = {}
=============================================================================
