------------------------------ MODULE PollerIndex ------------------------------
(* The index a channel keeps for EPollPoller (src/EPollPoller.cc): whether   *)
(* the poller knows it and whether the epoll set holds its descriptor.       *)

Index == {"kNew", "kAdded", "kDeleted"}

\* Slip: no test of isNoneEvent.
IndexDeletedAlways(index, events) ==
    IF index = "kAdded" THEN "kDeleted" ELSE "kAdded"

\* The index updateChannel leaves behind for a channel whose events_ is `events`:
\* a channel that is not in the epoll set is added whatever its events, one that
\* is in it is deleted when it has none and modified otherwise.
UpdatedIndex(index, events) ==
    IF index = "kAdded" /\ events = {} THEN "kDeleted" ELSE "kAdded"
=============================================================================
