---------------------------- MODULE ParallelMap ----------------------------
(***************************************************************************)
(* The bounded parallel map of parallel.rs, with which the command line    *)
(* collects the status of all checkouts.                                   *)
(*                                                                         *)
(* Threads take items from a shared queue and send each result with the    *)
(* index of its item; the caller puts it into that slot and waits until    *)
(* every sender is gone.  A closure that panics ends its thread: its item  *)
(* is never sent, and items may stay in the queue when no thread is left.  *)
(*                                                                         *)
(* A result is its item here.  Left out: cancel, try_recv and is_finished, *)
(* which only tests call.                                                  *)
(***************************************************************************)
EXTENDS Naturals

CONSTANTS Total,     \* items of the batch
          Threads    \* worker threads, at most `cap`

ASSUME ParallelMapAssumption == Total \in Nat /\ (Threads = {} => Total = 0)

VARIABLES head,      \* the next item of the queue
          doing,     \* per thread: the item it works on, Idle or Exited
          channel,   \* <<index, result>> sent and not received
          results,   \* the caller's slots; 0 is None
          lost,      \* items whose closure panicked
          outcome    \* what map_with_concurrency did

parVars == <<head, doing, channel, results, lost, outcome>>

Items  == 1..Total
Idle   == 0
Exited == Total + 1

ParInit ==
    /\ head = 1
    /\ doing = [t \in Threads |-> Idle]
    /\ channel = {} /\ lost = {}
    /\ results = [i \in Items |-> 0]
    /\ outcome = "waiting"

\* Mutant: the item stays in the queue for another thread.
TakeItem_Peek(t) ==
    /\ doing[t] = Idle /\ head \in Items
    /\ doing' = [doing EXCEPT ![t] = head]
    /\ head' \in {head, head + 1}
    /\ UNCHANGED <<channel, results, lost, outcome>>

\* One dequeue under the lock.
TakeItem(t) ==
    /\ doing[t] = Idle /\ head \in Items
    /\ doing' = [doing EXCEPT ![t] = head]
    /\ head' = head + 1
    /\ UNCHANGED <<channel, results, lost, outcome>>

\* Mutant: a thread that finds the queue empty waits for more.
ExitThread_Wait(t) ==
    /\ doing[t] = Idle /\ head \notin Items /\ lost # {}
    /\ doing' = [doing EXCEPT ![t] = Exited]
    /\ UNCHANGED <<head, channel, results, lost, outcome>>

\* The queue is empty: the thread ends and drops its sender.
ExitThread(t) ==
    /\ doing[t] = Idle /\ head \notin Items
    /\ doing' = [doing EXCEPT ![t] = Exited]
    /\ UNCHANGED <<head, channel, results, lost, outcome>>

SendResult(t) ==
    /\ doing[t] \in Items
    /\ channel' = channel \union {<<doing[t], doing[t]>>}
    /\ doing' = [doing EXCEPT ![t] = Idle]
    /\ UNCHANGED <<head, results, lost, outcome>>

PanicThread(t) ==
    /\ doing[t] \in Items
    /\ lost' = lost \union {doing[t]}
    /\ doing' = [doing EXCEPT ![t] = Exited]
    /\ UNCHANGED <<head, channel, results, outcome>>

\* The caller receives results in any order.
Receive ==
    /\ \E m \in channel :
          /\ channel' = channel \ {m}
          /\ results' = [results EXCEPT ![m[1]] = m[2]]
    /\ UNCHANGED <<head, doing, lost, outcome>>

\* Mutant: an empty channel counts as the end.
FinishMap_Early ==
    /\ outcome = "waiting" /\ channel = {} /\ \A t \in Threads : doing[t] \in {Idle, Exited}
    /\ outcome' = IF \A i \in Items : results[i] # 0 THEN "returned" ELSE "panicked"
    /\ UNCHANGED <<head, doing, channel, results, lost>>

\* Every sender is gone and nothing is left to receive; a slot without a
\* result makes the map panic.
FinishMap ==
    /\ outcome = "waiting" /\ channel = {} /\ \A t \in Threads : doing[t] = Exited
    /\ outcome' = IF \A i \in Items : results[i] # 0 THEN "returned" ELSE "panicked"
    /\ UNCHANGED <<head, doing, channel, results, lost>>

ThreadStep(t) == TakeItem(t) \/ ExitThread(t) \/ SendResult(t) \/ PanicThread(t)

ParNext == (\E t \in Threads : ThreadStep(t)) \/ Receive \/ FinishMap

ParSafe == ParInit /\ [][ParNext]_parVars

\* The scheduler of the operating system, and git under a deadline.
ParFairness ==
    /\ \A t \in Threads : WF_parVars(ThreadStep(t))
    /\ WF_parVars(Receive) /\ WF_parVars(FinishMap)

ParSpec == ParSafe /\ ParFairness

-----------------------------------------------------------------------------
(* Properties *)

ParTypeOK ==
    /\ head \in 1..(Total + 1)
    /\ doing \in [Threads -> 0..(Total + 1)]
    /\ channel \subseteq Items \X Items
    /\ results \in [Items -> 0..Total]
    /\ lost \subseteq Items
    /\ outcome \in {"waiting", "returned", "panicked"}

\* An item has one place: the queue, one thread, the channel, its slot, or
\* lost with its thread; so the closure runs once for it.
OnePlace ==
    /\ \A t \in Threads : doing[t] \in Items =>
           /\ doing[t] < head /\ doing[t] \notin lost /\ results[doing[t]] = 0
           /\ <<doing[t], doing[t]>> \notin channel
           /\ \A u \in Threads : doing[u] = doing[t] => u = t
    /\ \A m \in channel : m[1] = m[2] /\ m[1] < head /\ results[m[1]] = 0 /\ m[1] \notin lost
    /\ \A i \in Items : results[i] # 0 => results[i] = i /\ i < head /\ i \notin lost
    /\ \A i \in lost : i < head

\* Nothing that left the queue is forgotten, and a thread ends only at the
\* end of the queue or by a panic.
NothingForgotten ==
    /\ \A i \in Items : i < head =>
           \/ \E t \in Threads : doing[t] = i
           \/ <<i, i>> \in channel \/ results[i] # 0 \/ i \in lost
    /\ lost = {} => \A t \in Threads : doing[t] = Exited => head = Total + 1
    /\ outcome # "waiting" => channel = {} /\ \A t \in Threads : doing[t] = Exited

\* However threads interleave and whichever closures panic: a map that
\* returns has every result in the slot of its item, it returns unless a
\* closure panicked, and the closure runs once per item.
MapKeepsOrder ==
    /\ outcome = "returned" => \A i \in Items : results[i] = i
    /\ outcome = "panicked" => lost # {}
    /\ \A t, u \in Threads : doing[t] = doing[u] /\ doing[t] \in Items => t = u

\* The inductive invariant.
ParIInv ==
    /\ ParTypeOK /\ OnePlace /\ NothingForgotten
    /\ outcome = "returned" => \A i \in Items : results[i] # 0
    /\ outcome = "panicked" => lost # {}

\* The caller of a map that started never waits for good, not even when all
\* threads panic.
MapEnds == head > 1 ~> outcome # "waiting"
=============================================================================
