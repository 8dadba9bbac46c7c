--------------------------- MODULE ReconcileQueue ---------------------------
(***************************************************************************)
(* The reconcile event broker on Redis Streams (class RedisStreamQueue).   *)
(*                                                                         *)
(*   schedule   the sorted set reconcile:scheduled.  Its member is the     *)
(*              bare key, so scheduling a key twice collapses.  Deadlines  *)
(*              are abstracted: a member may be due at any time.           *)
(*   entries    the stream together with the group's pending list: the     *)
(*              entry of message m names a key and how often it was        *)
(*              delivered (0: not yet read by any consumer).               *)
(*   dlq        the keys parked in reconcile:dlq; nothing removes them.    *)
(*                                                                         *)
(* Messages is a pool of entry ids and bounds how many entries exist at    *)
(* once; a publish waits for a free id.  The delivery count saturates at   *)
(* MaxDeliveries, because the code only compares it with that bound.       *)
(***************************************************************************)
EXTENDS Naturals, Intents

CONSTANTS
    Messages,      \* stream entry ids (bound: entries alive at once)
    MaxDeliveries  \* RECONCILE_MAX_DELIVERIES

ASSUME DeliveriesAssumption == MaxDeliveries \in Nat \ {0}

VARIABLES schedule, entries, dlq

queueVars == <<schedule, entries, dlq>>

Entry == [key : Keys, count : 0..MaxDeliveries]

\* Neither an entry nor its id is ever mistaken for its absence.
ASSUME EntryAssumption == None \notin Messages \cup Entry

QueueTypeOK ==
    /\ schedule \in SUBSET Keys
    /\ entries \in [Messages -> Entry \cup {None}]
    /\ dlq \in SUBSET Keys

QueueInit ==
    /\ schedule = {}
    /\ entries = [m \in Messages |-> None]
    /\ dlq = {}

\* Some entry of the stream or of the pending list names k.
InStream(k) == \E m \in Messages : entries[m] # None /\ entries[m].key = k

-----------------------------------------------------------------------------
\* XADD under the free id m.
AddEntry(m, k) ==
    /\ entries[m] = None
    /\ entries' = [entries EXCEPT ![m] = [key |-> k, count |-> 0]]
    /\ UNCHANGED <<schedule, dlq>>

\* publish: any fresh id will do; ids in busy are still held by a consumer.
Publish(k, busy) == \E m \in Messages \ busy : AddEntry(m, k)

\* schedule: ZADD, which collapses onto an existing member.
Schedule(k) ==
    /\ schedule' = schedule \cup {k}
    /\ UNCHANGED <<entries, dlq>>

\* unschedule, and the ZREM that gates the drain: remove the member if any.
Unschedule(k) ==
    /\ schedule' = schedule \ {k}
    /\ UNCHANGED <<entries, dlq>>

\* XREADGROUP: first delivery; the entry moves to the pending list.
Read(m) ==
    /\ entries[m] # None
    /\ entries[m].count = 0
    /\ entries' = [entries EXCEPT ![m].count = 1]
    /\ UNCHANGED <<schedule, dlq>>

\* XAUTOCLAIM: a delivered entry that idled long enough is handed out again,
\* whether its consumer crashed or is merely slow.
Redeliver(m) ==
    /\ entries[m] # None
    /\ entries[m].count > 0
    /\ entries' = [entries EXCEPT ![m].count = IF @ < MaxDeliveries THEN @ + 1 ELSE @]
    /\ UNCHANGED <<schedule, dlq>>

\* ack: XACK and XDEL; harmless when a peer already acknowledged.
Ack(m) ==
    /\ entries' = [entries EXCEPT ![m] = None]
    /\ UNCHANGED <<schedule, dlq>>

\* deadLetter's XADD to the dead letter stream; the ack follows.
ParkInDlq(k) ==
    /\ dlq' = dlq \cup {k}
    /\ UNCHANGED <<schedule, entries>>

=============================================================================
