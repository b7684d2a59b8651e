---------------------------- MODULE WorkerRegistry ----------------------------
(***************************************************************************)
(* What the scheduler knows of one worker: the heartbeats published by     *)
(* WorkerHeartbeatPublisher, the WorkerRegistry consumers of the control   *)
(* plane instances that apply them, and the staleness test with which the  *)
(* snapshot of the scheduler decides that the worker may get tasks.        *)
(*                                                                         *)
(* Time is a Tick.  Instead of dates the state keeps ages, which stop      *)
(* growing where the code no longer tells them apart, so that time needs   *)
(* no bound.  Every Redis call is a step of its own.                       *)
(***************************************************************************)
EXTENDS Integers

CONSTANTS
    Consumers,      \* control plane instances, one group hfa-cp-registry
    TTL,            \* worker_heartbeat_ttl
    Idle,           \* autoclaim_idle_ms
    RegistryTTL,    \* registry_ttl
    Skew,           \* how far the worker's clock is ahead of the scheduler's
    Ids,            \* bound: heartbeats alive at once, in the stream or a hand
    None

ASSUME ConstantsAssumption ==
    /\ TTL \in Nat /\ Idle \in Nat /\ RegistryTTL \in Nat \ {0}
    /\ Skew \in Nat /\ Ids \subseteq Nat
    /\ None \notin Consumers \cup Nat
    /\ None \notin [draining : BOOLEAN, age : Int]

VARIABLES
    mode,           \* WorkerService: down, starting, up, stopping
    open,           \* the consumer is pulling, or is about to after start()
    openAge,        \* ticks since open was last TRUE
    flying,         \* heartbeats built, whose XADD has not been executed
    beat,           \* heartbeat of every id
    log,            \* ids in the stream that are not acknowledged
    before,         \* their order, and that of the ids an instance still holds
    pel,            \* instance that was delivered an id
    idle,           \* ticks since that delivery
    at,             \* where the consume loop of an instance is
    hand,           \* ids of its batch that an instance has not handled
    entry,          \* worker hash: status and age of last_seen, or None
    entryTTL,       \* ticks the hash has left, None if it has no expiry
    overtaken       \* history: a batch claimed by another instance was applied

workerVars == <<mode, open, openAge, flying>>
streamVars == <<beat, log, before, pel, idle>>
registryVars == <<at, hand, entry, entryTTL, overtaken>>
vars == <<workerVars, streamVars, registryVars>>

MaxAge == TTL + 1
Older(a) == IF a < MaxAge THEN a + 1 ELSE a
NoBeat == [draining |-> TRUE, age |-> MaxAge]

Init ==
    /\ mode = "down" /\ open = FALSE /\ openAge = MaxAge + Skew
    /\ flying = [k \in {"loop", "stop"} |-> None]
    /\ beat = [i \in Ids |-> NoBeat] /\ log = {} /\ before = {}
    /\ pel = [i \in Ids |-> None] /\ idle = [i \in Ids |-> 0]
    /\ at = [c \in Consumers |-> "loop"] /\ hand = [c \in Consumers |-> {}]
    /\ entry = None /\ entryTTL = None /\ overtaken = FALSE

---------------------------------------------------------------------------
(* WorkerService and its heartbeat publisher.                              *)

\* _publish reads is_draining and the clock, then awaits XADD.
Publish(k, draining) ==
    flying' = [flying EXCEPT ![k] = [draining |-> draining, age |-> -Skew]]

\* start(): the first heartbeat is published before the consumer pulls.
Start ==
    /\ mode = "down" /\ flying = [k \in {"loop", "stop"} |-> None]
    /\ mode' = "starting" /\ open' = TRUE /\ openAge' = 0
    /\ Publish("loop", FALSE)
    /\ UNCHANGED <<streamVars, registryVars>>

StartReturns ==
    /\ mode = "starting" /\ flying["loop"] = None
    /\ mode' = "up"
    /\ UNCHANGED <<open, openAge, flying, streamVars, registryVars>>

\* The heartbeat task runs until the end of the drain.
LoopBeat ==
    /\ mode \in {"up", "stopping"} /\ flying["loop"] = None
    /\ Publish("loop", ~open)
    /\ UNCHANGED <<mode, open, openAge, streamVars, registryVars>>

\* _stop_locked, and _record_fatal_failure followed by its cleanup.
Stop ==
    /\ mode = "up"
    /\ mode' = "stopping" /\ open' = FALSE
    /\ Publish("stop", TRUE)
    /\ UNCHANGED <<openAge, streamVars, registryVars>>

\* The drain is over, start() raised, or the process died: a heartbeat that
\* was sent may still be executed.
End ==
    /\ mode # "down"
    /\ mode' = "down" /\ open' = FALSE
    /\ UNCHANGED <<openAge, flying, streamVars, registryVars>>

\* XADD; its limit of 10,000 entries is far away.
InUse == log \cup UNION {hand[c] : c \in Consumers}
Lands(k) ==
    /\ flying[k] # None
    /\ \E i \in Ids \ InUse :
         /\ \A j \in Ids \ InUse : i <= j
         /\ beat' = [beat EXCEPT ![i] = flying[k]]
         /\ log' = log \cup {i}
         /\ before' = (before \cap (InUse \X InUse)) \cup (InUse \X {i})
    /\ flying' = [flying EXCEPT ![k] = None]
    /\ UNCHANGED <<mode, open, openAge, pel, idle, registryVars>>

\* The command is lost with the connection.
Lost(k) ==
    /\ flying[k] # None /\ mode \in {"down", "stopping"}
    /\ flying' = [flying EXCEPT ![k] = None]
    /\ UNCHANGED <<mode, open, openAge, streamVars, registryVars>>

---------------------------------------------------------------------------
(* WorkerRegistry._consume_heartbeats of every instance.                   *)

Deliver(c, batch) ==
    /\ at[c] = "loop" /\ at' = [at EXCEPT ![c] = "apply"]
    /\ batch # {} /\ hand' = [hand EXCEPT ![c] = batch]
    /\ pel' = [i \in Ids |-> IF i \in batch THEN c ELSE pel[i]]
    /\ idle' = [i \in Ids |-> IF i \in batch THEN 0 ELSE idle[i]]
    /\ UNCHANGED <<workerVars, beat, log, before, entry, entryTTL, overtaken>>

\* XAUTOCLAIM, at the top of the loop.
Autoclaim(c) == Deliver(c, {i \in log : pel[i] # None /\ idle[i] >= Idle})

\* XREADGROUP ">", after an XAUTOCLAIM that may have found nothing yet.
ReadNew(c) == Deliver(c, {i \in log : pel[i] = None})

\* The message of the batch that comes next.
Current(c, i) == i \in hand[c] /\ \A j \in hand[c] \ {i} : <<i, j>> \in before

\* Mutant: the registry stamps the heartbeat with its own clock.
ProfileOnArrival(b) ==
    [status |-> IF b.draining THEN "draining" ELSE "healthy", age |-> 0]

\* last_seen is the timestamp of the event, the status its draining flag.
Profile(b) ==
    [status |-> IF b.draining THEN "draining" ELSE "healthy", age |-> b.age]

\* _on_heartbeat: HSET, which leaves the expiry of the hash alone.
Apply(c) ==
    /\ at[c] = "apply" /\ at' = [at EXCEPT ![c] = "finish"]
    /\ \E i \in Ids :
         /\ Current(c, i)
         /\ entry' = Profile(beat[i])
         /\ overtaken' = (overtaken \/ pel[i] # c)
    /\ UNCHANGED <<workerVars, streamVars, hand, entryTTL>>

\* Mutant: the batch is never found to be at its end.
AfterAckGoesOn(c, i) == "apply"

AfterAck(c, i) == IF hand[c] = {i} THEN "loop" ELSE "apply"

\* EXPIRE, then XACK and the rest of the batch.
Finish(c) ==
    /\ at[c] = "finish"
    /\ entryTTL' = IF entry = None THEN None ELSE RegistryTTL
    /\ \E i \in Ids :
         /\ Current(c, i)
         /\ at' = [at EXCEPT ![c] = AfterAck(c, i)]
         /\ hand' = [hand EXCEPT ![c] = @ \ {i}]
         /\ log' = log \ {i}
         /\ pel' = [pel EXCEPT ![i] = None] /\ idle' = [idle EXCEPT ![i] = 0]
    /\ UNCHANGED <<workerVars, beat, before, entry, overtaken>>

\* Mutant: a batch that raised is acknowledged.
BatchLostAcked(c) ==
    /\ hand[c] # {}
    /\ log' = log \ hand[c]
    /\ pel' = [i \in Ids |-> IF i \in hand[c] THEN None ELSE pel[i]]
    /\ hand' = [hand EXCEPT ![c] = {}]
    /\ at' = [at EXCEPT ![c] = "loop"]
    /\ UNCHANGED <<workerVars, beat, before, idle, entry, entryTTL, overtaken>>

\* A call raises or the instance restarts: the batch stays in the PEL.
BatchLost(c) ==
    /\ hand[c] # {}
    /\ hand' = [hand EXCEPT ![c] = {}]
    /\ at' = [at EXCEPT ![c] = "loop"]
    /\ UNCHANGED <<workerVars, streamVars, entry, entryTTL, overtaken>>

---------------------------------------------------------------------------
OlderBeat(b) == IF b = None THEN None ELSE [b EXCEPT !.age = Older(@)]

Tick ==
    /\ openAge' = IF open THEN 0 ELSE IF openAge < MaxAge + Skew THEN openAge + 1 ELSE openAge
    /\ flying' = [k \in DOMAIN flying |-> OlderBeat(flying[k])]
    /\ beat' = [i \in Ids |-> IF i \in InUse THEN OlderBeat(beat[i]) ELSE NoBeat]
    /\ idle' = [i \in Ids |-> IF pel[i] # None /\ idle[i] < Idle THEN idle[i] + 1 ELSE idle[i]]
    /\ entry' = IF entryTTL = 1 THEN None ELSE OlderBeat(entry)
    /\ entryTTL' = IF entryTTL \in {None, 1} THEN None ELSE entryTTL - 1
    /\ UNCHANGED <<mode, open, log, before, pel, at, hand, overtaken>>

ConsumerNext(c) ==
    Autoclaim(c) \/ ReadNew(c) \/ Apply(c) \/ Finish(c) \/ BatchLost(c)

Next ==
    \/ Start \/ StartReturns \/ LoopBeat \/ Stop \/ End
    \/ \E k \in {"loop", "stop"} : Lands(k) \/ Lost(k)
    \/ \E c \in Consumers : ConsumerNext(c)
    \/ Tick

Spec == Init /\ [][Next]_vars

---------------------------------------------------------------------------
(* Types; an instance holds a batch exactly while it is applying one.      *)
TypeOK ==
    /\ mode \in {"down", "starting", "up", "stopping"}
    /\ open \in BOOLEAN /\ openAge \in 0..(MaxAge + Skew)
    /\ \A k \in {"loop", "stop"} : flying[k] # None => flying[k].age \in -Skew..MaxAge
    /\ \A i \in Ids : beat[i].age \in -Skew..MaxAge /\ idle[i] \in 0..Idle
    /\ \A c \in Consumers : (hand[c] = {}) <=> at[c] = "loop"
    /\ entryTTL \in 0..RegistryTTL \cup {None}

\* list_all_workers and the snapshot: not draining, and last_seen recent.
Offered == entry # None /\ entry.status = "healthy" /\ entry.age <= TTL

(* The scheduler offers tasks only to a worker that was accepting some at  *)
(* most worker_heartbeat_ttl ago, give or take the clocks, although old    *)
(* heartbeats overtake the unschedulable one, are claimed back from dead   *)
(* instances, are applied twice, and overwrite newer ones.                 *)
OfferedServedRecently == Offered => openAge <= TTL + Skew

(* "HASH TTL=registry_ttl": while a hash has no expiry, a heartbeat that   *)
(* will give it one is in the stream, whatever call failed or instance     *)
(* died between HSET and EXPIRE.  The one exception is an instance that    *)
(* stalled with its batch until another one had taken it.                  *)
EntryWillExpire ==
    (entry # None /\ entryTTL = None /\ ~overtaken)
    => log # {}
==============================================================================
