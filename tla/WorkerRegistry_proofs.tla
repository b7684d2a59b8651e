------------------------- MODULE WorkerRegistry_proofs -------------------------
(***************************************************************************)
(* Proofs about the heartbeats of a worker and what the scheduler makes of *)
(* them, for any TTL, idle time, clock skew and number of instances.       *)
(***************************************************************************)
EXTENDS WorkerRegistry, TLAPS

Keys == {"loop", "stop"}
Ages == -Skew..MaxAge
Beats == [draining : BOOLEAN, age : Ages]
Profiles == [status : {"healthy", "draining"}, age : Ages]

(* Types, in full; what an instance was delivered is still in the stream.  *)
Typed ==
    /\ mode \in {"down", "starting", "up", "stopping"}
    /\ open \in BOOLEAN /\ openAge \in 0..(MaxAge + Skew)
    /\ flying \in [Keys -> Beats \cup {None}]
    /\ beat \in [Ids -> Beats] /\ log \subseteq Ids
    /\ pel \in [Ids -> Consumers \cup {None}] /\ idle \in [Ids -> 0..Idle]
    /\ at \in [Consumers -> {"loop", "apply", "finish"}]
    /\ hand \in [Consumers -> SUBSET Ids]
    /\ \A c \in Consumers : (hand[c] = {}) <=> at[c] = "loop"
    /\ entry \in Profiles \cup {None} /\ entryTTL \in 1..RegistryTTL \cup {None}
    /\ overtaken \in BOOLEAN
    /\ \A i \in Ids : pel[i] # None => i \in log

(* A heartbeat that says the worker is schedulable is no older than the    *)
(* time since it was, but for the skew of the clocks; so is what the       *)
(* registry made of it.                                                    *)
Recent(age) == openAge <= age + Skew
Truthful ==
    /\ open => openAge = 0
    /\ \A k \in Keys : flying[k] # None /\ ~flying[k].draining => Recent(flying[k].age)
    /\ \A i \in Ids : ~beat[i].draining => Recent(beat[i].age)
    /\ entry # None /\ entry.status = "healthy" => Recent(entry.age)

IInv == Typed /\ Truthful /\ EntryWillExpire

LEMMA Numbers ==
  /\ TTL \in Nat /\ Skew \in Nat /\ MaxAge \in Nat /\ MaxAge = TTL + 1 /\ Idle \in Nat
  /\ RegistryTTL \in Nat \ {0}
  /\ -Skew \in Int /\ -Skew \in Ages /\ MaxAge \in Ages
BY ConstantsAssumption DEF MaxAge, Ages

LEMMA InitInv == Init => IInv
<1> SUFFICES ASSUME Init PROVE IInv
  OBVIOUS
<1>1. NoBeat \in Beats /\ NoBeat.draining
  BY Numbers DEF NoBeat, Beats
<1>2. Typed
  <2>1. openAge \in 0..(MaxAge + Skew) /\ 0 \in 0..Idle
    BY Numbers DEF Init
  <2>2. open \in BOOLEAN /\ overtaken \in BOOLEAN
    BY Zenon DEF Init
  <2>3. flying \in [Keys -> Beats \cup {None}] /\ beat \in [Ids -> Beats]
    BY <1>1 DEF Init, Keys
  <2> QED BY <2>1, <2>2, <2>3 DEF Init, Typed
<1>3. Truthful
  BY <1>1 DEF Init, Truthful, Keys
<1> QED BY <1>2, <1>3 DEF Init, IInv, EntryWillExpire

---------------------------------------------------------------------------
(* The worker.                                                             *)

LEMMA PublishTyped ==
  ASSUME Typed, NEW k \in Keys, NEW d \in BOOLEAN, Publish(k, d)
  PROVE  /\ flying' \in [Keys -> Beats \cup {None}]
         /\ flying'[k].draining = d /\ flying'[k].age = -Skew
         /\ \A l \in Keys \ {k} : flying'[l] = flying[l]
BY Numbers DEF Typed, Publish, Beats

LEMMA WorkerInv ==
  ASSUME IInv, Start \/ StartReturns \/ LoopBeat \/ Stop \/ End
  PROVE  IInv'
<1> USE DEF Keys
<1>n. openAge \in Nat /\ openAge <= MaxAge + Skew
  BY Numbers DEF IInv, Typed
<1>1. UNCHANGED <<streamVars, registryVars>>
  BY DEF Start, StartReturns, LoopBeat, Stop, End
<1>2. EntryWillExpire'
  BY <1>1 DEF IInv, EntryWillExpire, streamVars, registryVars
<1>3. flying' \in [Keys -> Beats \cup {None}]
  BY PublishTyped DEF IInv, Typed, Start, StartReturns, LoopBeat, Stop, End
<1>4. /\ mode' \in {"down", "starting", "up", "stopping"} /\ open' \in BOOLEAN
      /\ openAge' \in {0, openAge} /\ (open' => openAge' = 0)
  <2>1. open \in BOOLEAN /\ (open => openAge = 0)
    BY DEF IInv, Typed, Truthful
  <2>2. CASE Start
    BY <2>2 DEF Start
  <2>3. CASE Stop \/ End
    BY <2>3 DEF Stop, End
  <2>4. CASE StartReturns \/ LoopBeat
    BY <2>1, <2>4 DEF StartReturns, LoopBeat, IInv, Typed
  <2> QED BY <2>2, <2>3, <2>4
<1>5. Typed'
  <2>1. openAge' \in 0..(MaxAge + Skew)
    BY <1>4, <1>n, Numbers
  <2>2. MaxAge' = MaxAge /\ Ages' = Ages
    BY DEF MaxAge, Ages
  <2> QED BY <1>1, <1>3, <1>4, <2>1 DEF IInv, Typed, streamVars, registryVars
<1>6. \A age \in Ages : Recent(age) => openAge' <= age + Skew
  BY <1>4, <1>n, Numbers DEF Recent, Ages
<1>7. \A k \in Keys : flying'[k] # None /\ ~flying'[k].draining
                      => openAge' <= flying'[k].age + Skew
  <2>1. ASSUME NEW k \in Keys, flying'[k] # None, ~flying'[k].draining, flying'[k] = flying[k]
        PROVE  openAge' <= flying'[k].age + Skew
    BY <2>1, <1>6 DEF IInv, Typed, Truthful, Beats
  <2>2. CASE Start
    <3>1. flying'["loop"].age = -Skew /\ flying'["stop"] = flying["stop"] /\ openAge' = 0
      BY <2>2, PublishTyped DEF Start, IInv
    <3> QED BY <2>1, <3>1, Numbers
  <2>3. CASE LoopBeat
    <3>1. flying'["loop"].age = -Skew /\ flying'["stop"] = flying["stop"]
          /\ flying'["loop"].draining = ~open
      BY <2>3, PublishTyped DEF LoopBeat, IInv, Typed
    <3>2. open => openAge' = 0
      BY <2>3 DEF LoopBeat, IInv, Truthful
    <3>3. ~flying'["loop"].draining => open
      BY <3>1, Zenon
    <3> QED BY <2>1, <3>1, <3>2, <3>3, Numbers
  <2>4. CASE Stop
    <3>1. flying'["stop"].draining = TRUE /\ flying'["loop"] = flying["loop"]
      BY <2>4, PublishTyped DEF Stop, IInv
    <3> QED BY <2>1, <3>1
  <2>5. CASE StartReturns \/ End
    BY <2>1, <2>5 DEF StartReturns, End
  <2> QED BY <2>2, <2>3, <2>4, <2>5
<1>8. \A i \in Ids : ~beat'[i].draining => openAge' <= beat'[i].age + Skew
  <2>1. beat' = beat
    BY <1>1 DEF streamVars
  <2> QED BY <2>1, <1>6 DEF IInv, Typed, Truthful, Beats
<1>9. entry' # None /\ entry'.status = "healthy" => openAge' <= entry'.age + Skew
  <2>1. entry' = entry
    BY <1>1 DEF registryVars
  <2> QED BY <2>1, <1>6 DEF IInv, Typed, Truthful, Profiles
<1>10. Truthful'
  BY <1>4, <1>7, <1>8, <1>9 DEF Truthful, Recent
<1> QED BY <1>2, <1>5, <1>10 DEF IInv

\* A heartbeat reaches the stream as it was built, or not at all.
LEMMA FlightInv ==
  ASSUME IInv, NEW k \in Keys, Lands(k) \/ Lost(k)
  PROVE  IInv'
<1>1. /\ flying[k] # None /\ flying' = [flying EXCEPT ![k] = None]
      /\ UNCHANGED <<mode, open, openAge, pel, idle, registryVars>>
  BY DEF Lands, Lost, streamVars
<1>2. flying' \in [Keys -> Beats \cup {None}]
      /\ \A l \in Keys : flying'[l] # None => flying'[l] = flying[l]
  BY <1>1 DEF IInv, Typed
<1>3. \/ log' = log /\ beat' = beat
      \/ \E i \in Ids : log' = log \cup {i} /\ beat' = [beat EXCEPT ![i] = flying[k]]
  BY DEF Lands, Lost, streamVars
<1>4. flying[k] \in Beats /\ beat \in [Ids -> Beats]
  BY <1>1 DEF IInv, Typed
<1>5. /\ log \subseteq log' /\ log' \subseteq Ids /\ beat' \in [Ids -> Beats]
      /\ \A i \in Ids : beat'[i] \in {beat[i], flying[k]}
  BY <1>3, <1>4 DEF IInv, Typed
<1>6. Typed'
  BY <1>1, <1>2, <1>5 DEF IInv, Typed, registryVars
<1>7. Truthful'
  <2>1. ~flying[k].draining => Recent(flying[k].age)
    BY <1>1 DEF IInv, Truthful
  <2> QED BY <1>1, <1>2, <1>5, <2>1 DEF IInv, Truthful, Recent, registryVars
<1>8. EntryWillExpire'
  BY <1>1, <1>5 DEF IInv, EntryWillExpire, registryVars
<1> QED BY <1>6, <1>7, <1>8 DEF IInv

---------------------------------------------------------------------------
(* The instances.                                                          *)

\* Nothing that was said of the worker changes.
LEMMA TruthKept ==
  ASSUME Truthful, UNCHANGED <<open, openAge, flying, beat>>,
         entry' = entry \/ \E i \in Ids : entry' = Profile(beat[i])
  PROVE  Truthful'
<1>1. entry' # None /\ entry'.status = "healthy" => openAge <= entry'.age + Skew
  BY DEF Truthful, Recent, Profile
<1> QED BY <1>1 DEF Truthful, Recent

LEMMA DeliverInv ==
  ASSUME IInv, NEW c \in Consumers, Autoclaim(c) \/ ReadNew(c)
  PROVE  IInv'
<1>1. PICK batch : batch \subseteq log /\ Deliver(c, batch)
  BY DEF Autoclaim, ReadNew
<1>2. UNCHANGED <<mode, open, openAge, flying, beat, log, entry, entryTTL, overtaken>>
  BY <1>1 DEF Deliver, workerVars
<1>3. /\ at' \in [Consumers -> {"loop", "apply", "finish"}]
      /\ hand' \in [Consumers -> SUBSET Ids]
      /\ \A d \in Consumers : (hand'[d] = {}) <=> at'[d] = "loop"
  BY <1>1 DEF Deliver, IInv, Typed
<1>4. /\ pel' \in [Ids -> Consumers \cup {None}]
      /\ \A i \in Ids : pel'[i] # None => i \in log
  BY <1>1 DEF Deliver, IInv, Typed
<1>5. idle' \in [Ids -> 0..Idle]
  BY <1>1, Numbers DEF Deliver, IInv, Typed
<1>6. Typed'
  BY <1>2, <1>3, <1>4, <1>5 DEF IInv, Typed
<1>7. Truthful'
  BY <1>2, TruthKept DEF IInv
<1>8. EntryWillExpire'
  BY <1>2 DEF IInv, EntryWillExpire
<1> QED BY <1>6, <1>7, <1>8 DEF IInv

\* The heartbeat an instance applies is in the stream, if it still owns it.
LEMMA ApplyInv ==
  ASSUME IInv, NEW c \in Consumers, Apply(c)
  PROVE  IInv'
<1>1. PICK i \in Ids : /\ entry' = Profile(beat[i]) /\ i \in hand[c]
                       /\ overtaken' = (overtaken \/ pel[i] # c)
  BY DEF Apply, Current
<1>2. UNCHANGED <<mode, open, openAge, flying, beat, log, pel, idle, hand, entryTTL>>
      /\ at[c] = "apply" /\ at' = [at EXCEPT ![c] = "finish"]
  BY DEF Apply, workerVars, streamVars
<1>3. beat[i] \in Beats
  BY DEF IInv, Typed
<1>4. entry' \in Profiles
  BY <1>1, <1>3 DEF Profile, Profiles, Beats
<1>5. overtaken' \in BOOLEAN
  BY <1>1
<1>6. /\ at' \in [Consumers -> {"loop", "apply", "finish"}]
      /\ \A d \in Consumers : (hand[d] = {}) <=> at'[d] = "loop"
  BY <1>2 DEF IInv, Typed
<1>7. Typed'
  BY <1>2, <1>4, <1>5, <1>6 DEF IInv, Typed
<1>8. Truthful'
  BY <1>1, <1>2, TruthKept DEF IInv
<1>9. EntryWillExpire'
  <2> SUFFICES ASSUME ~overtaken' PROVE log # {}
    BY <1>2 DEF EntryWillExpire
  <2>1. pel[i] = c
    BY <1>1
  <2> QED BY <2>1, ConstantsAssumption DEF IInv, Typed
<1> QED BY <1>7, <1>8, <1>9 DEF IInv

LEMMA FinishInv ==
  ASSUME IInv, NEW c \in Consumers, Finish(c)
  PROVE  IInv'
<1>1. PICK i \in Ids : /\ i \in hand[c] /\ at' = [at EXCEPT ![c] = AfterAck(c, i)]
                       /\ hand' = [hand EXCEPT ![c] = @ \ {i}] /\ log' = log \ {i}
                       /\ pel' = [pel EXCEPT ![i] = None] /\ idle' = [idle EXCEPT ![i] = 0]
  BY DEF Finish, Current
<1>2. UNCHANGED <<mode, open, openAge, flying, beat, entry, overtaken>>
      /\ entryTTL' = IF entry = None THEN None ELSE RegistryTTL
  BY DEF Finish, workerVars
<1>3. /\ at' \in [Consumers -> {"loop", "apply", "finish"}]
      /\ hand' \in [Consumers -> SUBSET Ids]
      /\ \A d \in Consumers : (hand'[d] = {}) <=> at'[d] = "loop"
  BY <1>1 DEF AfterAck, IInv, Typed
<1>4. /\ pel' \in [Ids -> Consumers \cup {None}] /\ log' \subseteq Ids
      /\ \A j \in Ids : pel'[j] # None => j \in log'
  BY <1>1 DEF IInv, Typed
<1>5. idle' \in [Ids -> 0..Idle] /\ entryTTL' \in 1..RegistryTTL \cup {None}
  BY <1>1, <1>2, Numbers DEF IInv, Typed
<1>6. Typed'
  BY <1>2, <1>3, <1>4, <1>5 DEF IInv, Typed
<1>7. Truthful'
  BY <1>2, TruthKept DEF IInv
<1>8. EntryWillExpire'
  BY <1>2, ConstantsAssumption DEF EntryWillExpire
<1> QED BY <1>6, <1>7, <1>8 DEF IInv

\* A batch that is given up stays in the stream.
LEMMA BatchLostInv ==
  ASSUME IInv, NEW c \in Consumers, BatchLost(c)
  PROVE  IInv'
<1>1. /\ hand' = [hand EXCEPT ![c] = {}] /\ at' = [at EXCEPT ![c] = "loop"]
      /\ UNCHANGED <<mode, open, openAge, flying, beat, log, pel, idle, entry, entryTTL, overtaken>>
  BY DEF BatchLost, workerVars, streamVars
<1>2. /\ at' \in [Consumers -> {"loop", "apply", "finish"}]
      /\ hand' \in [Consumers -> SUBSET Ids]
      /\ \A d \in Consumers : (hand'[d] = {}) <=> at'[d] = "loop"
  BY <1>1 DEF IInv, Typed
<1>3. Typed'
  BY <1>1, <1>2 DEF IInv, Typed
<1>4. Truthful'
  BY <1>1, TruthKept DEF IInv
<1>5. EntryWillExpire'
  BY <1>1 DEF IInv, EntryWillExpire
<1> QED BY <1>3, <1>4, <1>5 DEF IInv

---------------------------------------------------------------------------
(* Time.                                                                   *)

LEMMA OlderTyped == \A a \in Ages : Older(a) \in Ages
BY Numbers DEF Older, Ages

LEMMA OlderBeatTyped ==
  /\ \A b \in Beats : b # None => OlderBeat(b) \in Beats /\ OlderBeat(b).draining = b.draining
                                  /\ OlderBeat(b).age = Older(b.age)
  /\ \A b \in Profiles : b # None => OlderBeat(b) \in Profiles /\ OlderBeat(b).status = b.status
                                     /\ OlderBeat(b).age = Older(b.age)
  /\ OlderBeat(None) = None
<1>1. \A b \in Beats : b # None => OlderBeat(b) \in Beats /\ OlderBeat(b).draining = b.draining
                                   /\ OlderBeat(b).age = Older(b.age)
  BY OlderTyped DEF OlderBeat, Beats
<1>2. \A b \in Profiles : b # None => OlderBeat(b) \in Profiles /\ OlderBeat(b).status = b.status
                                      /\ OlderBeat(b).age = Older(b.age)
  BY OlderTyped DEF OlderBeat, Profiles
<1> QED BY <1>1, <1>2 DEF OlderBeat

\* A heartbeat ages as fast as the time since the worker was schedulable.
LEMMA RecentOlder ==
  ASSUME Typed, Tick, NEW a \in Ages, Recent(a)
  PROVE  openAge' <= Older(a) + Skew
<1>1. openAge \in Nat /\ openAge <= MaxAge + Skew /\ openAge' \in Nat
      /\ openAge' <= openAge + 1 /\ openAge' <= MaxAge + Skew
  BY Numbers DEF Typed, Tick
<1>2. a \in Int /\ a <= MaxAge
  BY Numbers DEF Ages
<1> QED BY <1>1, <1>2, Numbers DEF Older, Recent

LEMMA TickInv ==
  ASSUME IInv, Tick
  PROVE  IInv'
<1>1. UNCHANGED <<mode, open, log, pel, at, hand, overtaken>>
  BY DEF Tick
<1>2. /\ flying' = [k \in Keys |-> OlderBeat(flying[k])]
      /\ beat' = [i \in Ids |-> IF i \in InUse THEN OlderBeat(beat[i]) ELSE NoBeat]
  BY DEF Tick, IInv, Typed
<1>3. NoBeat \in Beats /\ NoBeat.draining
  BY Numbers DEF NoBeat, Beats
<1>4. \A i \in Ids : beat[i] \in Beats /\ beat[i] # None
  <2>1. None \notin Beats
    BY ConstantsAssumption, Numbers DEF Beats, Ages
  <2> QED BY <2>1 DEF IInv, Typed
<1>5. \A k \in Keys : flying[k] \in Beats \cup {None}
  BY DEF IInv, Typed
<1>6. Typed'
  <2>1. flying' \in [Keys -> Beats \cup {None}]
    BY <1>2, <1>5, OlderBeatTyped
  <2>2. beat' \in [Ids -> Beats]
    BY <1>2, <1>3, <1>4, OlderBeatTyped
  <2>3. idle' \in [Ids -> 0..Idle]
    BY Numbers DEF Tick, IInv, Typed
  <2>4. entry' \in Profiles \cup {None}
    BY OlderBeatTyped DEF Tick, IInv, Typed
  <2>5. entryTTL' \in 1..RegistryTTL \cup {None}
    BY Numbers DEF Tick, IInv, Typed
  <2>6. openAge' \in 0..(MaxAge + Skew)
    BY Numbers DEF Tick, IInv, Typed
  <2> QED BY <1>1, <2>1, <2>2, <2>3, <2>4, <2>5, <2>6 DEF IInv, Typed
<1>7. Truthful'
  <2>1. open' => openAge' = 0
    BY <1>1 DEF Tick
  <2>2. \A k \in Keys : flying'[k] # None /\ ~flying'[k].draining
                        => openAge' <= flying'[k].age + Skew
    <3> SUFFICES ASSUME NEW k \in Keys, flying'[k] # None, ~flying'[k].draining
                 PROVE  openAge' <= flying'[k].age + Skew
      OBVIOUS
    <3>1. flying'[k] = OlderBeat(flying[k]) /\ flying[k] # None /\ flying[k] \in Beats
      BY <1>2, <1>5, OlderBeatTyped
    <3>2. ~flying[k].draining /\ flying'[k].age = Older(flying[k].age)
          /\ flying[k].age \in Ages
      BY <3>1, OlderBeatTyped DEF Beats
    <3>3. Recent(flying[k].age)
      BY <3>1, <3>2 DEF IInv, Truthful
    <3> QED BY <3>2, <3>3, RecentOlder DEF IInv
  <2>3. \A i \in Ids : ~beat'[i].draining => openAge' <= beat'[i].age + Skew
    <3> SUFFICES ASSUME NEW i \in Ids, ~beat'[i].draining
                 PROVE  openAge' <= beat'[i].age + Skew
      OBVIOUS
    <3>1. beat'[i] = OlderBeat(beat[i])
      BY <1>2, <1>3
    <3>2. ~beat[i].draining /\ beat'[i].age = Older(beat[i].age) /\ beat[i].age \in Ages
      BY <3>1, <1>4, OlderBeatTyped DEF Beats
    <3>3. Recent(beat[i].age)
      BY <3>2 DEF IInv, Truthful
    <3> QED BY <3>2, <3>3, RecentOlder DEF IInv
  <2>4. entry' # None /\ entry'.status = "healthy" => openAge' <= entry'.age + Skew
    <3> SUFFICES ASSUME entry' # None, entry'.status = "healthy"
                 PROVE  openAge' <= entry'.age + Skew
      OBVIOUS
    <3>1. entry' = OlderBeat(entry) /\ entry # None /\ entry \in Profiles
      BY OlderBeatTyped DEF Tick, IInv, Typed
    <3>2. entry.status = "healthy" /\ entry'.age = Older(entry.age) /\ entry.age \in Ages
      BY <3>1, OlderBeatTyped DEF Profiles
    <3>3. Recent(entry.age)
      BY <3>1, <3>2 DEF IInv, Truthful
    <3> QED BY <3>2, <3>3, RecentOlder DEF IInv
  <2> QED BY <2>1, <2>2, <2>3, <2>4 DEF Truthful, Recent
<1>8. EntryWillExpire'
  <2> SUFFICES ASSUME entry' # None, entryTTL' = None, ~overtaken'
               PROVE  log # {}
    BY <1>1 DEF EntryWillExpire
  <2>1. entryTTL # 1 /\ entry # None
    BY OlderBeatTyped DEF Tick
  <2>2. entryTTL = None
    BY <2>1, Numbers, ConstantsAssumption DEF Tick, IInv, Typed
  <2> QED BY <1>1, <2>1, <2>2 DEF IInv, EntryWillExpire
<1> QED BY <1>6, <1>7, <1>8 DEF IInv

THEOREM RegistryInductive == Spec => []IInv
<1>1. IInv /\ [Next]_vars => IInv'
  <2> SUFFICES ASSUME IInv, [Next]_vars PROVE IInv'
    OBVIOUS
  <2>1. ASSUME NEW c \in Consumers, ConsumerNext(c) PROVE IInv'
    BY <2>1, DeliverInv, ApplyInv, FinishInv, BatchLostInv DEF ConsumerNext
  <2>2. ASSUME NEW k \in Keys, Lands(k) \/ Lost(k) PROVE IInv'
    BY <2>2, FlightInv
  <2>3. CASE UNCHANGED vars
    BY <2>3 DEF vars, workerVars, streamVars, registryVars, IInv, Typed, Truthful, Recent,
       EntryWillExpire
  <2> QED BY <2>1, <2>2, <2>3, WorkerInv, TickInv DEF Next, Keys
<1> QED BY InitInv, <1>1, PTL DEF Spec

(* Types; an instance holds a batch exactly while it is applying one.      *)
THEOREM RegistryTypes == Spec => []TypeOK
<1>1. IInv => TypeOK
  <2> SUFFICES ASSUME Typed PROVE TypeOK
    BY DEF IInv
  <2>1. \A k \in {"loop", "stop"} : flying[k] # None => flying[k].age \in -Skew..MaxAge
    BY DEF Typed, Keys, Beats, Ages
  <2>2. \A i \in Ids : beat[i].age \in -Skew..MaxAge /\ idle[i] \in 0..Idle
    BY DEF Typed, Beats, Ages
  <2>3. entryTTL \in 0..RegistryTTL \cup {None}
    BY Numbers DEF Typed
  <2> QED BY <2>1, <2>2, <2>3 DEF Typed, TypeOK
<1> QED BY RegistryInductive, <1>1, PTL

(* The snapshot of the scheduler never offers a worker that has been       *)
(* unschedulable for longer than worker_heartbeat_ttl and the clock skew,  *)
(* however old the heartbeats are that the instances of hfa-cp-registry    *)
(* claim back, apply twice and write over newer ones.                      *)
THEOREM OffersAreRecent == Spec => []OfferedServedRecently
<1>1. IInv => OfferedServedRecently
  <2> SUFFICES ASSUME IInv, Offered PROVE openAge <= TTL + Skew
    BY DEF OfferedServedRecently
  <2>1. entry \in Profiles /\ Recent(entry.age) /\ entry.age <= TTL
    BY DEF Offered, IInv, Typed, Truthful
  <2>2. entry.age \in Int /\ openAge \in Int
    BY <2>1, Numbers DEF Profiles, Ages, IInv, Typed
  <2> QED BY <2>1, <2>2, Numbers DEF Recent
<1> QED BY RegistryInductive, <1>1, PTL

(* _on_heartbeat leaves no worker hash without expiry for good: between    *)
(* its HSET and its EXPIRE, and after a failure there, the heartbeat is in *)
(* the stream and will be handled again.                                   *)
THEOREM HashesExpire == Spec => []EntryWillExpire
<1>1. IInv => EntryWillExpire
  BY DEF IInv
<1> QED BY RegistryInductive, <1>1, PTL
=================================================================================
