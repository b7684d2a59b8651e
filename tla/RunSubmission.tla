--------------------------- MODULE RunSubmission ---------------------------
(***************************************************************************)
(* RunSubmissionCoordinator.submit (hfa_control/run_submission.py): the    *)
(* idempotency record of a key (lua/submission_idempotency.lua) gates an   *)
(* admission of a new run id, and keeps what it came to for replays.  The  *)
(* admission and the life of the run after it are RunAdmission's.          *)
(***************************************************************************)
EXTENDS RunAdmission

CONSTANT Keys       \* idempotency keys

ASSUME KeysAssumption == "none" \notin Keys

VARIABLES
    idem,           \* the record of each key
    keyOf,          \* the key each run id was made for, "none" before that
    key,            \* the key of each caller's submission
    lapsed          \* keys whose record expired

svars == <<vars, idem, keyOf, key, lapsed>>

gate  == <<idem, keyOf, key, lapsed>>

NoRecord == [state |-> "none"]

SubmissionInit ==
    /\ Init
    /\ idem = [k \in Keys |-> NoRecord]
    /\ keyOf = [r \in Runs |-> "none"]
    /\ key = [c \in Callers |-> "none"] /\ lapsed = {}

Submit(c, k, p) ==
    /\ pc[c] = "idle" /\ calls < MaxCalls
    /\ calls' = calls + 1 /\ Goto(c, "gate")
    /\ call' = [call EXCEPT ![c] = NewCall("none", p)]
    /\ key' = [key EXCEPT ![c] = k]
    /\ UNCHANGED <<store, answer, worker, faults, idem, keyOf, lapsed>>

\* The request is answered and forgotten.
Answer(c) ==
    /\ Goto(c, "idle") /\ call' = [call EXCEPT ![c] = NoCall]
    /\ key' = [key EXCEPT ![c] = "none"]
    /\ answer' = [answer EXCEPT ![c] = "none"]
    /\ UNCHANGED calls

\* Mutant: a record in progress is taken over.
ReserveKeyTakesOver(k, r, p) ==
    /\ idem[k].state # "FINAL" /\ keyOf[r] = "none"
    /\ idem' = [idem EXCEPT ![k] = [state |-> "IN_PROGRESS", payload |-> p,
                                    run |-> r, result |-> "none"]]
    /\ keyOf' = [keyOf EXCEPT ![r] = k]

ReserveKey(k, r, p) ==
    /\ idem[k] = NoRecord /\ keyOf[r] = "none"
    /\ idem' = [idem EXCEPT ![k] = [state |-> "IN_PROGRESS", payload |-> p,
                                    run |-> r, result |-> "none"]]
    /\ keyOf' = [keyOf EXCEPT ![r] = k]

\* A replay, a submission in progress and another request under the key all
\* answer without an admission.
Gate(c) ==
    LET k == key[c] IN
    /\ pc[c] = "gate"
    /\ \/ \E r \in Runs :
            /\ ReserveKey(k, r, call[c].payload)
            /\ call' = [call EXCEPT ![c].run = r] /\ Goto(c, "rate")
            /\ UNCHANGED <<answer, calls, key>>
       \/ idem[k] # NoRecord /\ Answer(c) /\ UNCHANGED <<idem, keyOf>>
    /\ UNCHANGED <<store, worker, faults, lapsed>>

\* Mutant: the owner of the record is not checked.
FinalizeKeyAnyOwner(c) ==
    LET k == key[c] IN
    idem' = IF idem[k].state = "IN_PROGRESS"
              THEN [idem EXCEPT ![k].state = "FINAL", ![k].result = answer[c]]
              ELSE idem

\* Whatever the submission came to is the result of the key.
FinalizeKey(c) ==
    LET k == key[c] IN
    idem' = IF idem[k].state = "IN_PROGRESS" /\ idem[k].run = call[c].run
              THEN [idem EXCEPT ![k].state = "FINAL", ![k].result = answer[c]]
              ELSE idem

Conclude(c) ==
    /\ pc[c] = "done"
    /\ FinalizeKey(c) /\ Answer(c)
    /\ UNCHANGED <<store, worker, faults, keyOf, lapsed>>

KeyFault(c) ==
    /\ Fails("no_reply") /\ Answer(c)
    /\ \/ /\ pc[c] = "gate"
          /\ \E r \in Runs : ReserveKey(key[c], r, call[c].payload)
       \/ /\ pc[c] = "done"
          /\ FinalizeKey(c) \/ UNCHANGED idem
          /\ UNCHANGED keyOf
    /\ UNCHANGED <<store, worker, lapsed>>

\* A record lives as long as its time to live, finished or not.
ExpireKey(k) ==
    /\ idem[k] # NoRecord /\ Fails("key_expiry")
    /\ idem' = [idem EXCEPT ![k] = NoRecord] /\ lapsed' = lapsed \cup {k}
    /\ UNCHANGED <<store, locals, worker, keyOf, key>>

SubmissionNext ==
    \/ \E c \in Callers :
         \/ \E k \in Keys, p \in Payloads : Submit(c, k, p)
         \/ Gate(c) \/ Conclude(c) \/ KeyFault(c)
         \/ (AdmitStep(c) \/ AdmitFault(c)) /\ UNCHANGED gate
    \/ \E w \in Workers : WorkerStep(w) /\ UNCHANGED gate
    \/ Environment /\ UNCHANGED gate
    \/ \E k \in Keys : ExpireKey(k)

SubmissionSpec ==
    /\ SubmissionInit /\ [][SubmissionNext]_svars
    /\ \A w \in Workers : WF_svars(WorkerStep(w) /\ UNCHANGED gate)

---------------------------------------------------------------------------

\* While the record of a key lives, no sequence of retries, crashes and lost
\* replies makes two durable runs of it.
OneRunPerKey ==
    \A r, s \in Runs :
        (/\ Durable(r) /\ Durable(s)
         /\ keyOf[r] = keyOf[s] /\ keyOf[r] \notin lapsed) => r = s

\* The stored result, which every replay repeats, stays good whatever fails or
\* arrives later: a run it denies never starts, even one whose RUN_CREATE is
\* durable after all, and any other result stands for a durable run.
StoredResultStands ==
    \A k \in Keys : idem[k].state = "FINAL" =>
        LET r == idem[k].run IN
        IF idem[k].result = "rejected"
          THEN /\ receipt[r] \notin {"FINALIZED", "SETTLED"}
               /\ admitted[r] = 0 /\ task[r] = "none"
          ELSE Durable(r)

\* The doc of RUN_CREATE: a commit without a reply is ambiguous until the
\* snapshot and the receipt are read again, so a run is denied only when its
\* absence is proven.
DenialProven ==
    \A k \in Keys : idem[k].state = "FINAL" /\ idem[k].result = "rejected" =>
        ~Durable(idem[k].run)

\* An accepted submission has its run admitted, its resources accounted for
\* and its root task in the graph.
AcceptedIsComplete ==
    \A k \in Keys : idem[k].state = "FINAL" /\ idem[k].result = "accepted" =>
        LET r == idem[k].run IN
        /\ receipt[r] \in {"FINALIZED", "SETTLED"}
        /\ admitted[r] = 1 /\ task[r] # "none"
===========================================================================
