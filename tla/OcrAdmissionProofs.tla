------------------------- MODULE OcrAdmissionProofs -------------------------
(***************************************************************************)
(* What holds of OcrAdmission for any number of callers, keys and flights: *)
(* the map of flights, the waiters it counts and the tasks agree, one      *)
(* worker process is alive at most, and nothing in the cache is parsed     *)
(* again.                                                                  *)
(***************************************************************************)
EXTENDS OcrAdmission, FiniteSetTheorems, TLAPS

Stages == {None, "sent"} \cup Running

OcrTyped ==
  /\ call \in [Callers -> [at : {"idle", "lookup", "admit", "wait"},
                           key : Keys \cup {None}, on : Tasks \cup {None}]]
  /\ \A c \in Callers : call[c].at # "idle" => call[c].key \in Keys
  /\ \A c \in Callers : call[c].at = "wait" => call[c].on \in Tasks
  /\ flights \in [Keys -> Tasks \cup {None}]
  /\ waiters \in [Tasks -> Int]
  /\ task \in [Tasks -> Stages]
  /\ keyOf \in [Tasks -> Keys \cup {None}]
  /\ \A t \in Tasks : task[t] # None => keyOf[t] \in Keys
  /\ aborted \subseteq Tasks
  /\ permit \in {"free", "held", "cleanup", "forgotten"}
  /\ alive \in Int
  /\ cached \in [Keys -> {"none", "partial", "whole"}]
  /\ late \in [Keys -> {None} \cup Writing]

-----------------------------------------------------------------------------
(* Names of flights.                                                       *)

\* When a flight may take off there is a name for it: fewer tasks than the capacity go on, and the
\* other keys hold one flight each at most.
LEMMA UnusedExists ==
  ASSUME OcrTyped, NEW k \in Keys, flights[k] = None, ~Full
  PROVE  Unused \in Tasks /\ task[Unused] = None /\ \A j \in Keys : flights[j] # Unused
<1> DEFINE going == {t \in Tasks : task[t] # None}
           others == {j \in Keys \ {k} : flights[j] # None}
           kept == {flights[j] : j \in others}
           name == [j \in others |-> flights[j]]
<1> USE OcrAssumption, NoneAssumption
<1>1. IsFiniteSet(going) /\ Cardinality(going) \in Nat /\ Cardinality(going) < Capacity
  <2>1. IsFiniteSet(going)
    BY FS_Subset
  <2>2. Cardinality(going) \in Nat
    BY <2>1, FS_CardinalityType
  <2> QED
    BY <2>1, <2>2 DEF Full
<1>2. IsFiniteSet(Keys \ {k}) /\ Cardinality(Keys \ {k}) = Cardinality(Keys) - 1
  BY FS_RemoveElement
<1>3. IsFiniteSet(others) /\ Cardinality(others) <= Cardinality(Keys) - 1
  BY <1>2, FS_Subset
<1>4. name \in Surjection(others, kept)
  BY DEF Surjection
<1>5. IsFiniteSet(kept) /\ Cardinality(kept) <= Cardinality(others)
  BY <1>3, <1>4, FS_Surjection
<1>6. /\ Cardinality(Keys) \in Nat /\ Cardinality(others) \in Nat /\ Cardinality(kept) \in Nat
      /\ Cardinality(Tasks) \in Nat
  BY <1>3, <1>5, FS_CardinalityType
<1>7. Cardinality(going \cup kept) < Cardinality(Tasks)
  <2>1. IsFiniteSet(going \cap kept) /\ Cardinality(going \cap kept) \in Nat
    BY <1>1, FS_Intersection, FS_CardinalityType
  <2>2. Cardinality(going \cup kept)
          = Cardinality(going) + Cardinality(kept) - Cardinality(going \cap kept)
    BY <1>1, <1>5, FS_Union
  <2> HIDE DEF going, others, kept
  <2> QED
    BY <1>1, <1>3, <1>5, <1>6, <2>1, <2>2
<1>8. PICK t \in Tasks : t \notin going \cup kept
  <2>1. going \cup kept \subseteq Tasks
    BY DEF OcrTyped
  <2>2. going \cup kept # Tasks
    BY <1>6, <1>7
  <2> QED
    BY <2>1, <2>2
<1>9. \A j \in Keys : flights[j] # t
  BY <1>8 DEF OcrTyped
<1>10. task[t] = None
  BY <1>8
<1> QED
  BY <1>9, <1>10 DEF Unused

LEMMA TakesUnused ==
  ASSUME OcrTyped, NEW c \in Callers, TakeOff(c)
  PROVE  Unused \in Tasks /\ task[Unused] = None /\ \A j \in Keys : flights[j] # Unused
<1>1. call[c].key \in Keys
  BY DEF OcrTyped, TakeOff
<1> QED
  BY <1>1, UnusedExists DEF TakeOff

-----------------------------------------------------------------------------
(* Types.                                                                  *)

LEMMA OcrTypedStep ==
  ASSUME OcrTyped, [OcrNext]_vars
  PROVE  OcrTyped'
<1> USE OcrAssumption, NoneAssumption
<1> USE DEF OcrTyped, Stages, Running, Admitted, Parsing, Writing, registry, flight, worker, store,
            Answered, Wait, Idle
<1>1. ASSUME NEW c \in Callers, NEW k \in Keys, Ask(c, k) PROVE OcrTyped'
  BY <1>1 DEF Ask
<1>2. ASSUME NEW c \in Callers, Lookup(c) \/ Join(c) \/ Refuse(c) PROVE OcrTyped'
  BY <1>2 DEF Lookup, Join, Refuse
<1>3. ASSUME NEW c \in Callers, TakeOff(c) PROVE OcrTyped'
  <2>1. Unused \in Tasks
    BY ONLY <1>3, OcrTyped, TakesUnused
  <2>2. call' \in [Callers -> [at : {"idle", "lookup", "admit", "wait"},
                               key : Keys \cup {None}, on : Tasks \cup {None}]]
    BY <1>3, <2>1 DEF TakeOff
  <2>3. \A d \in Callers : /\ call'[d].at # "idle" => call'[d].key \in Keys
                           /\ call'[d].at = "wait" => call'[d].on \in Tasks
    BY <1>3, <2>1 DEF TakeOff
  <2>4. flights' \in [Keys -> Tasks \cup {None}] /\ waiters' \in [Tasks -> Int] /\ aborted' \subseteq Tasks
    BY <1>3, <2>1 DEF TakeOff
  <2>5. /\ task' \in [Tasks -> Stages] /\ keyOf' \in [Tasks -> Keys \cup {None}]
        /\ \A t \in Tasks : task'[t] # None => keyOf'[t] \in Keys
    BY <1>3, <2>1 DEF TakeOff
  <2>6. UNCHANGED <<permit, alive, cached, late>>
    BY <1>3 DEF TakeOff
  <2> QED
    BY <2>2, <2>3, <2>4, <2>5, <2>6
<1>4. ASSUME NEW c \in Callers, Observe(c) \/ Abandon(c) PROVE OcrTyped'
  <2>1. ASSUME call[c].at = "wait", Leave(c)
        PROVE  /\ flights' \in [Keys -> Tasks \cup {None}] /\ waiters' \in [Tasks -> Int]
               /\ aborted' \subseteq Tasks
    BY <2>1 DEF Leave
  <2>2. /\ flights' \in [Keys -> Tasks \cup {None}] /\ waiters' \in [Tasks -> Int]
        /\ aborted' \subseteq Tasks
    BY <1>4, <2>1 DEF Observe, Abandon
  <2> QED
    BY <1>4, <2>2 DEF Observe, Abandon
<1>5. ASSUME NEW t \in Tasks, Acquire(t) \/ GiveUpQueue(t) \/ Recheck(t) \/ FailParse(t)
      PROVE  OcrTyped'
  BY <1>5 DEF Acquire, GiveUpQueue, Recheck, FailParse, Move, Send
<1>6. ASSUME NEW t \in Tasks, StartWorker(t) \/ WorkerSucceeds(t) \/ WorkerFails(t)
      PROVE  OcrTyped'
  BY <1>6 DEF StartWorker, WorkerSucceeds, WorkerFails, Move, Send
<1>7. ASSUME NEW t \in Tasks, HandWrite(t) \/ EmptyFile(t) \/ FillFile(t)
      PROVE  OcrTyped'
  BY <1>7 DEF HandWrite, EmptyFile, FillFile, Move, Send
<1>8. ASSUME NEW t \in Tasks, Expire(t) \/ DropAborted(t) \/ EndTask(t)
      PROVE  OcrTyped'
  BY <1>8 DEF Expire, DropAborted, EndTask, DropOperation, Over, Send
<1>9. CASE CleanupConfirmed \/ CleanupUnconfirmed
  BY <1>9 DEF CleanupConfirmed, CleanupUnconfirmed
<1>10. ASSUME NEW k \in Keys, LateEmpty(k) \/ LateFill(k) PROVE OcrTyped'
  BY <1>10 DEF LateEmpty, LateFill
<1>11. CASE UNCHANGED vars
  BY <1>11 DEF vars
<1> QED
  BY <1>1, <1>2, <1>3, <1>4, <1>5, <1>6, <1>7, <1>8, <1>9, <1>10, <1>11
     DEF OcrNext, CallerStep
-----------------------------------------------------------------------------
(* The worker.                                                             *)

\* Past the queue there is one task.
OneAdmitted ==
  \A t, u \in Tasks : task[t] \in Admitted /\ task[u] \in Admitted => t = u

\* The permit says what is known of the worker.
PermitTracksWorker ==
  /\ alive \in 0..1
  /\ permit = "free" => alive = 0
  /\ \A t \in Tasks : task[t] = "run" => permit = "held" /\ alive = 1

WorkerInv == OneAdmitted /\ PermitTracksWorker

LEMMA WorkerStep ==
  ASSUME OcrTyped, WorkerInv, [OcrNext]_vars
  PROVE  WorkerInv'
<1> USE OcrAssumption, NoneAssumption
<1> USE DEF WorkerInv, OneAdmitted, PermitTracksWorker, Running, Admitted, Parsing,
            Writing, registry, flight, worker, store
<1>1. ASSUME NEW c \in Callers,
             \/ \E k \in Keys : Ask(c, k)
             \/ Lookup(c) \/ Join(c) \/ Refuse(c) \/ Observe(c) \/ Abandon(c)
      PROVE  WorkerInv'
  BY <1>1 DEF Ask, Lookup, Join, Refuse, Observe, Abandon
<1>2. ASSUME NEW c \in Callers, TakeOff(c) PROVE WorkerInv'
  <2>1. Unused \in Tasks
    BY <1>2, TakesUnused
  <2> QED
    BY <1>2, <2>1 DEF TakeOff, OcrTyped
<1>3. ASSUME NEW t \in Tasks, Acquire(t) PROVE WorkerInv'
  BY <1>3 DEF Acquire, Move, OcrTyped
<1>4. ASSUME NEW t \in Tasks, StartWorker(t) PROVE WorkerInv'
  BY <1>4 DEF StartWorker, Move, OcrTyped
<1>5. ASSUME NEW t \in Tasks, WorkerSucceeds(t) \/ WorkerFails(t) PROVE WorkerInv'
  BY <1>5 DEF WorkerSucceeds, WorkerFails, Move, Send, OcrTyped
<1>6. ASSUME NEW t \in Tasks, GiveUpQueue(t) \/ Recheck(t) \/ FailParse(t) PROVE WorkerInv'
  BY <1>6 DEF GiveUpQueue, Recheck, FailParse, Move, Send, OcrTyped
<1>7. ASSUME NEW t \in Tasks, HandWrite(t) \/ EmptyFile(t) \/ FillFile(t) PROVE WorkerInv'
  BY <1>7 DEF HandWrite, EmptyFile, FillFile, Move, Send, OcrTyped
<1>8. ASSUME NEW t \in Tasks, Expire(t) \/ DropAborted(t) PROVE WorkerInv'
  BY <1>8 DEF Expire, DropAborted, DropOperation, Over, Send, OcrTyped
<1>9. ASSUME NEW t \in Tasks, EndTask(t) PROVE WorkerInv'
  BY <1>9 DEF EndTask, Over, OcrTyped
<1>10. CASE CleanupConfirmed \/ CleanupUnconfirmed
  BY <1>10 DEF CleanupConfirmed, CleanupUnconfirmed
<1>11. ASSUME NEW k \in Keys, LateEmpty(k) \/ LateFill(k) PROVE WorkerInv'
  BY <1>11 DEF LateEmpty, LateFill
<1>12. CASE UNCHANGED vars
  BY <1>12 DEF vars
<1> QED
  BY <1>1, <1>2, <1>3, <1>4, <1>5, <1>6, <1>7, <1>8, <1>9, <1>10, <1>11, <1>12
     DEF OcrNext, CallerStep

-----------------------------------------------------------------------------
(* The cache.                                                              *)

\* The task that stores a key is past its parse and the only one past the queue, so
\* the key is parsed nowhere else; what a lost write stores is marked.
LEMMA ParsedOnceStep ==
  ASSUME OcrTyped, WorkerInv, ParsedOnce, [OcrNext]_vars
  PROVE  ParsedOnce'
<1> USE OcrAssumption, NoneAssumption
<1> USE DEF ParsedOnce, WorkerInv, OneAdmitted, Running, Admitted, Parsing, Writing,
            registry, flight, worker, store
<1>1. ASSUME NEW c \in Callers,
             \/ \E k \in Keys : Ask(c, k)
             \/ Lookup(c) \/ Join(c) \/ Refuse(c) \/ Observe(c) \/ Abandon(c)
      PROVE  ParsedOnce'
  BY <1>1 DEF Ask, Lookup, Join, Refuse, Observe, Abandon
<1>2. ASSUME NEW c \in Callers, TakeOff(c) PROVE ParsedOnce'
  <2>1. Unused \in Tasks
    BY <1>2, TakesUnused
  <2> QED
    BY <1>2, <2>1 DEF TakeOff, OcrTyped
<1>3. ASSUME NEW t \in Tasks, Acquire(t) \/ GiveUpQueue(t) \/ Recheck(t) \/ FailParse(t)
      PROVE  ParsedOnce'
  BY <1>3 DEF Acquire, GiveUpQueue, Recheck, FailParse, Move, Send, OcrTyped
<1>4. ASSUME NEW t \in Tasks, StartWorker(t) \/ WorkerSucceeds(t) \/ WorkerFails(t)
      PROVE  ParsedOnce'
  BY <1>4 DEF StartWorker, WorkerSucceeds, WorkerFails, Move, Send, OcrTyped
<1>5. ASSUME NEW t \in Tasks, HandWrite(t) \/ EmptyFile(t) PROVE ParsedOnce'
  BY <1>5 DEF HandWrite, EmptyFile, Move, OcrTyped
<1>6. ASSUME NEW t \in Tasks, FillFile(t) PROVE ParsedOnce'
  BY <1>6 DEF FillFile, Send, OcrTyped
<1>7. ASSUME NEW t \in Tasks, Expire(t) \/ DropAborted(t) PROVE ParsedOnce'
  BY <1>7 DEF Expire, DropAborted, DropOperation, Over, Send, OcrTyped
<1>8. ASSUME NEW t \in Tasks, EndTask(t) PROVE ParsedOnce'
  BY <1>8 DEF EndTask, Over, OcrTyped
<1>9. CASE CleanupConfirmed \/ CleanupUnconfirmed
  BY <1>9 DEF CleanupConfirmed, CleanupUnconfirmed
<1>10. ASSUME NEW k \in Keys, LateEmpty(k) \/ LateFill(k) PROVE ParsedOnce'
  BY <1>10 DEF LateEmpty, LateFill, OcrTyped
<1>11. CASE UNCHANGED vars
  BY <1>11 DEF vars
<1> QED
  BY <1>1, <1>2, <1>3, <1>4, <1>5, <1>6, <1>7, <1>8, <1>9, <1>10, <1>11
     DEF OcrNext, CallerStep

-----------------------------------------------------------------------------
(* The map of flights.                                                     *)

\* A flight in the map is aborted by nobody, counts those who wait for it, is that of one key and
\* parses that key.
Waiting(t) == {c \in Callers : call[c].at = "wait" /\ call[c].on = t}

FlightOfKey(k) ==
  LET t == flights[k] IN
  t # None =>
    /\ t \notin aborted
    /\ Waiting(t) # {} /\ waiters[t] = Cardinality(Waiting(t))
    /\ \A j \in Keys : flights[j] = t => j = k
    /\ task[t] # None => keyOf[t] = k

\* The strengthening of FlightsOwned.
RegistryInv ==
  /\ \A c \in Callers : call[c].at = "wait" => flights[call[c].key] = call[c].on
  /\ \A k \in Keys : FlightOfKey(k)
  /\ \A t \in Tasks : task[t] \in Running => t \in aborted \/ \E k \in Keys : flights[k] = t

LEMMA WaitingFinite ==
  ASSUME NEW t
  PROVE  IsFiniteSet(Waiting(t)) /\ Cardinality(Waiting(t)) \in Nat
<1>1. IsFiniteSet(Waiting(t))
  BY OcrAssumption, FS_Subset DEF Waiting
<1> QED
  BY <1>1, FS_CardinalityType

\* What a step of a task leaves of the map: it may only take tasks that are over from the aborted.
LEMMA RegistryKept ==
  ASSUME OcrTyped, RegistryInv, UNCHANGED <<flights, waiters>>,
         \A t \in Tasks : Waiting(t)' = Waiting(t),
         \A c \in Callers : call'[c].at = "wait" => call'[c] = call[c],
         aborted' \subseteq aborted,
         \A t \in Tasks : task'[t] # None => keyOf'[t] = keyOf[t] /\ task[t] # None,
         \A t \in Tasks : task'[t] \in Running => task[t] \in Running /\ (t \in aborted => t \in aborted')
  PROVE  RegistryInv'
<1>1. ASSUME NEW k \in Keys PROVE FlightOfKey(k)'
  <2>1. flights[k] \in Tasks \cup {None} /\ FlightOfKey(k)
    BY DEF OcrTyped, RegistryInv
  <2>2. CASE flights[k] = None
    BY <2>2 DEF FlightOfKey
  <2>3. CASE flights[k] \in Tasks
    BY <2>1, <2>3 DEF FlightOfKey
  <2> QED
    BY <2>1, <2>2, <2>3
<1>2. \A c \in Callers : call'[c].at = "wait" => flights'[call'[c].key] = call'[c].on
  BY DEF RegistryInv
<1>3. \A t \in Tasks : task'[t] \in Running => t \in aborted' \/ \E k \in Keys : flights'[k] = t
  BY DEF RegistryInv
<1> QED
  BY <1>1, <1>2, <1>3 DEF RegistryInv

LEMMA RegistryJoin ==
  ASSUME OcrTyped, RegistryInv, NEW c \in Callers, Join(c)
  PROVE  RegistryInv'
<1> USE NoneAssumption DEF Join, Wait
<1>1. PICK k \in Keys, t \in Tasks : k = call[c].key /\ t = flights[k] /\ t # None
  BY DEF OcrTyped
<1>2. FlightOfKey(k) /\ c \notin Waiting(t)
  BY <1>1 DEF RegistryInv, Waiting
<1>3. call[c].at = "admit" /\ call' = [call EXCEPT ![c] = [at |-> "wait", key |-> k, on |-> t]]
  BY <1>1
<1>4. Waiting(t)' = Waiting(t) \cup {c} /\ \A u \in Tasks \ {t} : Waiting(u)' = Waiting(u)
  BY <1>1, <1>3 DEF Waiting, OcrTyped
<1>5. Cardinality(Waiting(t)') = Cardinality(Waiting(t)) + 1
  BY <1>2, <1>4, WaitingFinite, FS_AddElement
<1>6. /\ UNCHANGED <<flights, task, keyOf, aborted>>
      /\ waiters'[t] = waiters[t] + 1 /\ \A u \in Tasks \ {t} : waiters'[u] = waiters[u]
  BY <1>1 DEF flight, OcrTyped
<1>7. ASSUME NEW j \in Keys PROVE FlightOfKey(j)'
  <2>1. FlightOfKey(j) /\ flights[j] \in Tasks \cup {None}
    BY DEF RegistryInv, OcrTyped
  <2>2. CASE flights[j] = t
    BY <1>2, <1>1, <1>4, <1>5, <1>6, <2>1, <2>2 DEF FlightOfKey
  <2>3. CASE flights[j] # t
    BY <1>4, <1>6, <2>1, <2>3 DEF FlightOfKey
  <2> QED
    BY <2>2, <2>3
<1>8. \A d \in Callers : call'[d].at = "wait" => flights'[call'[d].key] = call'[d].on
  BY <1>3, <1>6 DEF RegistryInv, OcrTyped
<1>9. \A u \in Tasks : task'[u] \in Running => u \in aborted' \/ \E j \in Keys : flights'[j] = u
  BY <1>6 DEF RegistryInv
<1> QED
  BY <1>7, <1>8, <1>9 DEF RegistryInv

LEMMA RegistryTakeOff ==
  ASSUME OcrTyped, RegistryInv, NEW c \in Callers, TakeOff(c)
  PROVE  RegistryInv'
<1> USE NoneAssumption
<1>1. PICK k \in Keys, t \in Tasks : /\ k = call[c].key /\ t = Unused
                                    /\ task[t] = None /\ flights[k] = None
  BY TakesUnused DEF OcrTyped, TakeOff
<1>2. \A j \in Keys : flights[j] # t
  BY <1>1, TakesUnused
<1>3. /\ call[c].at = "admit" /\ call' = [call EXCEPT ![c] = [at |-> "wait", key |-> k, on |-> t]]
      /\ flights' = [flights EXCEPT ![k] = t] /\ waiters' = [waiters EXCEPT ![t] = 1]
      /\ task' = [task EXCEPT ![t] = "queued"] /\ keyOf' = [keyOf EXCEPT ![t] = k]
      /\ aborted' = aborted \ {t}
  BY <1>1 DEF TakeOff, Wait
<1>4. Waiting(t)' = {c}
  <2>1. \A d \in Callers : call[d].at = "wait" => call[d].on # t
    BY <1>2 DEF RegistryInv, OcrTyped
  <2> QED
    BY <1>3, <2>1 DEF Waiting, OcrTyped
<1>5. \A u \in Tasks \ {t} : Waiting(u)' = Waiting(u)
  BY <1>3 DEF Waiting, OcrTyped
<1>6. Cardinality(Waiting(t)') = 1
  BY <1>4, FS_Singleton
<1>7. ASSUME NEW j \in Keys PROVE FlightOfKey(j)'
  <2>1. FlightOfKey(j) /\ flights[j] \in (Tasks \ {t}) \cup {None}
    BY <1>2 DEF RegistryInv, OcrTyped
  <2>2. CASE j = k
    BY <1>1, <1>2, <1>3, <1>4, <1>6, <2>2 DEF FlightOfKey, OcrTyped
  <2>3. CASE j # k
    BY <1>1, <1>2, <1>3, <1>5, <2>1, <2>3 DEF FlightOfKey, OcrTyped
  <2> QED
    BY <2>2, <2>3
<1>8. \A d \in Callers : call'[d].at = "wait" => flights'[call'[d].key] = call'[d].on
  <2>1. call'[c].key = k /\ call'[c].on = t /\ \A d \in Callers \ {c} : call'[d] = call[d]
    BY <1>3 DEF OcrTyped
  <2>2. flights'[k] = t /\ \A j \in Keys \ {k} : flights'[j] = flights[j]
    BY <1>1, <1>3 DEF OcrTyped
  <2>3. \A d \in Callers : call[d].at = "wait" => call[d].key \in Keys \ {k}
    BY <1>1, OcrAssumption DEF RegistryInv, OcrTyped
  <2> QED
    BY <2>1, <2>2, <2>3 DEF RegistryInv
<1>9. \A u \in Tasks : task'[u] \in Running => u \in aborted' \/ \E j \in Keys : flights'[j] = u
  <2> SUFFICES ASSUME NEW u \in Tasks, task'[u] \in Running, u # t
               PROVE  u \in aborted' \/ \E j \in Keys : flights'[j] = u
    BY <1>1, <1>3 DEF OcrTyped
  <2>1. u \in aborted \/ \E j \in Keys : flights[j] = u
    BY <1>3 DEF RegistryInv, OcrTyped
  <2>2. u # None
    BY OcrAssumption
  <2> QED
    BY <1>1, <1>3, <2>1, <2>2 DEF OcrTyped
<1> QED
  BY <1>7, <1>8, <1>9 DEF RegistryInv

\* The last to leave takes the flight off the map and aborts it, the others are counted off.
LEMMA RegistryLeave ==
  ASSUME OcrTyped, RegistryInv, NEW c \in Callers, call[c].at = "wait", Answered(c), Leave(c),
         UNCHANGED <<task, keyOf>>
  PROVE  RegistryInv'
<1> USE NoneAssumption
<1>1. PICK k \in Keys, t \in Tasks : /\ k = call[c].key /\ t = call[c].on
                                    /\ t # None /\ flights[k] = t /\ FlightOfKey(k)
  BY OcrAssumption DEF OcrTyped, RegistryInv
<1>2. /\ waiters' = [waiters EXCEPT ![t] = @ - 1]
      /\ flights' = [flights EXCEPT ![k] = IF waiters[t] = 1 THEN None ELSE t]
      /\ aborted' = IF waiters[t] = 1 /\ task[t] # None THEN aborted \cup {t} ELSE aborted
  BY <1>1 DEF Leave
<1>3. call'[c].at = "idle" /\ \A d \in Callers \ {c} : call'[d] = call[d]
  BY DEF Answered, Idle, OcrTyped
<1>4. c \in Waiting(t) /\ waiters[t] = Cardinality(Waiting(t)) /\ \A j \in Keys : flights[j] = t => j = k
  BY <1>1 DEF FlightOfKey, Waiting
<1>5. Waiting(t)' = Waiting(t) \ {c} /\ \A u \in Tasks \ {t} : Waiting(u)' = Waiting(u)
  BY <1>1, <1>3 DEF Waiting
<1>6. Cardinality(Waiting(t)') = waiters[t] - 1 /\ IsFiniteSet(Waiting(t)')
  BY <1>4, <1>5, WaitingFinite, FS_RemoveElement
<1>7. \A d \in Callers : call'[d].at = "wait" => d # c /\ call'[d] = call[d]
  BY <1>3
<1>8. CASE waiters[t] = 1
  <2>1. Waiting(t)' = {}
    BY <1>6, <1>8, FS_EmptySet
  <2>2. /\ flights'[k] = None /\ \A j \in Keys \ {k} : flights'[j] = flights[j]
        /\ \A u \in Tasks \ {t} : waiters'[u] = waiters[u]
    BY <1>1, <1>2, <1>8 DEF OcrTyped
  <2>3. ASSUME NEW j \in Keys PROVE FlightOfKey(j)'
    <3>1. CASE j = k
      BY <2>2, <3>1 DEF FlightOfKey
    <3>2. CASE j # k
      <4>1. FlightOfKey(j) /\ flights[j] \in (Tasks \ {t}) \cup {None}
        BY <1>4, <3>2 DEF RegistryInv, OcrTyped
      <4>2. flights[j] # None => \A i \in Keys : flights'[i] = flights'[j] => i = j
        BY <2>2, <3>2, <4>1 DEF FlightOfKey
      <4> QED
        BY <1>2, <1>5, <2>2, <3>2, <4>1, <4>2 DEF FlightOfKey
    <3> QED
      BY <3>1, <3>2
  <2>4. \A d \in Callers : call'[d].at = "wait" => flights'[call'[d].key] = call'[d].on
    <3> SUFFICES ASSUME NEW d \in Callers, call'[d].at = "wait"
                 PROVE  flights'[call'[d].key] = call'[d].on
      OBVIOUS
    <3>1. call'[d] = call[d] /\ d # c /\ call[d].at = "wait" /\ call[d].key \in Keys /\ call[d].on \in Tasks
      BY <1>7 DEF OcrTyped
    <3>2. flights[call[d].key] = call[d].on
      BY <3>1 DEF RegistryInv
    <3>3. call[d].on # t
      BY <1>3, <2>1, <3>1 DEF Waiting
    <3>4. call[d].key # k
      BY <1>1, <3>2, <3>3
    <3> QED
      BY <2>2, <3>1, <3>2, <3>4
  <2>5. \A u \in Tasks : task'[u] \in Running => u \in aborted' \/ \E j \in Keys : flights'[j] = u
    <3> SUFFICES ASSUME NEW u \in Tasks, task[u] \in Running, u \notin aborted'
                 PROVE  \E j \in Keys : flights'[j] = u
      OBVIOUS
    <3>1. task[u] # None
      BY DEF Running
    <3>2. u # t /\ u \notin aborted
      BY <1>2, <1>8, <3>1
    <3>3. PICK j \in Keys : flights[j] = u
      BY <3>2 DEF RegistryInv
    <3> QED
      BY <1>1, <2>2, <3>2, <3>3
  <2> QED
    BY <2>3, <2>4, <2>5 DEF RegistryInv
<1>9. CASE waiters[t] # 1
  <2>1. Waiting(t)' # {}
    BY <1>6, <1>9, FS_EmptySet DEF OcrTyped
  <2>2. /\ UNCHANGED <<flights, aborted>> /\ waiters'[t] = waiters[t] - 1
        /\ \A u \in Tasks \ {t} : waiters'[u] = waiters[u]
    BY <1>1, <1>2, <1>9 DEF OcrTyped
  <2>3. ASSUME NEW j \in Keys PROVE FlightOfKey(j)'
    <3>1. FlightOfKey(j) /\ flights[j] \in Tasks \cup {None}
      BY DEF RegistryInv, OcrTyped
    <3>2. CASE flights[j] = t
      BY <1>6, <2>1, <2>2, <3>1, <3>2 DEF FlightOfKey
    <3>3. CASE flights[j] # t
      BY <1>5, <2>2, <3>1, <3>3 DEF FlightOfKey
    <3> QED
      BY <3>2, <3>3
  <2> QED
    BY <1>7, <2>2, <2>3 DEF RegistryInv
<1> QED
  BY <1>8, <1>9

LEMMA RegistryStep ==
  ASSUME OcrTyped, RegistryInv, [OcrNext]_vars
  PROVE  RegistryInv'
<1> USE OcrAssumption, NoneAssumption
<1>1. ASSUME NEW c \in Callers, UNCHANGED <<registry, flight>>,
             \A d \in Callers : d # c => call'[d] = call[d],
             call[c].at # "wait" /\ call'[c].at # "wait"
      PROVE  RegistryInv'
  <2>1. \A t \in Tasks : Waiting(t)' = Waiting(t)
    BY <1>1 DEF Waiting
  <2> QED
    BY <1>1, <2>1, RegistryKept DEF registry, flight
<1>2. ASSUME NEW c \in Callers, Lookup(c) \/ Refuse(c) \/ (Abandon(c) /\ call[c].at # "wait")
      PROVE  RegistryInv'
  BY <1>1, <1>2 DEF Lookup, Refuse, Abandon, Answered, Idle, registry, flight, OcrTyped
<1>3. ASSUME NEW c \in Callers, NEW k \in Keys, Ask(c, k) PROVE RegistryInv'
  BY <1>1, <1>3 DEF Ask, Idle, OcrTyped
<1>4. ASSUME NEW c \in Callers, CallerStep(c) \/ Abandon(c) PROVE RegistryInv'
  <2>1. CASE Join(c) \/ TakeOff(c)
    BY <2>1, RegistryJoin, RegistryTakeOff
  <2>2. CASE Observe(c) \/ (Abandon(c) /\ call[c].at = "wait")
    BY <2>2, RegistryLeave DEF Observe, Abandon
  <2>3. CASE Lookup(c) \/ Refuse(c) \/ (Abandon(c) /\ call[c].at # "wait")
    BY <1>2, <2>3
  <2> QED
    BY <1>4, <2>1, <2>2, <2>3 DEF CallerStep
<1>5. ASSUME call' = call, UNCHANGED <<flights, waiters>>, aborted' \subseteq aborted,
             \A t \in Tasks : task'[t] # None => keyOf'[t] = keyOf[t] /\ task[t] # None,
             \A t \in Tasks : task'[t] \in Running => task[t] \in Running /\ (t \in aborted => t \in aborted')
      PROVE  RegistryInv'
  <2>1. \A t \in Tasks : Waiting(t)' = Waiting(t)
    BY <1>5 DEF Waiting
  <2> QED
    BY <1>5, <2>1, RegistryKept
<1> USE DEF Running, Admitted, Parsing, Writing, registry, flight, worker, store
<1>6. ASSUME NEW t \in Tasks, Acquire(t) \/ GiveUpQueue(t) \/ Recheck(t) \/ FailParse(t)
      PROVE  RegistryInv'
  BY <1>5, <1>6 DEF Acquire, GiveUpQueue, Recheck, FailParse, Move, Send, OcrTyped
<1>7. ASSUME NEW t \in Tasks, StartWorker(t) \/ WorkerSucceeds(t) \/ WorkerFails(t)
      PROVE  RegistryInv'
  BY <1>5, <1>7 DEF StartWorker, WorkerSucceeds, WorkerFails, Move, Send, OcrTyped
<1>8. ASSUME NEW t \in Tasks, HandWrite(t) \/ EmptyFile(t) \/ FillFile(t) PROVE RegistryInv'
  BY <1>5, <1>8 DEF HandWrite, EmptyFile, FillFile, Move, Send, OcrTyped
<1>9. ASSUME NEW t \in Tasks, Expire(t) \/ DropAborted(t) \/ EndTask(t) PROVE RegistryInv'
  BY <1>5, <1>9 DEF Expire, DropAborted, EndTask, Over, Send, OcrTyped
<1>10. CASE CleanupConfirmed \/ CleanupUnconfirmed
  BY <1>5, <1>10 DEF CleanupConfirmed, CleanupUnconfirmed
<1>11. ASSUME NEW k \in Keys, LateEmpty(k) \/ LateFill(k) PROVE RegistryInv'
  BY <1>5, <1>11 DEF LateEmpty, LateFill
<1>12. CASE UNCHANGED vars
  BY <1>5, <1>12 DEF vars
<1> QED
  BY <1>3, <1>4, <1>6, <1>7, <1>8, <1>9, <1>10, <1>11, <1>12 DEF OcrNext

LEMMA RegistryOwnsFlights ==
  ASSUME OcrTyped, RegistryInv
  PROVE  FlightsOwned
<1>1. ASSUME NEW c \in Callers, call[c].at = "wait"
      PROVE  flights[call[c].key] = call[c].on /\ call[c].on \notin aborted
  <2>1. flights[call[c].key] = call[c].on /\ call[c].key \in Keys /\ call[c].on # None
    BY <1>1, OcrAssumption DEF OcrTyped, RegistryInv
  <2> QED
    BY <2>1 DEF RegistryInv, FlightOfKey
<1>2. ASSUME NEW t \in Tasks, Waiting(t) # {}
      PROVE  waiters[t] = Cardinality(Waiting(t))
  <2>1. PICK c \in Callers : call[c].at = "wait" /\ call[c].on = t
    BY <1>2 DEF Waiting
  <2>2. call[c].key \in Keys /\ flights[call[c].key] = t /\ t # None
    BY <2>1, OcrAssumption DEF OcrTyped, RegistryInv
  <2> QED
    BY <2>2 DEF RegistryInv, FlightOfKey
<1>3. ASSUME NEW t \in Tasks, task[t] \in Running
      PROVE  t \in aborted \/ Waiting(t) # {}
  BY <1>3, OcrAssumption DEF RegistryInv, FlightOfKey
<1> QED
  BY <1>1, <1>2, <1>3 DEF FlightsOwned, Waiting

-----------------------------------------------------------------------------
(* The theorems.                                                           *)

OcrInv == OcrTyped /\ WorkerInv /\ ParsedOnce /\ RegistryInv

LEMMA OcrInvHolds == OcrSpec => []OcrInv
<1>1. OcrInit => OcrInv
  BY OcrAssumption, NoneAssumption
     DEF OcrInit, OcrInv, OcrTyped, WorkerInv, OneAdmitted, PermitTracksWorker, ParsedOnce,
         RegistryInv, FlightOfKey, Idle, Stages, Running, Admitted, Parsing, Writing
<1>2. OcrInv /\ [OcrNext]_vars => OcrInv'
  BY OcrTypedStep, WorkerStep, ParsedOnceStep, RegistryStep DEF OcrInv
<1> QED
  BY <1>1, <1>2, PTL DEF OcrSpec

\* However many callers ask for however many keys, and whenever flights are abandoned, time out or are
\* aborted, at most one worker process is alive: the permit WorkerProcess holds outlives the parse.
THEOREM OneWorkerAlive == OcrSpec => []OneWorker
<1>1. OcrInv => OneWorker
  BY DEF OcrInv, WorkerInv, PermitTracksWorker, OneWorker
<1> QED
  BY <1>1, OcrInvHolds, PTL

\* No flight parses a key the cache holds, unless a write that its own flight abandoned stored it
\* meanwhile: the cache is looked at again past the queue, where one flight at a time is.
THEOREM NothingParsedTwice == OcrSpec => []ParsedOnce
<1>1. OcrInv => ParsedOnce
  BY DEF OcrInv
<1> QED
  BY <1>1, OcrInvHolds, PTL

\* The waiters OcrSingleFlight counts are the callers that wait, they wait for the flight the map holds
\* for their key, which nobody aborted, and a task without waiters is aborted or has its outcome.
THEOREM FlightsAreOwned == OcrSpec => []FlightsOwned
<1>1. OcrInv => FlightsOwned
  BY RegistryOwnsFlights DEF OcrInv
<1> QED
  BY <1>1, OcrInvHolds, PTL

=============================================================================
