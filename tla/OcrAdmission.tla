---------------------------- MODULE OcrAdmission ----------------------------
(***************************************************************************)
(* How an OCR parse is admitted, shared and cancelled: OcrSingleFlight     *)
(* behind CachingParser, over the parsed cache file of a key and the one   *)
(* worker process LayoutPdfParser allows.                                  *)
(*                                                                         *)
(* A flight is a spawned task with a place in the map of flights and the   *)
(* number of callers that wait for it. The last one to leave aborts it, but *)
(* an aborted task finishes the poll it is in and keeps its permits until  *)
(* its future is dropped. A dropped parse leaves a worker process to stop, *)
(* which keeps the worker permit until it is known to be gone; if that     *)
(* cannot be confirmed the permit is forgotten for good. A cache write the *)
(* blocking pool has goes on after its flight is dropped.                  *)
(*                                                                         *)
(* Both deadlines, 2 s for admission and 60 s for the flight, may pass at  *)
(* any moment. A task that panics ends like one that failed.               *)
(***************************************************************************)
EXTENDS Naturals, FiniteSets

CONSTANTS
  Callers,    \* requests that parse a PDF, reused once answered
  Keys,       \* parsed-cache keys: source, raw hash, versions
  Capacity,   \* flights that may exist, the running one included: 3
  Tasks,      \* names of flights
  None

ASSUME OcrAssumption ==
  /\ Capacity \in Nat \ {0}
  /\ IsFiniteSet(Keys) /\ IsFiniteSet(Callers) /\ IsFiniteSet(Tasks)
  /\ Cardinality(Tasks) >= Capacity + Cardinality(Keys) - 1
  /\ None \notin Tasks

VARIABLES
  call,      \* what a caller is doing, for which key and on which flight
  flights,   \* the map from keys to flights
  waiters,   \* Flight::waiters
  task,      \* where the task of a flight is, None when it is over
  keyOf,     \* the key it parses
  outcome,   \* what the flight sent those who wait for it
  aborted,   \* the tasks abort() was called on
  permit,    \* the permit of the worker process
  alive,     \* worker processes alive
  cached,    \* the parsed-cache file of a key
  late,      \* the cache write of a key that goes on without its flight
  overtaken  \* auxiliary: tasks that parse a key such a write then stored

registry == <<flights, waiters>>
flight   == <<task, keyOf, outcome, aborted>>
worker   == <<permit, alive>>
store    == <<cached, late, overtaken>>
vars     == <<call, registry, flight, worker, store>>

Idle == [at |-> "idle", key |-> None, on |-> None]
Parsing  == {"permit", "run", "put"}
Writing  == {"handed", "emptied"}
Admitted == {"recheck"} \cup Parsing \cup Writing
Running  == {"queued"} \cup Admitted

\* Where a task is, is never taken for its being over, nor a key for none.
ASSUME NoneAssumption == None \notin Keys \cup Running \cup {"sent"}

\* A process that was killed may have left half a cache file.
OcrInit ==
  /\ call = [c \in Callers |-> Idle]
  /\ flights = [k \in Keys |-> None]
  /\ waiters = [t \in Tasks |-> 0]
  /\ task = [t \in Tasks |-> None]
  /\ keyOf = [t \in Tasks |-> None]
  /\ outcome = [t \in Tasks |-> None]
  /\ aborted = {}
  /\ permit = "free" /\ alive = 0
  /\ cached \in [Keys -> {"none", "partial", "whole"}]
  /\ late = [k \in Keys |-> None]
  /\ overtaken = {}

-----------------------------------------------------------------------------
(* Callers.                                                                *)

\* The caller has its document or its error.
Answered(c) == call' = [call EXCEPT ![c] = Idle]

Ask(c, k) ==
  /\ call[c].at = "idle"
  /\ call' = [call EXCEPT ![c] = [Idle EXCEPT !.at = "lookup", !.key = k]]
  /\ UNCHANGED <<registry, flight, worker, store>>

\* CachingParser looks into the cache before it asks for admission; half a
\* file does not decode.
Lookup(c) ==
  /\ call[c].at = "lookup"
  /\ IF cached[call[c].key] = "none"
     THEN call' = [call EXCEPT ![c].at = "admit"]
     ELSE Answered(c)
  /\ UNCHANGED <<registry, flight, worker, store>>

Wait(c, t) == call' = [call EXCEPT ![c] = [at |-> "wait", key |-> @.key, on |-> t]]

\* A flight of the key is shared, also one that has its result already.
Join(c) ==
  LET t == flights[call[c].key] IN
  /\ call[c].at = "admit" /\ t # None
  /\ Wait(c, t)
  /\ waiters' = [waiters EXCEPT ![t] = @ + 1]
  /\ UNCHANGED <<flights, flight, worker, store>>

Full == Cardinality({t \in Tasks : task[t] # None}) >= Capacity

Refuse(c) ==
  /\ call[c].at = "admit" /\ flights[call[c].key] = None /\ Full
  /\ Answered(c)
  /\ UNCHANGED <<registry, flight, worker, store>>

Unused == CHOOSE t \in Tasks : task[t] = None /\ \A k \in Keys : flights[k] # t

TakeOff(c) ==
  LET k == call[c].key
      t == Unused
  IN /\ call[c].at = "admit" /\ flights[k] = None /\ ~Full
     /\ Wait(c, t)
     /\ flights' = [flights EXCEPT ![k] = t]
     /\ waiters' = [waiters EXCEPT ![t] = 1]
     /\ task' = [task EXCEPT ![t] = "queued"]
     /\ keyOf' = [keyOf EXCEPT ![t] = k]
     /\ outcome' = [outcome EXCEPT ![t] = None]
     /\ aborted' = aborted \ {t}
     /\ UNCHANGED <<worker, store>>

\* Mutant: the last waiter gives the key up, the task goes on.
LeaveRunning(c) ==
  LET t == call[c].on
      k == call[c].key
  IN IF flights[k] = t
     THEN /\ waiters' = [waiters EXCEPT ![t] = @ - 1]
          /\ flights' = [flights EXCEPT ![k] = IF waiters[t] = 1 THEN None ELSE t]
          /\ outcome' = [outcome EXCEPT ![t] = IF waiters[t] = 1 THEN None ELSE @]
          /\ UNCHANGED aborted
     ELSE UNCHANGED <<registry, outcome, aborted>>

\* Waiter::drop, under the lock of the map.
Leave(c) ==
  LET t == call[c].on
      k == call[c].key
  IN IF flights[k] = t
     THEN /\ waiters' = [waiters EXCEPT ![t] = @ - 1]
          /\ flights' = [flights EXCEPT ![k] = IF waiters[t] = 1 THEN None ELSE t]
          /\ outcome' = [outcome EXCEPT ![t] = IF waiters[t] = 1 THEN None ELSE @]
          /\ aborted' = IF waiters[t] = 1 /\ task[t] # None THEN aborted \cup {t} ELSE aborted
     ELSE UNCHANGED <<registry, outcome, aborted>>

Observe(c) ==
  /\ call[c].at = "wait" /\ outcome[call[c].on] # None
  /\ Answered(c)
  /\ Leave(c)
  /\ UNCHANGED <<task, keyOf, worker, store>>

\* The caller's deadline passes or its connection closes.
Abandon(c) ==
  /\ call[c].at # "idle"
  /\ Answered(c)
  /\ IF call[c].at = "wait" THEN Leave(c) ELSE UNCHANGED <<registry, outcome, aborted>>
  /\ UNCHANGED <<task, keyOf, worker, store>>

-----------------------------------------------------------------------------
(* The task of a flight.                                                   *)

\* Mutant: the outcome of a flight is dropped with its operation.
SendNothing(t, o) ==
  /\ task' = [task EXCEPT ![t] = "sent"]
  /\ UNCHANGED outcome

\* Nobody can read the outcome of a flight that has left the map.
Send(t, o) ==
  /\ task' = [task EXCEPT ![t] = "sent"]
  /\ outcome' = [outcome EXCEPT ![t] = IF flights[keyOf[t]] = t THEN o ELSE None]

Move(t, from, to) ==
  /\ task[t] = from
  /\ task' = [task EXCEPT ![t] = to]
  /\ UNCHANGED outcome

\* Mutant: the cache is looked at before the flight queues, not after.
AcquireUnchecked(t) ==
  /\ \A u \in Tasks : task[u] \notin Admitted
  /\ Move(t, "queued", "permit")
  /\ UNCHANGED <<call, registry, keyOf, aborted, worker, store>>

\* One flight at a time is past the queue, an aborted one counts.
Acquire(t) ==
  /\ \A u \in Tasks : task[u] \notin Admitted
  /\ Move(t, "queued", "recheck")
  /\ UNCHANGED <<call, registry, keyOf, aborted, worker, store>>

GiveUpQueue(t) ==
  /\ task[t] = "queued"
  /\ Send(t, "busy")
  /\ UNCHANGED <<call, registry, keyOf, aborted, worker, store>>

\* The key may have been stored since the caller looked.
Recheck(t) ==
  /\ task[t] = "recheck"
  /\ CASE cached[keyOf[t]] = "whole"   -> Send(t, "document")
       [] cached[keyOf[t]] = "partial" -> Send(t, "failed")
       [] OTHER                        -> Move(t, "recheck", "permit")
  /\ UNCHANGED <<call, registry, keyOf, aborted, worker, store>>

StartWorker(t) ==
  /\ permit = "free"
  /\ Move(t, "permit", "run")
  /\ permit' = "held" /\ alive' = alive + 1
  /\ UNCHANGED <<call, registry, keyOf, aborted, store>>

WorkerSucceeds(t) ==
  /\ Move(t, "run", "put")
  /\ permit' = "free" /\ alive' = alive - 1
  /\ UNCHANGED <<call, registry, keyOf, aborted, store>>

\* A worker that failed is gone, but a unit it ran in is stopped all the same.
WorkerFails(t) ==
  /\ task[t] = "run"
  /\ Send(t, "failed")
  /\ permit' \in {"free", "cleanup"} /\ alive' = alive - 1
  /\ UNCHANGED <<call, registry, keyOf, aborted, store>>

\* FileParsedDocumentCache::put hands the write to the blocking pool, which
\* empties the file and fills it. Bound: one late write of a key at a time.
HandWrite(t) ==
  /\ Move(t, "put", "handed")
  /\ late[keyOf[t]] = None
  /\ UNCHANGED <<call, registry, keyOf, aborted, worker, store>>

EmptyFile(t) ==
  /\ Move(t, "handed", "emptied")
  /\ cached' = [cached EXCEPT ![keyOf[t]] = "partial"]
  /\ UNCHANGED <<call, registry, keyOf, aborted, worker, late, overtaken>>

FillFile(t) ==
  /\ task[t] = "emptied"
  /\ Send(t, "document")
  /\ cached' = [cached EXCEPT ![keyOf[t]] = "whole"]
  /\ UNCHANGED <<call, registry, keyOf, aborted, worker, late, overtaken>>

\* Publication is refused, or the parse, the cache or the task fails.
FailParse(t) ==
  /\ task[t] \in {"recheck", "permit", "put"} \cup Writing
  /\ Send(t, "failed")
  /\ UNCHANGED <<call, registry, keyOf, aborted, worker, store>>

\* Mutant: the permit of the worker is dropped with the parse.
DropOperationAndPermit(t) ==
  /\ permit' = IF task[t] = "run" THEN "free" ELSE permit
  /\ late' = IF task[t] \in Writing THEN [late EXCEPT ![keyOf[t]] = task[t]] ELSE late
  /\ UNCHANGED <<alive, cached>>

\* What the operation was doing when its future is dropped goes on elsewhere:
\* WorkerProcess::drop stops the worker, the blocking pool fills the file.
DropOperation(t) ==
  /\ permit' = IF task[t] = "run" THEN "cleanup" ELSE permit
  /\ late' = IF task[t] \in Writing THEN [late EXCEPT ![keyOf[t]] = task[t]] ELSE late
  /\ UNCHANGED <<alive, cached>>

\* 60 s after the flight was admitted.
Expire(t) ==
  /\ task[t] \in Running
  /\ DropOperation(t)
  /\ Send(t, "timeout")
  /\ UNCHANGED <<call, registry, keyOf, aborted, overtaken>>

Over(t) ==
  /\ task' = [task EXCEPT ![t] = None]
  /\ keyOf' = [keyOf EXCEPT ![t] = None]
  /\ aborted' = aborted \ {t}
  /\ overtaken' = overtaken \ {t}

\* The runtime gets to drop a task abort() was called on.
DropAborted(t) ==
  /\ t \in aborted /\ task[t] # None
  /\ DropOperation(t)
  /\ Over(t)
  /\ UNCHANGED <<call, registry, outcome>>

\* The outcome is sent before the task lets go of its place.
EndTask(t) ==
  /\ task[t] = "sent"
  /\ Over(t)
  /\ UNCHANGED <<call, registry, outcome, worker, cached, late>>

-----------------------------------------------------------------------------
(* What goes on without a flight.                                          *)

CleanupConfirmed ==
  /\ permit = "cleanup"
  /\ permit' = "free" /\ alive' = 0
  /\ UNCHANGED <<call, registry, flight, store>>

\* The unit could not be stopped, or not in time: the slot is never used again.
CleanupUnconfirmed ==
  /\ permit = "cleanup"
  /\ permit' = "forgotten"
  /\ UNCHANGED <<alive, call, registry, flight, store>>

LateEmpty(k) ==
  /\ late[k] = "handed"
  /\ late' = [late EXCEPT ![k] = "emptied"]
  /\ cached' = [cached EXCEPT ![k] = "partial"]
  /\ UNCHANGED <<overtaken, call, registry, flight, worker>>

LateFill(k) ==
  /\ late[k] = "emptied"
  /\ late' = [late EXCEPT ![k] = None]
  /\ cached' = [cached EXCEPT ![k] = "whole"]
  /\ overtaken' = overtaken \cup {t \in Tasks : task[t] \in Parsing /\ keyOf[t] = k}
  /\ UNCHANGED <<call, registry, flight, worker>>

-----------------------------------------------------------------------------

CallerStep(c) == Lookup(c) \/ Join(c) \/ Refuse(c) \/ TakeOff(c) \/ Observe(c)

OcrNext ==
  \/ \E c \in Callers : CallerStep(c) \/ Abandon(c) \/ \E k \in Keys : Ask(c, k)
  \/ \E t \in Tasks :
        \/ Acquire(t) \/ GiveUpQueue(t) \/ Recheck(t) \/ StartWorker(t)
        \/ WorkerSucceeds(t) \/ WorkerFails(t) \/ HandWrite(t) \/ EmptyFile(t) \/ FillFile(t)
        \/ FailParse(t) \/ Expire(t) \/ DropAborted(t) \/ EndTask(t)
  \/ CleanupConfirmed \/ CleanupUnconfirmed
  \/ \E k \in Keys : LateEmpty(k) \/ LateFill(k)

\* A caller that can go on does, and the deadline of a flight passes. Nothing
\* is assumed of the worker, which may hang, nor of its cleanup.
OcrSpec == OcrInit /\ [][OcrNext]_vars
FairOcrSpec ==
  /\ OcrSpec
  /\ \A c \in Callers : WF_vars(CallerStep(c))
  /\ \A t \in Tasks : WF_vars(Expire(t)) /\ WF_vars(DropAborted(t))

-----------------------------------------------------------------------------

\* The callers that wait for a flight are those it counts, it is the one in the
\* map, and nobody aborted it; and a task that is neither aborted nor finished
\* has someone waiting, so no OCR runs for nobody.
FlightsOwned ==
  /\ \A c \in Callers :
       call[c].at = "wait" =>
         /\ flights[call[c].key] = call[c].on
         /\ call[c].on \notin aborted
  /\ \A t \in Tasks :
       LET waiting == {c \in Callers : call[c].at = "wait" /\ call[c].on = t} IN
       /\ waiting # {} => waiters[t] = Cardinality(waiting)
       /\ task[t] \in Running => t \in aborted \/ waiting # {}

\* At most one OCR worker process is alive, whichever flights were dropped while
\* theirs ran and whether or not their workers could be stopped.
OneWorker == alive <= 1

\* "The cache may have been published between the caller's initial lookup and
\* admission. Do not execute it twice.": no parse is under way of a key that is
\* in the cache, unless a write that outlived its flight put it there.
ParsedOnce ==
  \A t \in Tasks :
    task[t] \in Parsing /\ cached[keyOf[t]] = "whole" => t \in overtaken

\* Every caller is answered, also when the worker hangs, its flight is dropped or
\* the worker permit is forgotten.
EveryCallerAnswered ==
  \A c \in Callers : call[c].at # "idle" ~> call[c].at = "idle"

=============================================================================
