------------------------- MODULE OcrCheckpointsProofs -------------------------
(***************************************************************************)
(* What holds of OcrCheckpoints for any number of pages and drains and of  *)
(* faults: no page is computed again that nothing excuses losing.          *)
(***************************************************************************)
EXTENDS OcrCheckpoints, SequenceTheorems, TLAPS

Lines  == [kind : {"required", "page", "resumed", "document", "timeout", "failed"}, page : Nat]
Drain  == [state : {"read", "page", "over"}, lines : Seq(Lines), stores : BOOLEAN,
           payload : Endings \cup {None}]
Stages == {"idle", "permit", "await", "meta", "load", "run", "remove"}

CheckpointTyped ==
  /\ files \subseteq Nat /\ doomed \subseteq Nat /\ kept \subseteq Required
  /\ call \in [at : Stages, pending : Drains \cup {None}, resume : SUBSET Nat,
               on : Drains \cup {None}, got : Endings \cup {None}]
  /\ slot \in Drains \cup {None}
  /\ worker \in [on : Drains \cup {None}, resume : SUBSET Nat, next : Nat, computed : Nat]
  /\ drain \in [Drains -> Drain]

\* A drain that is over stores nothing more; one that stores a page is at its line.
DrainInv ==
  \A d \in Drains :
    /\ drain[d].stores => drain[d].state # "over"
    /\ drain[d].state = "page" => drain[d].lines # <<>>

\* Which drain the call knows: the one in the slot, until it takes it from there.
CallInv ==
  /\ call.at # "await" => call.pending = None
  /\ call.at \in {"await", "meta", "load"} \/ (call.at = "run" /\ call.on = None) => slot = None
  /\ worker.on # None => call.at \in {"run", "remove"}
  /\ worker.on # None /\ call.at = "run" => slot = worker.on /\ call.on # None

\* Drain d has the page yet to store, and with it the meta file, or is past that.
ToStore(d, p) ==
  /\ drain[d].stores
  /\ \E i \in DOMAIN drain[d].lines :
       /\ drain[d].lines[i] = Line("page", p)
       /\ i = 1 /\ drain[d].state = "page" => Meta \in files

\* A page is in the files, or the drain the next call will wait for stores it.
Safe(p) ==
  \/ Meta \in files /\ p \in files
  \/ \E d \in Drains \cap {slot, call.pending} : ToStore(d, p)

\* A page that is kept is safe; the call takes it up, and so does its worker.
KeptInv ==
  /\ call.at = "remove" \/ doomed # {} => kept = {}
  /\ \A p \in kept :
       /\ Safe(p)
       /\ call.at = "run" /\ call.on = None => p \in call.resume
       /\ worker.on # None => p \in worker.resume \/ p < worker.next

CheckpointInv == DrainInv /\ CallInv /\ KeptInv

-----------------------------------------------------------------------------
(* Lines of a drain.                                                       *)

LEMMA AppendedLines ==
  ASSUME NEW lines \in Seq(Lines), NEW x \in Lines
  PROVE  /\ Append(lines, x) \in Seq(Lines) /\ Append(lines, x) # <<>>
         /\ Len(lines) + 1 \in DOMAIN Append(lines, x) /\ Append(lines, x)[Len(lines) + 1] = x
         /\ \A i \in DOMAIN lines : i \in DOMAIN Append(lines, x) /\ Append(lines, x)[i] = lines[i]
OBVIOUS

LEMMA RemainingLines ==
  ASSUME NEW lines \in Seq(Lines), lines # <<>>
  PROVE  /\ Head(lines) \in Lines /\ Head(lines) = lines[1] /\ Tail(lines) \in Seq(Lines)
         /\ \A i \in DOMAIN lines \ {1} : i - 1 \in DOMAIN Tail(lines) /\ Tail(lines)[i - 1] = lines[i]
OBVIOUS

-----------------------------------------------------------------------------
(* Types.                                                                  *)

LEMMA DrainTyped ==
  ASSUME CheckpointTyped, NEW d \in Drains, NEW new \in Drain
  PROVE  [drain EXCEPT ![d] = new] \in [Drains -> Drain]
BY DEF CheckpointTyped

LEMMA WriteTyped ==
  ASSUME CheckpointTyped, worker.on # None, NEW x \in Lines, Write(x)
  PROVE  drain' \in [Drains -> Drain]
<1>1. worker.on \in Drains /\ drain[worker.on] \in Drain
  BY DEF CheckpointTyped
<1>2. Append(drain[worker.on].lines, x) \in Seq(Lines)
  BY <1>1, AppendedLines DEF Drain
<1> QED
  BY <1>1, <1>2 DEF Write, CheckpointTyped, Drain

LEMMA PastLineTyped ==
  ASSUME CheckpointTyped, NEW d \in Drains, drain[d].lines # <<>>
  PROVE  PastLine(d) \in Drain /\ NextLine(d) \in Lines
<1>1. drain[d] \in Drain
  BY DEF CheckpointTyped
<1>2. Head(drain[d].lines) \in Lines /\ Tail(drain[d].lines) \in Seq(Lines)
  BY <1>1, RemainingLines DEF Drain
<1> QED
  BY <1>1, <1>2 DEF PastLine, NextLine, Drain

LEMMA JudgeTyped ==
  ASSUME CheckpointTyped, NEW got \in Endings, Judge(got)
  PROVE  /\ call' \in [at : Stages, pending : Drains \cup {None}, resume : SUBSET Nat,
                       on : Drains \cup {None}, got : Endings \cup {None}]
         /\ kept' \subseteq kept
<1>1. CASE got = "timeout"
  BY <1>1 DEF Judge, Idle, Stages
<1>2. CASE got # "timeout"
  <2>1. call' = [call EXCEPT !.at = "remove", !.got = got] /\ kept' = {}
    BY <1>2 DEF Judge
  <2> QED
    BY <2>1 DEF CheckpointTyped, Stages
<1> QED
  BY <1>1, <1>2

LEMMA CheckpointTypedStep ==
  ASSUME CheckpointTyped, DrainInv, [Next]_vars
  PROVE  CheckpointTyped'
<1> USE CheckpointAssumption
<1> DEFINE CallType == [at : Stages, pending : Drains \cup {None}, resume : SUBSET Nat,
                        on : Drains \cup {None}, got : Endings \cup {None}]
           WorkerType == [on : Drains \cup {None}, resume : SUBSET Nat, next : Nat, computed : Nat]
<1>a. Idle \in CallType /\ NoWorker \in WorkerType /\ NoDrain \in Drain
  BY DEF Idle, NoWorker, NoDrain, Stages, Drain, Lines
<1>b. \A k \in {"required", "page", "resumed", "document", "timeout", "failed"}, n \in Nat :
        Line(k, n) \in Lines
  BY DEF Line, Lines
<1>1. CASE Ask
  BY <1>1 DEF Ask, CheckpointTyped, Idle, Stages, history
<1>2. CASE TakePermit
  BY <1>2 DEF TakePermit, CheckpointTyped, Stages, history
<1>3. CASE AwaitDrain
  BY <1>3 DEF AwaitDrain, CheckpointTyped, Stages, history
<1>4. CASE LoadMeta
  BY <1>4 DEF LoadMeta, CheckpointTyped, Stages, history
<1>5. CASE LoadPages
  BY <1>5 DEF LoadPages, CheckpointTyped, Stages, history
<1>6. CASE Spawn
  <2>1. PICK d \in Drains :
          /\ call' = [call EXCEPT !.on = d, !.resume = {}]
          /\ slot' = d
          /\ worker' = [NoWorker EXCEPT !.on = d, !.resume = call.resume]
          /\ drain' = [drain EXCEPT ![d] =
               [NoDrain EXCEPT !.state = "read", !.lines = <<Line("required", Meta)>>, !.stores = TRUE]]
    BY <1>6 DEF Spawn
  <2>2. <<Line("required", Meta)>> \in Seq(Lines)
    BY <1>b DEF Meta
  <2>3. [NoDrain EXCEPT !.state = "read", !.lines = <<Line("required", Meta)>>, !.stores = TRUE] \in Drain
    BY <2>2, <1>a DEF Drain
  <2>4. drain' \in [Drains -> Drain]
    BY <2>1, <2>3, DrainTyped
  <2>5. worker' \in WorkerType
    BY <2>1, <1>a DEF CheckpointTyped
  <2>6. call' \in CallType /\ slot' \in Drains
    BY <2>1 DEF CheckpointTyped
  <2> QED
    BY <1>6, <2>4, <2>5, <2>6 DEF Spawn, CheckpointTyped, history
<1>7. CASE ReplayPage
  <2>1. worker.on # None /\ worker.next \in Nat /\ worker' = [worker EXCEPT !.next = @ + 1]
    BY <1>7 DEF ReplayPage, Working, CheckpointTyped
  <2>2. drain' \in [Drains -> Drain]
    BY <1>7, <2>1, <1>b, WriteTyped DEF ReplayPage
  <2>3. worker' \in WorkerType
    BY <2>1 DEF CheckpointTyped
  <2> QED
    BY <1>7, <2>2, <2>3 DEF ReplayPage, CheckpointTyped, history
<1>8. CASE ComputePage
  <2>1. /\ worker.on # None /\ worker.next \in Nat /\ worker.next \in Required
        /\ worker' = [worker EXCEPT !.next = @ + 1, !.computed = @ + 1]
    BY <1>8 DEF ComputePage, Working, CheckpointTyped
  <2>2. drain' \in [Drains -> Drain]
    BY <1>8, <2>1, <1>b, WriteTyped DEF ComputePage
  <2>3. worker' \in WorkerType
    <3>1. worker' = [on |-> worker.on, resume |-> worker.resume, next |-> worker.next + 1,
                     computed |-> worker.computed + 1]
      BY <2>1 DEF CheckpointTyped
    <3> QED
      BY <3>1 DEF CheckpointTyped
  <2>4. kept' \subseteq Required
    BY <1>8, <2>1 DEF ComputePage, CheckpointTyped
  <2> QED
    BY <1>8, <2>2, <2>3, <2>4 DEF ComputePage, CheckpointTyped
<1>9. CASE RunOut \/ FinishPages \/ WorkerFails
  <2>1. worker.on # None /\ worker' = NoWorker
    BY <1>9 DEF RunOut, FinishPages, WorkerFails, Working
  <2>2. \/ \E k \in {"timeout", "document", "failed"} : Write(Line(k, Meta))
        \/ UNCHANGED drain
    BY <1>9 DEF RunOut, FinishPages, WorkerFails
  <2>3. ASSUME NEW k \in {"timeout", "document", "failed"}, Write(Line(k, Meta))
        PROVE  drain' \in [Drains -> Drain]
    <3>1. Line(k, Meta) \in Lines
      BY <1>b DEF Meta
    <3> QED
      BY <2>1, <2>3, <3>1, WriteTyped
  <2>4. drain' \in [Drains -> Drain]
    BY <2>2, <2>3 DEF CheckpointTyped
  <2> QED
    BY <1>9, <2>1, <2>4, <1>a DEF RunOut, FinishPages, WorkerFails, CheckpointTyped, history
<1>10. CASE Collect
  <2>1. PICK got \in Endings : Judge(got)
    <3>1. drain[call.on].payload # None => drain[call.on].payload \in Endings
      BY <1>10 DEF Collect, CheckpointTyped, Drain
    <3> QED
      BY <1>10, <3>1 DEF Collect, Endings
  <2>2. drain' \in [Drains -> Drain]
    BY <1>10, <1>a DEF Collect, CheckpointTyped
  <2> QED
    BY <1>10, <2>1, <2>2, JudgeTyped DEF Collect, CheckpointTyped
<1>11. CASE Overflow
  <2>1. Judge("failed") /\ "failed" \in Endings
    BY <1>11 DEF Overflow, Endings
  <2>2. drain' \in [Drains -> Drain]
    BY <1>11, <1>a DEF Overflow, CheckpointTyped
  <2> QED
    BY <1>11, <2>1, <2>2, JudgeTyped DEF Overflow, CheckpointTyped
<1>12. CASE StartRemoval \/ RemoveFile \/ CleanupConfirmed \/ CleanupUnconfirmed
  BY <1>12 DEF StartRemoval, RemoveFile, CleanupConfirmed, CleanupUnconfirmed, CheckpointTyped, history
<1>13. CASE Answer \/ Drop \/ DropElsewhere
  BY <1>13, <1>a DEF Answer, Drop, DropElsewhere, DropCall, DropWorker, CheckpointTyped
<1>14. CASE Stop
  BY <1>14, <1>a DEF Stop, CheckpointTyped
<1>15. ASSUME NEW d \in Drains, DrainLine(d) PROVE CheckpointTyped'
  <2>1. drain[d] \in Drain /\ PastLine(d) \in Drain /\ NextLine(d) \in Lines
    BY <1>15, PastLineTyped DEF DrainLine, CheckpointTyped
  <2>2. [drain[d] EXCEPT !.state = "page"] \in Drain
    BY <2>1 DEF Drain
  <2>3. NextLine(d).kind \in Endings => [PastLine(d) EXCEPT !.payload = NextLine(d).kind] \in Drain
    BY <2>1 DEF Drain
  <2>4. \E new \in Drain : drain' = [drain EXCEPT ![d] = new]
    BY <1>15, <2>1, <2>2, <2>3 DEF DrainLine
  <2>5. drain' \in [Drains -> Drain]
    BY <2>4, DrainTyped
  <2>6. files' \subseteq Nat
    BY <1>15 DEF DrainLine, Meta, CheckpointTyped
  <2> QED
    BY <1>15, <2>5, <2>6 DEF DrainLine, CheckpointTyped, history
<1>16. ASSUME NEW d \in Drains, StorePage(d) PROVE CheckpointTyped'
  <2>1. PastLine(d) \in Drain /\ NextLine(d) \in Lines
    BY <1>16, PastLineTyped DEF StorePage, DrainInv
  <2>2. drain' \in [Drains -> Drain]
    BY <1>16, <2>1, DrainTyped DEF StorePage
  <2>3. files' \subseteq Nat
    BY <1>16, <2>1 DEF StorePage, Lines, CheckpointTyped
  <2> QED
    BY <1>16, <2>2, <2>3 DEF StorePage, CheckpointTyped, history
<1>17. ASSUME NEW d \in Drains, StoreFails(d) PROVE CheckpointTyped'
  <2>1. PastLine(d) \in Drain
    BY <1>17, PastLineTyped DEF StoreFails
  <2>2. [PastLine(d) EXCEPT !.stores = FALSE] \in Drain
    BY <2>1 DEF Drain
  <2>3. drain' \in [Drains -> Drain]
    BY <1>17, <2>2, DrainTyped DEF StoreFails
  <2> QED
    BY <1>17, <2>3 DEF StoreFails, CheckpointTyped
<1>18. ASSUME NEW d \in Drains, EndDrain(d) PROVE CheckpointTyped'
  <2>1. drain[d].payload \in Endings \cup {None}
    BY DEF CheckpointTyped, Drain
  <2>2. [NoDrain EXCEPT !.payload = IF call.on = d THEN drain[d].payload ELSE None] \in Drain
    BY <2>1, <1>a DEF Drain
  <2>3. drain' \in [Drains -> Drain]
    BY <1>18, <2>2, DrainTyped DEF EndDrain
  <2> QED
    BY <1>18, <2>3 DEF EndDrain, CheckpointTyped, history
<1>19. CASE UNCHANGED vars
  BY <1>19 DEF vars, CheckpointTyped
<1> QED
  BY <1>1, <1>2, <1>3, <1>4, <1>5, <1>6, <1>7, <1>8, <1>9, <1>10, <1>11, <1>12, <1>13, <1>14,
     <1>15, <1>16, <1>17, <1>18, <1>19 DEF Next, CallStep, DrainStep

-----------------------------------------------------------------------------
(* The drains and the call.                                                *)

LEMMA DrainInvStep ==
  ASSUME CheckpointTyped, DrainInv, [Next]_vars
  PROVE  DrainInv'
<1> DEFINE Fits(x) == (x.stores => x.state # "over") /\ (x.state = "page" => x.lines # <<>>)
<1>a. ASSUME NEW e \in Drains, NEW new, Fits(new), drain' = [drain EXCEPT ![e] = new]
      PROVE  DrainInv'
  BY <1>a DEF DrainInv, CheckpointTyped
<1>b. ASSUME NEW x \in Lines, worker.on # None, Write(x)
      PROVE  DrainInv'
  <2>1. worker.on \in Drains /\ drain[worker.on] \in Drain
    BY <1>b DEF CheckpointTyped
  <2>2. Append(drain[worker.on].lines, x) # <<>>
    BY <2>1, AppendedLines DEF Drain
  <2>3. drain' = [drain EXCEPT ![worker.on] =
                    [drain[worker.on] EXCEPT !.lines = Append(drain[worker.on].lines, x)]]
    BY <1>b DEF Write
  <2>4. Fits(drain[worker.on])
    BY <2>1 DEF DrainInv
  <2>5. Fits([drain[worker.on] EXCEPT !.lines = Append(drain[worker.on].lines, x)])
    BY <2>1, <2>2, <2>4 DEF Drain
  <2> HIDE DEF Fits
  <2> QED
    BY <2>1, <2>3, <2>5, <1>a
<1>c. \A k \in {"required", "page", "resumed", "document", "timeout", "failed"}, n \in Nat :
        Line(k, n) \in Lines
  BY DEF Line, Lines
<1>d. Fits(NoDrain)
  BY DEF NoDrain
<1>1. CASE UNCHANGED drain
  BY <1>1 DEF DrainInv
<1>2. CASE Spawn
  <2>1. PICK d \in Drains : drain' = [drain EXCEPT ![d] =
               [NoDrain EXCEPT !.state = "read", !.lines = <<Line("required", Meta)>>, !.stores = TRUE]]
    BY <1>2 DEF Spawn
  <2>2. Fits([NoDrain EXCEPT !.state = "read", !.lines = <<Line("required", Meta)>>, !.stores = TRUE])
    BY DEF NoDrain
  <2> HIDE DEF Fits
  <2> QED
    BY <2>1, <2>2, <1>a
<1>3. CASE ReplayPage \/ ComputePage
  <2>1. worker.next \in Nat /\ worker.on # None
    BY <1>3 DEF ReplayPage, ComputePage, Working, CheckpointTyped
  <2>2. Write(Line("resumed", worker.next)) \/ Write(Line("page", worker.next))
    BY <1>3 DEF ReplayPage, ComputePage
  <2> QED
    BY <2>1, <2>2, <1>b, <1>c
<1>4. CASE RunOut \/ FinishPages \/ WorkerFails
  <2>1. worker.on # None
    BY <1>4 DEF RunOut, FinishPages, WorkerFails, Working
  <2>2. \/ \E k \in {"timeout", "document", "failed"} : Write(Line(k, Meta))
        \/ UNCHANGED drain
    BY <1>4 DEF RunOut, FinishPages, WorkerFails
  <2>3. \A k \in {"timeout", "document", "failed"} : Line(k, Meta) \in Lines
    BY <1>c DEF Meta
  <2> QED
    BY <2>1, <2>2, <2>3, <1>1, <1>b
<1>5. CASE Collect \/ Overflow
  <2>1. call.on \in Drains
    BY <1>5 DEF Collect, Overflow, CheckpointTyped
  <2>2. UNCHANGED drain \/ drain' = [drain EXCEPT ![call.on] = NoDrain]
    BY <1>5 DEF Collect, Overflow
  <2> HIDE DEF Fits
  <2> QED
    BY <2>1, <2>2, <1>1, <1>a, <1>d
<1>6. CASE Stop
  <2>1. \A d \in Drains : drain'[d] = NoDrain
    BY <1>6 DEF Stop
  <2> QED
    BY <2>1, <1>d DEF DrainInv
<1>7. ASSUME NEW d \in Drains, DrainLine(d) PROVE DrainInv'
  <2>1. drain[d] \in Drain /\ Fits(drain[d]) /\ drain[d].lines # <<>> /\ drain[d].state = "read"
    BY <1>7 DEF DrainLine, DrainInv, CheckpointTyped
  <2>2. Fits(PastLine(d))
    BY <2>1 DEF PastLine, Drain
  <2>3. Fits([drain[d] EXCEPT !.state = "page"])
    BY <2>1 DEF Drain
  <2>4. PastLine(d) \in Drain
    BY <2>1, PastLineTyped
  <2>5. Fits([PastLine(d) EXCEPT !.payload = NextLine(d).kind])
    BY <2>2, <2>4 DEF Drain
  <2>6. \E new : Fits(new) /\ drain' = [drain EXCEPT ![d] = new]
    BY <1>7, <2>2, <2>3, <2>5 DEF DrainLine
  <2> HIDE DEF Fits
  <2> QED
    BY <2>6, <1>a
<1>8. ASSUME NEW d \in Drains, StorePage(d) \/ StoreFails(d) PROVE DrainInv'
  <2>1. drain[d] \in Drain /\ drain[d].lines # <<>>
    BY <1>8 DEF StorePage, StoreFails, DrainInv, CheckpointTyped
  <2>2. PastLine(d) \in Drain /\ Fits(PastLine(d))
    BY <2>1, PastLineTyped DEF PastLine, Drain
  <2>3. Fits([PastLine(d) EXCEPT !.stores = FALSE])
    BY <2>2 DEF Drain
  <2>4. \E new : Fits(new) /\ drain' = [drain EXCEPT ![d] = new]
    BY <1>8, <2>2, <2>3 DEF StorePage, StoreFails
  <2> HIDE DEF Fits
  <2> QED
    BY <2>4, <1>a
<1>9. ASSUME NEW d \in Drains, EndDrain(d) PROVE DrainInv'
  <2>1. PICK payload : drain' = [drain EXCEPT ![d] = [NoDrain EXCEPT !.payload = payload]]
    BY <1>9 DEF EndDrain
  <2>2. Fits([NoDrain EXCEPT !.payload = payload])
    BY DEF NoDrain
  <2> HIDE DEF Fits
  <2> QED
    BY <2>1, <2>2, <1>a
<1>10. CASE \/ Ask \/ TakePermit \/ AwaitDrain \/ LoadMeta \/ LoadPages \/ StartRemoval \/ Answer
            \/ Drop \/ DropElsewhere \/ RemoveFile \/ CleanupConfirmed \/ CleanupUnconfirmed
            \/ UNCHANGED vars
  <2>1. UNCHANGED drain
    BY <1>10 DEF Ask, TakePermit, AwaitDrain, LoadMeta, LoadPages, StartRemoval, Answer, Drop,
       DropElsewhere, DropCall, RemoveFile, CleanupConfirmed, CleanupUnconfirmed, vars
  <2> QED
    BY <2>1, <1>1
<1> QED
  BY <1>2, <1>3, <1>4, <1>5, <1>6, <1>7, <1>8, <1>9, <1>10 DEF Next, CallStep, DrainStep

LEMMA CallInvStep ==
  ASSUME CheckpointTyped, CallInv, [Next]_vars
  PROVE  CallInv'
<1>1. CASE Ask
  BY <1>1 DEF Ask, CallInv, Idle
<1>2. CASE TakePermit
  BY <1>2 DEF TakePermit, CallInv, CheckpointTyped
<1>3. CASE AwaitDrain
  BY <1>3 DEF AwaitDrain, CallInv, CheckpointTyped
<1>4. CASE LoadMeta
  BY <1>4 DEF LoadMeta, CallInv, CheckpointTyped
<1>5. CASE LoadPages
  BY <1>5 DEF LoadPages, CallInv, CheckpointTyped
<1>6. CASE Spawn
  <2>1. PICK d \in Drains :
          /\ call' = [call EXCEPT !.on = d, !.resume = {}]
          /\ slot' = d
          /\ worker' = [NoWorker EXCEPT !.on = d, !.resume = call.resume]
    BY <1>6 DEF Spawn
  <2>2. call'.at = "run" /\ call'.on = d /\ call'.pending = None /\ worker'.on = d
    BY <1>6, <2>1 DEF Spawn, CallInv, CheckpointTyped, NoWorker
  <2> QED
    BY <2>1, <2>2, CheckpointAssumption DEF CallInv
<1>7. CASE ReplayPage \/ ComputePage
  BY <1>7 DEF ReplayPage, ComputePage, CallInv, CheckpointTyped
<1>8. CASE RunOut \/ FinishPages \/ WorkerFails
  BY <1>8 DEF RunOut, FinishPages, WorkerFails, CallInv, NoWorker
<1>9. CASE Collect \/ Overflow
  <2>1. \E got : Judge(got)
    <3>1. CASE Collect
      BY <3>1 DEF Collect
    <3>2. CASE Overflow
      BY <3>2 DEF Overflow
    <3> QED
      BY <1>9, <3>1, <3>2
  <2>2. call' = Idle \/ (call'.at = "remove" /\ call'.pending = call.pending)
    BY <2>1 DEF Judge, CheckpointTyped
  <2>3. call.at = "run" /\ UNCHANGED <<slot, worker>> /\ (call' = Idle => worker.on = None)
    <3>1. CASE Collect
      BY <3>1 DEF Collect
    <3>2. CASE Overflow
      BY <3>2 DEF Overflow, Judge, Idle, CheckpointTyped
    <3> QED
      BY <1>9, <3>1, <3>2
  <2> QED
    BY <2>2, <2>3 DEF CallInv, Idle
<1>10. CASE StartRemoval
  BY <1>10 DEF StartRemoval, CallInv, CheckpointTyped
<1>11. CASE Answer
  BY <1>11 DEF Answer, DropWorker, CallInv, Idle, NoWorker
<1>12. CASE Drop \/ DropElsewhere
  BY <1>12 DEF Drop, DropElsewhere, DropCall, DropWorker, CallInv, Idle, NoWorker
<1>13. CASE Stop
  BY <1>13 DEF Stop, CallInv, Idle, NoWorker
<1>14. ASSUME NEW d \in Drains, EndDrain(d) PROVE CallInv'
  BY <1>14 DEF EndDrain, CallInv
<1>15. ASSUME NEW d \in Drains, DrainLine(d) \/ StorePage(d) \/ StoreFails(d) PROVE CallInv'
  BY <1>15 DEF DrainLine, StorePage, StoreFails, CallInv
<1>16. CASE RemoveFile \/ CleanupConfirmed \/ CleanupUnconfirmed \/ UNCHANGED vars
  BY <1>16 DEF RemoveFile, CleanupConfirmed, CleanupUnconfirmed, vars, CallInv
<1> QED
  BY <1>1, <1>2, <1>3, <1>4, <1>5, <1>6, <1>7, <1>8, <1>9, <1>10, <1>11, <1>12, <1>13, <1>14,
     <1>15, <1>16 DEF Next, CallStep, DrainStep

-----------------------------------------------------------------------------
(* What a drain has yet to store.                                          *)

\* A line written behind the others leaves them where they are.
LEMMA WrittenBehind ==
  ASSUME CheckpointTyped, worker.on # None, NEW x \in Lines, Write(x), UNCHANGED files,
         NEW d \in Drains, NEW p, ToStore(d, p)
  PROVE  ToStore(d, p)'
<1>1. drain[d] \in Drain /\ worker.on \in Drains
  BY DEF CheckpointTyped
<1>2. drain' = [drain EXCEPT ![worker.on] =
                  [drain[worker.on] EXCEPT !.lines = Append(drain[worker.on].lines, x)]]
  BY DEF Write
<1>3. drain'[d].stores = drain[d].stores /\ drain'[d].state = drain[d].state
  BY <1>1, <1>2 DEF CheckpointTyped, Drain
<1>4. drain'[d].lines = drain[d].lines \/ drain'[d].lines = Append(drain[d].lines, x)
  BY <1>1, <1>2 DEF CheckpointTyped, Drain
<1>5. \A i \in DOMAIN drain[d].lines :
        i \in DOMAIN drain'[d].lines /\ drain'[d].lines[i] = drain[d].lines[i]
  BY <1>1, <1>4, AppendedLines DEF Drain
<1> QED
  BY <1>3, <1>5 DEF ToStore

\* The first line goes: what was to be stored is to be stored, but for that line.
LEMMA ReadPast ==
  ASSUME CheckpointTyped, NEW d \in Drains, drain[d].lines # <<>>, NEW p, ToStore(d, p),
         NEW new \in Drain, drain' = [drain EXCEPT ![d] = new], new.state = "read",
         new.stores = drain[d].stores, new.lines = Tail(drain[d].lines)
  PROVE  ToStore(d, p)' \/ (NextLine(d) = Line("page", p) /\ (drain[d].state = "page" => Meta \in files))
<1>1. drain[d] \in Drain /\ drain'[d] = new
  BY DEF CheckpointTyped
<1>2. PICK i \in DOMAIN drain[d].lines :
        /\ drain[d].lines[i] = Line("page", p)
        /\ i = 1 /\ drain[d].state = "page" => Meta \in files
  BY DEF ToStore
<1>3. CASE i = 1
  BY <1>1, <1>2, <1>3, RemainingLines DEF NextLine, Drain
<1>4. CASE i # 1
  <2>1. i - 1 \in DOMAIN drain'[d].lines /\ drain'[d].lines[i - 1] = Line("page", p)
    BY <1>1, <1>2, <1>4, RemainingLines DEF Drain
  <2> QED
    BY <1>1, <2>1 DEF ToStore
<1> QED
  BY <1>3, <1>4

LEMMA SameDrain ==
  ASSUME NEW d \in Drains, NEW p, ToStore(d, p), drain'[d] = drain[d], files \subseteq files'
  PROVE  ToStore(d, p)'
BY DEF ToStore

\* A page stays safe if each drain that had it to store still has, or has stored it.
LEMMA SafeStays ==
  ASSUME CheckpointTyped, NEW p, Safe(p), files \subseteq files',
         \A e \in Drains \cap {slot, call.pending} :
           ToStore(e, p) => \/ Meta \in files' /\ p \in files'
                            \/ e \in {slot', call'.pending} /\ ToStore(e, p)'
  PROVE  Safe(p)'
BY DEF Safe

-----------------------------------------------------------------------------
(* The pages that are kept.                                                *)

\* Nothing is in a drain, and no call that runs or asks has a drain to wait for.
LEMMA InTheFiles ==
  ASSUME CheckpointTyped, CheckpointInv, NEW p \in kept,
         \A d \in Drains \cap {slot, call.pending} : ~drain[d].stores
  PROVE  Meta \in files /\ p \in files
BY DEF CheckpointInv, KeptInv, Safe, ToStore

LEMMA PagesOfTheWorker ==
  ASSUME CheckpointTyped, CheckpointInv, ReplayPage \/ ComputePage
  PROVE  KeptInv'
<1>1. /\ worker.on \in Drains /\ worker.on # None /\ worker.next \in Nat /\ drain[worker.on] \in Drain
      /\ UNCHANGED <<files, call, slot, doomed>>
  BY CheckpointAssumption DEF ReplayPage, ComputePage, Working, CheckpointTyped, history
<1>2. /\ worker'.on = worker.on /\ worker'.resume = worker.resume /\ worker'.next = worker.next + 1
  BY <1>1 DEF ReplayPage, ComputePage, CheckpointTyped
<1>3. \A k \in {"page", "resumed"} : Line(k, worker.next) \in Lines
  BY <1>1 DEF Line, Lines
<1>4. PICK k \in {"page", "resumed"} : Write(Line(k, worker.next)) /\ (ComputePage => k = "page")
  BY DEF ReplayPage, ComputePage
<1>5. ASSUME NEW p \in kept
      PROVE  /\ Safe(p)'
             /\ call'.at = "run" /\ call'.on = None => p \in call'.resume
             /\ worker'.on # None => p \in worker'.resume \/ p < worker'.next
  <2>1. Safe(p)
    BY <1>5 DEF CheckpointInv, KeptInv
  <2>2. \A e \in Drains : ToStore(e, p) => ToStore(e, p)'
    BY <1>1, <1>3, <1>4, WrittenBehind
  <2>3. Safe(p)'
    BY <2>1, <2>2, <1>1, SafeStays
  <2>4. p \in Nat
    BY DEF CheckpointTyped, Required
  <2> QED
    BY <1>1, <1>2, <2>3, <2>4 DEF CheckpointInv, KeptInv
<1>6. CASE kept' = kept
  BY <1>1, <1>5, <1>6 DEF CheckpointInv, KeptInv
<1>7. CASE kept' # kept
  <2>1. PICK d \in Drains, n \in Nat : d = worker.on /\ n = worker.next
    BY <1>1
  <2>2. /\ kept' = kept \cup {n} /\ drain[d].stores /\ call.at = "run" /\ doomed = {}
        /\ Write(Line("page", n))
    BY <1>4, <1>7, <2>1 DEF ReplayPage, ComputePage, history
  <2>3. slot = d /\ call.on # None
    BY <1>1, <2>1, <2>2 DEF CheckpointInv, CallInv
  <2>4. drain[d] \in Drain /\ Line("page", n) \in Lines
    BY <1>1, <1>3, <2>1
  <2>5. /\ drain'[d].lines = Append(drain[d].lines, Line("page", n))
        /\ drain'[d].stores /\ drain'[d].state = drain[d].state
    BY <2>1, <2>2, <2>4 DEF Write, CheckpointTyped
  <2>6. ToStore(d, n)'
    <3>1. /\ Len(drain[d].lines) + 1 \in DOMAIN drain'[d].lines
          /\ drain'[d].lines[Len(drain[d].lines) + 1] = Line("page", n)
      BY <2>4, <2>5, AppendedLines DEF Drain
    <3>2. drain[d].state = "page" => Len(drain[d].lines) + 1 # 1
      BY <2>4 DEF CheckpointInv, DrainInv, Drain
    <3> QED
      BY <2>5, <3>1, <3>2 DEF ToStore
  <2>7. Safe(n)'
    BY <1>1, <2>3, <2>6 DEF Safe
  <2>8. /\ call'.on # None /\ call'.at # "remove" /\ doomed' = {} /\ n < worker'.next
    BY <1>1, <1>2, <2>1, <2>2, <2>3
  <2> QED
    BY <1>5, <2>2, <2>7, <2>8 DEF KeptInv
<1> QED
  BY <1>6, <1>7

\* Every step keeps the pages that are kept safe, or excuses their loss.
LEMMA KeptInvStep ==
  ASSUME CheckpointTyped, CheckpointInv, [Next]_vars
  PROVE  KeptInv'
<1> USE CheckpointAssumption
<1>a. ASSUME NEW p \in kept
      PROVE  /\ Safe(p)
             /\ call.at = "run" /\ call.on = None => p \in call.resume
             /\ worker.on # None => p \in worker.resume \/ p < worker.next
  BY <1>a DEF CheckpointInv, KeptInv
<1>b. ASSUME kept' = {} PROVE KeptInv'
  BY <1>b DEF KeptInv
<1>c. call.at = "remove" \/ doomed # {} => kept = {}
  BY DEF CheckpointInv, KeptInv
<1>1. CASE Ask
  <2>1. /\ UNCHANGED <<files, slot, worker, drain, doomed, kept>> /\ call'.at = "permit"
        /\ call'.pending = None /\ call.pending = None
    BY <1>1 DEF Ask, Idle, history, CheckpointInv, CallInv
  <2>2. \A p \in kept : Safe(p)'
    BY <2>1, <1>a DEF Safe, ToStore
  <2> QED
    BY <2>1, <2>2, <1>a, <1>c DEF KeptInv
<1>2. CASE TakePermit
  <2>1. /\ UNCHANGED <<files, worker, drain, doomed, kept>> /\ call'.at = "await"
        /\ call'.pending = slot /\ call.pending = None
    BY <1>2 DEF TakePermit, history, CheckpointInv, CallInv, CheckpointTyped
  <2>2. \A p \in kept : Safe(p)'
    BY <2>1, <1>a DEF Safe, ToStore
  <2> QED
    BY <2>1, <2>2, <1>a, <1>c DEF KeptInv
<1>3. CASE AwaitDrain
  <2>1. /\ UNCHANGED <<files, slot, worker, drain, doomed, kept>> /\ call'.at = "meta"
    BY <1>3 DEF AwaitDrain, history, CheckpointTyped
  <2>2. slot = None /\ call.pending \notin Running
    BY <1>3 DEF AwaitDrain, CheckpointInv, CallInv
  <2>3. \A d \in Drains \cap {slot, call.pending} : ~drain[d].stores
    BY <2>2 DEF Running, CheckpointInv, DrainInv
  <2>4. \A p \in kept : Safe(p)'
    BY <2>1, <2>3, InTheFiles DEF Safe
  <2> QED
    BY <2>1, <2>4, <1>a, <1>c DEF KeptInv
<1>4. CASE LoadMeta \/ LoadPages
  <2>1. /\ UNCHANGED <<files, slot, worker, drain, doomed, kept>>
        /\ slot = None /\ call.pending = None /\ call'.at # "remove"
    BY <1>4 DEF LoadMeta, LoadPages, history, CheckpointInv, CallInv, CheckpointTyped
  <2>2. \A p \in kept : Meta \in files /\ p \in files
    BY <2>1, InTheFiles
  <2>3. \A p \in kept : Safe(p)'
    BY <2>1, <2>2 DEF Safe
  <2>4. ASSUME NEW p \in kept, call'.at = "run" PROVE p \in call'.resume
    <3>1. CASE LoadMeta
      BY <3>1, <2>2, <2>4 DEF LoadMeta, CheckpointTyped
    <3>2. CASE LoadPages
      <4>1. p # Meta
        BY DEF CheckpointTyped, Required, Meta
      <4> QED
        BY <3>2, <4>1, <2>2 DEF LoadPages, CheckpointTyped
    <3> QED
      BY <1>4, <3>1, <3>2
  <2> QED
    BY <2>1, <2>3, <2>4, <1>a, <1>c DEF KeptInv
<1>5. CASE Spawn
  <2>1. UNCHANGED <<files, doomed, kept>> /\ call.at = "run" /\ call.on = None
    BY <1>5 DEF Spawn, history
  <2>2. call'.at = "run" /\ call'.on # None /\ worker'.resume = call.resume
    BY <1>5 DEF Spawn, CheckpointTyped, NoWorker
  <2>3. slot = None /\ call.pending = None
    BY <2>1 DEF CheckpointInv, CallInv
  <2>4. \A p \in kept : Safe(p)'
    BY <2>1, <2>3, InTheFiles DEF Safe
  <2> QED
    BY <2>1, <2>2, <2>4, <1>a, <1>c DEF KeptInv
<1>6. CASE ReplayPage \/ ComputePage
  BY <1>6, PagesOfTheWorker
<1>7. CASE RunOut \/ FinishPages \/ WorkerFails
  <2>1. worker.on # None /\ worker'.on = None /\ UNCHANGED <<files, call, slot, doomed, kept>>
    BY <1>7 DEF RunOut, FinishPages, WorkerFails, Working, NoWorker, history
  <2>2. \/ \E k \in {"timeout", "document", "failed"} : Write(Line(k, Meta))
        \/ UNCHANGED drain
    BY <1>7 DEF RunOut, FinishPages, WorkerFails
  <2>3. \A k \in {"timeout", "document", "failed"} : Line(k, Meta) \in Lines
    BY DEF Line, Lines, Meta
  <2>4. \A e \in Drains, p \in kept : ToStore(e, p) => ToStore(e, p)'
    BY <2>1, <2>2, <2>3, WrittenBehind, SameDrain
  <2>5. \A p \in kept : Safe(p)'
    BY <2>1, <2>4, <1>a, SafeStays
  <2> QED
    BY <2>1, <2>5, <1>a, <1>c DEF KeptInv
<1>8. CASE Collect
  <2>1. /\ call.at = "run" /\ call.on \in Drains /\ drain[call.on].state = "over" /\ worker.on = None
        /\ UNCHANGED <<files, slot, worker, doomed>>
        /\ drain' = [drain EXCEPT ![call.on] = NoDrain]
    BY <1>8 DEF Collect, CheckpointTyped
  <2>2. \E got : Judge(got)
    BY <1>8 DEF Collect
  <2>3. kept' = {} \/ (call' = Idle /\ kept' = kept)
    BY <2>2 DEF Judge
  <2>4. ~drain[call.on].stores /\ call.pending = None
    BY <2>1 DEF CheckpointInv, DrainInv, CallInv
  <2>5. \A e \in Drains, p \in kept : ToStore(e, p) => e # call.on /\ drain'[e] = drain[e]
    BY <2>1, <2>4 DEF ToStore, CheckpointTyped
  <2>6. \A e \in Drains, p \in kept : ToStore(e, p) => ToStore(e, p)'
    BY <2>1, <2>5, SameDrain
  <2>7. \A p \in kept : Safe(p)'
    BY <2>1, <2>4, <2>6, <1>a, SafeStays
  <2>8. Idle.at = "idle"
    BY DEF Idle
  <2> QED
    BY <2>1, <2>3, <2>7, <2>8, <1>b, <1>c DEF KeptInv
<1>9. CASE Overflow
  BY <1>9, <1>b DEF Overflow, Judge
<1>10. CASE StartRemoval \/ RemoveFile \/ Answer
  <2>1. kept = {} /\ kept' = kept
    BY <1>10, <1>c DEF StartRemoval, RemoveFile, Answer, history
  <2> QED
    BY <2>1, <1>b
<1>11. CASE Drop \/ DropElsewhere
  <2>1. DropCall
    BY <1>11 DEF Drop, DropElsewhere
  <2>2. UNCHANGED <<files, slot, drain, doomed>> /\ call' = Idle /\ Idle.at = "idle" /\ Idle.pending = None
    BY <2>1 DEF DropCall, Idle
  <2>3. worker' = worker \/ worker'.on = None
    BY <2>1 DEF DropCall, DropWorker, NoWorker
  <2>4. CASE kept' = kept
    <3>1. call.pending = None \/ call.pending \notin Running \/ kept = {}
      BY <2>1, <2>4 DEF DropCall, CheckpointInv, CallInv
    <3>2. \A p \in kept : ToStore(call.pending, p) /\ call.pending \in Drains => call.pending \in Running
      BY DEF ToStore, Running, CheckpointInv, DrainInv
    <3>3. \A p \in kept, e \in Drains \cap {slot, call.pending} : ToStore(e, p) => e = slot /\ ToStore(e, p)'
      BY <2>2, <3>1, <3>2, SameDrain
    <3>4. \A p \in kept : Safe(p)'
      BY <2>2, <3>3, <1>a, SafeStays
    <3> QED
      BY <2>2, <2>3, <2>4, <3>4, <1>a, <1>c DEF KeptInv
  <2> QED
    BY <2>1, <2>4, <1>b DEF DropCall
<1>12. CASE Stop
  <2>1. /\ files' = files /\ call'.at = "idle" /\ worker'.on = None /\ doomed' = {}
        /\ \A p \in kept' : Meta \in files /\ p \in files
    BY <1>12 DEF Stop, Idle, NoWorker
  <2> QED
    BY <2>1 DEF KeptInv, Safe
<1>13. CASE CleanupConfirmed \/ CleanupUnconfirmed \/ UNCHANGED vars
  <2>1. UNCHANGED <<files, call, slot, worker, drain, doomed, kept>>
    BY <1>13 DEF CleanupConfirmed, CleanupUnconfirmed, vars, history
  <2> QED
    BY <2>1, <1>a, <1>c DEF KeptInv, Safe, ToStore
<1>14. ASSUME NEW d \in Drains, DrainLine(d) PROVE KeptInv'
  <2>1. /\ UNCHANGED <<call, slot, worker, doomed, kept>> /\ files \subseteq files'
        /\ drain[d].lines # <<>> /\ drain[d].state = "read" /\ drain[d] \in Drain
    BY <1>14 DEF DrainLine, history, CheckpointTyped
  <2>2. \A e \in Drains, p \in kept : e # d /\ ToStore(e, p) => ToStore(e, p)'
    BY <1>14, <2>1, SameDrain DEF DrainLine, CheckpointTyped
  <2>3. ASSUME NEW p \in kept, ToStore(d, p) PROVE ToStore(d, p)'
    <3>1. drain[d].stores /\ NextLine(d) \in Lines /\ PastLine(d) \in Drain
      BY <2>1, <2>3, PastLineTyped DEF ToStore
    <3>2. CASE NextLine(d).kind = "page"
      <4>1. Meta \in files' /\ drain' = [drain EXCEPT ![d] = [drain[d] EXCEPT !.state = "page"]]
        BY <1>14, <3>1, <3>2 DEF DrainLine
      <4>2. drain'[d].lines = drain[d].lines /\ drain'[d].stores
        BY <2>1, <3>1, <4>1 DEF CheckpointTyped, Drain
      <4> QED
        BY <2>3, <4>1, <4>2 DEF ToStore
    <3>3. CASE NextLine(d).kind # "page"
      <4>1. PICK new \in Drain : /\ drain' = [drain EXCEPT ![d] = new]
                                 /\ new.state = "read" /\ new.stores = drain[d].stores
                                 /\ new.lines = Tail(drain[d].lines)
        <5>1. /\ PastLine(d).state = "read" /\ PastLine(d).stores = drain[d].stores
              /\ PastLine(d).lines = Tail(drain[d].lines)
          BY <2>1 DEF PastLine, Drain
        <5>2. CASE drain' = [drain EXCEPT ![d] = PastLine(d)]
          BY <5>1, <5>2, <3>1
        <5>3. CASE /\ NextLine(d).kind \in Endings
                   /\ drain' = [drain EXCEPT ![d] = [PastLine(d) EXCEPT !.payload = NextLine(d).kind]]
          <6>1. [PastLine(d) EXCEPT !.payload = NextLine(d).kind] \in Drain
            BY <3>1, <5>3 DEF Drain
          <6> QED
            BY <5>1, <5>3, <6>1, <3>1 DEF Drain
        <5> QED
          BY <1>14, <3>3, <5>2, <5>3 DEF DrainLine
      <4>2. NextLine(d) # Line("page", p)
        BY <3>3 DEF Line
      <4> QED
        BY <2>1, <2>3, <4>1, <4>2, ReadPast
    <3> QED
      BY <3>2, <3>3
  <2>4. \A p \in kept : Safe(p)'
    BY <2>1, <2>2, <2>3, <1>a, SafeStays
  <2> QED
    BY <2>1, <2>4, <1>a, <1>c DEF KeptInv
<1>15. ASSUME NEW d \in Drains, StorePage(d) PROVE KeptInv'
  <2>1. /\ UNCHANGED <<call, slot, worker, doomed, kept>> /\ files' = files \cup {NextLine(d).page}
        /\ drain[d].state = "page" /\ drain[d].lines # <<>> /\ drain[d] \in Drain
        /\ drain' = [drain EXCEPT ![d] = PastLine(d)]
    BY <1>15 DEF StorePage, history, CheckpointTyped, CheckpointInv, DrainInv
  <2>2. \A e \in Drains, p \in kept : e # d /\ ToStore(e, p) => ToStore(e, p)'
    BY <2>1, SameDrain DEF CheckpointTyped
  <2>3. ASSUME NEW p \in kept, ToStore(d, p) PROVE ToStore(d, p)' \/ (Meta \in files' /\ p \in files')
    <3>1. PastLine(d) \in Drain
      BY <2>1, PastLineTyped
    <3>2. /\ PastLine(d).state = "read" /\ PastLine(d).stores = drain[d].stores
          /\ PastLine(d).lines = Tail(drain[d].lines)
      BY <2>1 DEF PastLine, Drain
    <3>3. ToStore(d, p)' \/ (NextLine(d) = Line("page", p) /\ Meta \in files)
      BY <2>1, <2>3, <3>1, <3>2, ReadPast
    <3>4. NextLine(d) = Line("page", p) => p \in files'
      BY <2>1 DEF Line
    <3> QED
      BY <2>1, <3>3, <3>4
  <2>4. \A p \in kept : Safe(p)'
    BY <2>1, <2>2, <2>3, <1>a, SafeStays
  <2> QED
    BY <2>1, <2>4, <1>a, <1>c DEF KeptInv
<1>16. ASSUME NEW d \in Drains, StoreFails(d) PROVE KeptInv'
  <2>1. /\ UNCHANGED <<files, call, slot, worker, doomed>>
        /\ kept' = kept \ {drain[d].lines[i].page : i \in DOMAIN drain[d].lines}
        /\ \A e \in Drains \ {d} : drain'[e] = drain[e]
    BY <1>16 DEF StoreFails, CheckpointTyped
  <2>2. \A p \in kept' : ~ToStore(d, p)
    BY <2>1 DEF ToStore, Line
  <2>3. \A p \in kept', e \in Drains : ToStore(e, p) => ToStore(e, p)'
    BY <2>1, <2>2, SameDrain
  <2>4. \A p \in kept' : Safe(p)'
    BY <2>1, <2>3, <1>a, SafeStays
  <2> QED
    BY <2>1, <2>4, <1>a, <1>c DEF KeptInv
<1>17. ASSUME NEW d \in Drains, EndDrain(d) PROVE KeptInv'
  <2>1. /\ UNCHANGED <<files, call, worker, doomed, kept>> /\ (slot # d => slot' = slot)
        /\ drain[d].lines = <<>> /\ \A e \in Drains \ {d} : drain'[e] = drain[e]
    BY <1>17 DEF EndDrain, history, CheckpointTyped
  <2>2. \A p \in kept : ~ToStore(d, p)
    BY <2>1 DEF ToStore
  <2>3. \A p \in kept, e \in Drains : ToStore(e, p) => e # d /\ ToStore(e, p)'
    BY <2>1, <2>2, SameDrain
  <2>4. \A p \in kept : Safe(p)'
    BY <2>1, <2>3, <1>a, SafeStays
  <2> QED
    BY <2>1, <2>4, <1>a, <1>c DEF KeptInv
<1> QED
  BY <1>1, <1>2, <1>3, <1>4, <1>5, <1>6, <1>7, <1>8, <1>9, <1>10, <1>11, <1>12, <1>13, <1>14,
     <1>15, <1>16, <1>17 DEF Next, CallStep, DrainStep

-----------------------------------------------------------------------------

\* A worker computes the page it is at, and that page is not one that is kept.
LEMMA NothingRedoneStep ==
  ASSUME CheckpointTyped, CheckpointInv, NoPageRedone, [Next]_vars
  PROVE  NoPageRedone'
<1>1. CASE ComputePage
  <2>1. worker.next \in Nat /\ worker.on # None /\ worker.next \notin worker.resume
    BY <1>1 DEF ComputePage, Working, CheckpointTyped
  <2>2. ~(worker.next < worker.next)
    BY <2>1
  <2>3. worker.next \notin kept
    BY <2>1, <2>2 DEF CheckpointInv, KeptInv
  <2> QED
    BY <1>1, <2>3 DEF ComputePage, NoPageRedone
<1>2. CASE ~ComputePage
  <2>1. redone' = redone
    BY <1>2 DEF Next, CallStep, DrainStep, Ask, TakePermit, AwaitDrain, LoadMeta, LoadPages, Spawn,
       StartRemoval, Answer, Collect, Drop, DropElsewhere, DropCall, ReplayPage, FinishPages, RunOut,
       WorkerFails, Overflow, RemoveFile, CleanupConfirmed, CleanupUnconfirmed, Stop, DrainLine,
       StorePage, EndDrain, StoreFails, history, vars
  <2> QED
    BY <2>1 DEF NoPageRedone
<1> QED
  BY <1>1, <1>2

\* However calls are dropped and take up where the last one was, with any number of pages and of
\* drains, workers that fail, stores that fail and restarts: a worker computes a page again only
\* where a fault lost it, a definitive end discarded it, or the call that awaited its drain was
\* dropped as well.
THEOREM ResumeRedoesNothing == Spec => []NoPageRedone
<1>1. Init => CheckpointTyped /\ CheckpointInv /\ NoPageRedone
  BY CheckpointAssumption DEF Init, CheckpointTyped, CheckpointInv, DrainInv, CallInv, KeptInv, Safe,
     NoPageRedone, Idle, NoWorker, NoDrain, Stages, Drain, Lines, Required
<1>2. CheckpointTyped /\ CheckpointInv /\ NoPageRedone /\ [Next]_vars
      => (CheckpointTyped /\ CheckpointInv /\ NoPageRedone)'
  BY CheckpointTypedStep, DrainInvStep, CallInvStep, KeptInvStep, NothingRedoneStep DEF CheckpointInv
<1> QED
  BY <1>1, <1>2, PTL DEF Spec

=============================================================================
