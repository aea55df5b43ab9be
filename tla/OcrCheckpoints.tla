--------------------------- MODULE OcrCheckpoints ---------------------------
(***************************************************************************)
(* How a parse with OCR that outlives its call is taken up again: the page *)
(* checkpoints of LayoutPdfParser, the worker that emits them, and the     *)
(* drain, a detached task that reads the output of a worker and stores the *)
(* pages as they come.                                                     *)
(*                                                                         *)
(* One document: the key of a checkpoint is its source, its runtime and    *)
(* the layout version. One call at a time, as OcrAdmission lets one flight *)
(* past its queue, but what a dropped call leaves behind goes on beside    *)
(* the next: a drain with lines to store, a directory being removed, a     *)
(* worker being stopped.                                                   *)
(*                                                                         *)
(* A call may be dropped wherever it waits, and a server may stop anywhere.*)
(* Files appear whole, by a rename; a directory is removed file by file.   *)
(***************************************************************************)
EXTENDS Naturals, Sequences, FiniteSets

CONSTANTS
  PageCount,  \* the pages the worker has to recognise
  PerCall,    \* the pages one call has time to recognise
  Drains,     \* names of drains
  MaxFaults,  \* bound: how often something fails or the server stops
  None

ASSUME CheckpointAssumption ==
  /\ PageCount \in Nat /\ PerCall \in Nat \ {0}
  /\ IsFiniteSet(Drains)
  /\ MaxFaults \in Nat
  /\ None \notin Drains

VARIABLES
  files,     \* the directory of the key: "meta" and the page numbers
  call,      \* where the call is; what it took from the slot, loaded and got
  slot,      \* LayoutPdfParser::drain, the handle of the last drain
  permit,    \* LayoutPdfParser::permit
  worker,    \* the drain it writes to, the pages it resumes, the next one
  drain,     \* what each drain has yet to read and how far it is
  doomed,    \* the files remove_dir_all has yet to delete
  faults,
  done,      \* auxiliary: the document was parsed
  kept,      \* auxiliary: pages computed that nothing excuses losing
  redone     \* auxiliary: pages computed while they were kept

vars == <<files, call, slot, permit, worker, drain, doomed, faults, done, kept, redone>>
history == <<done, kept, redone>>

Required == 1..PageCount
Meta == 0
Idle == [at |-> "idle", pending |-> None, resume |-> {}, on |-> None, got |-> None]
NoWorker == [on |-> None, resume |-> {}, next |-> 1, computed |-> 0]
NoDrain == [state |-> "over", lines |-> <<>>, stores |-> FALSE, payload |-> None]

\* What a worker writes: the pages it needs, a page computed or resumed, and
\* the payload it ends with.
Line(kind, page) == [kind |-> kind, page |-> page]
Endings == {"document", "timeout", "failed"}

Running == {d \in Drains : drain[d].state # "over"}

Init ==
  /\ files = {} /\ doomed = {} /\ faults = 0
  /\ call = Idle /\ slot = None /\ permit = "free" /\ worker = NoWorker
  /\ drain = [d \in Drains |-> NoDrain]
  /\ done = FALSE /\ kept = {} /\ redone = {}

Fault == faults < MaxFaults /\ faults' = faults + 1

-----------------------------------------------------------------------------
(* The call, until its worker runs.                                        *)

\* A document that was parsed is in the parsed cache.
Ask ==
  /\ call.at = "idle" /\ ~done
  /\ call' = [Idle EXCEPT !.at = "permit"]
  /\ UNCHANGED <<files, slot, permit, worker, drain, doomed, faults, history>>

\* The handle of the last drain goes to the first call after it.
TakePermit ==
  /\ call.at = "permit" /\ permit = "free"
  /\ permit' = "held"
  /\ call' = [call EXCEPT !.at = "await", !.pending = slot]
  /\ slot' = None
  /\ UNCHANGED <<files, worker, drain, doomed, faults, history>>

\* Mutant: the call reads the checkpoint while the drain still stores pages.
AwaitNothing ==
  /\ call.at = "await"
  /\ call' = [call EXCEPT !.at = "meta", !.pending = None]
  /\ UNCHANGED <<files, slot, permit, worker, drain, doomed, faults, history>>

AwaitDrain ==
  /\ call.at = "await" /\ call.pending \notin Running
  /\ call' = [call EXCEPT !.at = "meta", !.pending = None]
  /\ UNCHANGED <<files, slot, permit, worker, drain, doomed, faults, history>>

\* Pages without a meta file are not looked at.
LoadMeta ==
  /\ call.at = "meta"
  /\ call' = [call EXCEPT !.at = IF Meta \in files THEN "load" ELSE "run"]
  /\ UNCHANGED <<files, slot, permit, worker, drain, doomed, faults, history>>

LoadPages ==
  /\ call.at = "load"
  /\ call' = [call EXCEPT !.at = "run", !.resume = files \ {Meta}]
  /\ UNCHANGED <<files, slot, permit, worker, drain, doomed, faults, history>>

\* The drain owns the output of the worker. Bound: as many drains as names.
Spawn ==
  /\ call.at = "run" /\ call.on = None /\ Drains \ Running # {}
  /\ LET d == CHOOSE e \in Drains \ Running : TRUE IN
     /\ call' = [call EXCEPT !.on = d, !.resume = {}]
     /\ slot' = d
     /\ worker' = [NoWorker EXCEPT !.on = d, !.resume = call.resume]
     /\ drain' = [drain EXCEPT ![d] =
          [NoDrain EXCEPT !.state = "read", !.lines = <<Line("required", Meta)>>, !.stores = TRUE]]
  /\ UNCHANGED <<files, permit, doomed, faults, history>>

-----------------------------------------------------------------------------
(* The worker: the pages in order, resumed or computed.                    *)

Write(line) == drain' = [drain EXCEPT ![worker.on].lines = Append(@, line)]
Working == worker.on # None /\ worker.next \in Required

ReplayPage ==
  /\ Working /\ worker.next \in worker.resume
  /\ Write(Line("resumed", worker.next))
  /\ worker' = [worker EXCEPT !.next = @ + 1]
  /\ UNCHANGED <<files, call, slot, permit, doomed, faults, history>>

\* Nothing excuses losing the page if its drain can store it and its call has
\* not failed, with no removal under way.
ComputePage ==
  /\ Working /\ worker.next \notin worker.resume /\ worker.computed < PerCall
  /\ Write(Line("page", worker.next))
  /\ worker' = [worker EXCEPT !.next = @ + 1, !.computed = @ + 1]
  /\ redone' = IF worker.next \in kept THEN redone \cup {worker.next} ELSE redone
  /\ kept' = IF drain[worker.on].stores /\ call.at = "run" /\ doomed = {}
             THEN kept \cup {worker.next} ELSE kept
  /\ UNCHANGED <<files, call, slot, permit, doomed, faults, done>>

\* The soft bound of the invocation or its page limit: the worker stops at a page.
RunOut ==
  /\ Working
  /\ Write(Line("timeout", Meta))
  /\ worker' = NoWorker
  /\ UNCHANGED <<files, call, slot, permit, doomed, faults, history>>

FinishPages ==
  /\ worker.on # None /\ ~Working
  /\ Write(Line("document", Meta))
  /\ worker' = NoWorker
  /\ UNCHANGED <<files, call, slot, permit, doomed, faults, history>>

\* The worker gives up, or its unit ends it, at its deadline or out of memory.
WorkerFails ==
  /\ worker.on # None
  /\ Fault
  /\ Write(Line("failed", Meta)) \/ UNCHANGED drain
  /\ worker' = NoWorker
  /\ UNCHANGED <<files, call, slot, permit, doomed, history>>

-----------------------------------------------------------------------------
(* A drain reads to the end of the output, whether or not its call waits.  *)

NextLine(d) == Head(drain[d].lines)
PastLine(d) == [drain[d] EXCEPT !.state = "read", !.lines = Tail(@)]

\* record_required writes the meta file, put_page the meta file and then the page.
DrainLine(d) ==
  /\ drain[d].state = "read" /\ drain[d].lines # <<>>
  /\ LET writes == drain[d].stores /\ NextLine(d).kind \in {"required", "page"} IN
     /\ files' = IF writes THEN files \cup {Meta} ELSE files
     /\ drain' = [drain EXCEPT ![d] =
          IF writes /\ NextLine(d).kind = "page" THEN [@ EXCEPT !.state = "page"]
          ELSE IF NextLine(d).kind \in Endings THEN [PastLine(d) EXCEPT !.payload = NextLine(d).kind]
          ELSE PastLine(d)]
  /\ UNCHANGED <<call, slot, permit, worker, doomed, faults, history>>

StorePage(d) ==
  /\ drain[d].state = "page"
  /\ files' = files \cup {NextLine(d).page}
  /\ drain' = [drain EXCEPT ![d] = PastLine(d)]
  /\ UNCHANGED <<call, slot, permit, worker, doomed, faults, history>>

\* A write that fails ends the storing of this drain, not the parse.
StoreFails(d) ==
  /\ d \in Running /\ drain[d].lines # <<>> /\ drain[d].stores
  /\ NextLine(d).kind \in {"required", "page"}
  /\ Fault
  /\ drain' = [drain EXCEPT ![d] = [PastLine(d) EXCEPT !.stores = FALSE]]
  /\ kept' = kept \ {drain[d].lines[i].page : i \in DOMAIN drain[d].lines}
  /\ UNCHANGED <<files, call, slot, permit, worker, doomed, done, redone>>

\* The worker is gone and its output read. Nobody reads the payload of a drain
\* without a call, and a handle of one that is over is as good as none.
EndDrain(d) ==
  /\ drain[d].state = "read" /\ drain[d].lines = <<>> /\ worker.on # d
  /\ drain' = [drain EXCEPT ![d] =
       [NoDrain EXCEPT !.payload = IF call.on = d THEN drain[d].payload ELSE None]]
  /\ slot' = IF slot = d THEN None ELSE slot
  /\ UNCHANGED <<files, call, permit, worker, doomed, faults, history>>

-----------------------------------------------------------------------------
(* The end of a call.                                                      *)

\* Only a timeout keeps the pages.
Judge(got) ==
  /\ call' = IF got = "timeout" THEN Idle ELSE [call EXCEPT !.at = "remove", !.got = got]
  /\ kept' = IF got = "timeout" THEN kept ELSE {}

\* Output and worker have ended; the result may yet be refused. A worker that
\* left none says why it ended, or its unit does. The permit is back before the
\* pages are removed; only the unit of a worker that failed is to be stopped.
Collect ==
  /\ call.at = "run" /\ call.on # None /\ drain[call.on].state = "over" /\ worker.on = None
  /\ LET got == drain[call.on].payload IN
     /\ \/ got # None /\ Judge(got) /\ UNCHANGED faults
        \/ got = None /\ (Judge("failed") \/ Judge("timeout")) /\ UNCHANGED faults
        \/ got = "document" /\ Judge("failed") /\ Fault
     /\ permit' = IF got = "document" THEN "free" ELSE "cleanup"
  /\ drain' = [drain EXCEPT ![call.on] = NoDrain]
  /\ UNCHANGED <<files, slot, worker, doomed, done, redone>>

\* Output beyond its limit ends the drain; diagnostics beyond theirs end the
\* call alone. The worker runs on until the call returns.
Overflow ==
  /\ call.at = "run" /\ call.on # None
  /\ Fault
  /\ Judge("failed")
  /\ drain' \in {drain, [drain EXCEPT ![call.on] = NoDrain]}
  /\ UNCHANGED <<files, slot, permit, worker, doomed, done, redone>>

\* remove_dir_all goes on when its call is dropped.
StartRemoval ==
  /\ call.at = "remove" /\ call.on # None /\ doomed = {}
  /\ doomed' = files
  /\ call' = [call EXCEPT !.on = None]
  /\ UNCHANGED <<files, slot, permit, worker, drain, faults, history>>

RemoveFile ==
  /\ \E f \in doomed : files' = files \ {f} /\ doomed' = doomed \ {f}
  /\ UNCHANGED <<call, slot, permit, worker, drain, faults, history>>

\* Mutant: a dropped worker takes the permit with it and nothing stops the unit.
DropWorkerHolding ==
  /\ permit' = permit
  /\ worker' = NoWorker

\* WorkerProcess::drop, where the call still owns its worker.
DropWorker ==
  /\ permit' = IF permit = "held" THEN "cleanup" ELSE permit
  /\ worker' = NoWorker

Answer ==
  /\ call.at = "remove" /\ call.on = None /\ doomed = {}
  /\ done' = (call.got = "document")
  /\ call' = Idle
  /\ DropWorker
  /\ UNCHANGED <<files, slot, drain, doomed, faults, kept, redone>>

\* WorkerProcess::drop and a dropped permit; from the load to the worker the
\* call does not wait. The drain goes on, but a call that was waiting for one
\* loses the handle.
DropCall ==
  /\ call' = Idle
  /\ IF call.at \in {"run", "remove"} THEN DropWorker
     ELSE permit' = (IF call.at = "permit" THEN permit ELSE "free") /\ UNCHANGED worker
  /\ kept' = IF call.at = "await" /\ call.pending \in Running THEN {} ELSE kept
  /\ UNCHANGED <<files, slot, drain, doomed, done, redone>>

\* The deadline of the flight passes or its last caller leaves.
Drop ==
  /\ call.at = "permit" \/ (call.at = "run" /\ worker.on # None)
  /\ DropCall
  /\ UNCHANGED faults

\* Bound: a call that has no worker is dropped as rarely as something fails.
DropElsewhere ==
  /\ call.at \in {"await", "meta", "load", "remove"} \/ (call.on # None /\ worker.on = None)
  /\ Fault
  /\ DropCall

CleanupConfirmed ==
  /\ permit = "cleanup" /\ permit' = "free"
  /\ UNCHANGED <<files, call, slot, worker, drain, doomed, faults, history>>

CleanupUnconfirmed ==
  /\ permit = "cleanup" /\ permit' = "forgotten"
  /\ UNCHANGED <<files, call, slot, worker, drain, doomed, faults, history>>

\* The files stay; the worker dies with the pipe of its owner.
Stop ==
  /\ Fault
  /\ call' = Idle /\ slot' = None /\ permit' = "free" /\ worker' = NoWorker
  /\ drain' = [d \in Drains |-> NoDrain]
  /\ doomed' = {}
  /\ kept' = IF Meta \in files THEN kept \cap files ELSE {}
  /\ UNCHANGED <<files, done, redone>>

-----------------------------------------------------------------------------

CallStep ==
  Ask \/ AwaitDrain \/ LoadMeta \/ LoadPages \/ Spawn \/ StartRemoval \/ Answer
DrainStep(d) == DrainLine(d) \/ StorePage(d) \/ EndDrain(d)

Next ==
  \/ CallStep \/ TakePermit \/ Collect \/ Drop \/ DropElsewhere
  \/ ReplayPage \/ ComputePage \/ FinishPages \/ RunOut \/ WorkerFails \/ Overflow \/ RemoveFile
  \/ CleanupConfirmed \/ CleanupUnconfirmed \/ Stop
  \/ \E d \in Drains : DrainStep(d) \/ StoreFails(d)

Spec == Init /\ [][Next]_vars

\* What goes on without a call ends, and of the calls dropped one after the other
\* some get as far as any step: the deadline is 60 s and the soft bound 50 s, and
\* every step but the recognition of a page is a matter of milliseconds.
FairSpec ==
  /\ Spec
  /\ WF_vars(RemoveFile) /\ WF_vars(CleanupConfirmed \/ CleanupUnconfirmed)
  /\ \A d \in Drains : WF_vars(DrainStep(d))
  /\ WF_vars(CallStep) /\ WF_vars(RunOut)
  /\ SF_vars(TakePermit) /\ SF_vars(Collect)
  /\ \A p \in Required : SF_vars(worker.next = p /\ (ReplayPage \/ ComputePage))
  /\ SF_vars(FinishPages)

-----------------------------------------------------------------------------

\* "awaiting it before resume means every page completed before the kill is
\* visible": a page is computed a second time only when a fault lost it, a
\* definitive end discarded it, or the call that waited for its drain was
\* dropped as well.
NoPageRedone == redone = {}

\* A document with more pages than one call can recognise is parsed in the end,
\* however many calls are dropped or time out, unless a worker could not be
\* stopped.
EventuallyParsed == <>(done \/ permit = "forgotten")
=============================================================================
