--------------------------- MODULE TerminalReconciler ---------------------------
(***************************************************************************)
(* The actor that answers the strategies' questions whether a source order *)
(* is really over (SourceTerminalReconciler, live_runtime.py).  One task,  *)
(* the root, serves every question, in rounds on one event loop: an action *)
(* is what runs between two awaits.  A round reconciles the engine, then   *)
(* hands each strategy a report of its order; a question of a failed round *)
(* is kept until someone asks for a retry.                                 *)
(*                                                                         *)
(* A strategy has at most one question per order in flight                 *)
(* (_source_terminal_inflight) and none while the restart gate is closed;  *)
(* the adapter, the engine and the network answer as they like.            *)
(***************************************************************************)
EXTENDS Naturals, Sequences, SequencesExt

CONSTANTS
    Asked,       \* source orders
    MaxOutages   \* bound: disconnections, and cancellations of the root

VARIABLES
    adapter,     \* the clients: connected, and terminal_reconciliation_required
    actor,       \* the actor, and its root
    inflight,    \* the strategies: orders with a question in flight
    outages

terminalVars == <<adapter, actor, inflight, outages>>

RoundAttempts == 2

\* Only the root's own turns and calls change the actor; the rest of the world stays.
Becomes(a) == actor' = a /\ UNCHANGED <<adapter, inflight, outages>>

-----------------------------------------------------------------------------
(* The root                                                                *)

Done(a) == a.at \in {"none", "cancelled"}

Retried(a) == [a EXCEPT !.requests = @ \o a.failed, !.failed = <<>>]

\* _ensure_root: a root that runs serves the new caller too, with a whole round.
Rooted(a, working) ==
    IF Done(a) THEN [a EXCEPT !.busy = TRUE, !.mass = a.pending \/ ~working, !.at = "created",
                              !.attempt = 1, !.canceling = FALSE, !.observed = adapter.required]
    ELSE [a EXCEPT !.mass = @ \/ ~working]

\* Mutant: a failed round takes its requests with it.
RetainedNothing(a) == [a EXCEPT !.requests = <<>>]

\* _retain_pending
Retained(a) ==
    [a EXCEPT !.requests = <<>>,
              !.observed = IF a.active THEN adapter.required ELSE @,
              !.failed = IF a.active THEN @ \o a.requests ELSE @]

Ended(a) == [a EXCEPT !.busy = FALSE, !.at = "none"]
Failed(a) == Ended(Retained([a EXCEPT !.failure = TRUE]))

Running(at) == actor.at = at /\ ~actor.canceling

\* Awaits of _round; a time-out or an error there ends the attempt.
InRound == {"working", "engine", "report", "called", "popped", "recovery"}

AttemptFails(a) ==
    IF ~adapter.connected \/ a.attempt = RoundAttempts THEN Failed(a)
    ELSE [a EXCEPT !.failure = TRUE, !.at = "backoff"]

AttemptSucceeds(a) ==
    Ended(IF a.failed # <<>> THEN a ELSE [a EXCEPT !.failure = FALSE, !.observed = FALSE])

BeginAttempt ==
    \E at \in {"created", "backoff"} :
        /\ Running(at)
        /\ LET a == [actor EXCEPT !.attempt = IF at = "created" THEN 1 ELSE @ + 1] IN
           Becomes(IF ~adapter.connected THEN Failed(a)
                   ELSE [a EXCEPT !.at = IF a.mass THEN "engine" ELSE "working"])

RoundBreaks ==
    /\ actor.at \in InRound /\ ~actor.canceling
    /\ Becomes(AttemptFails(actor))

\* check_working_orders has returned.
WorkingChecked(changed) ==
    /\ Running("working")
    /\ LET mass == actor.mass \/ changed \/ adapter.required IN
       Becomes(CASE ~adapter.connected -> AttemptFails(actor)
                 [] adapter.connected /\ mass -> [actor EXCEPT !.mass = TRUE, !.at = "engine"]
                 [] adapter.connected /\ ~mass -> AttemptSucceeds(actor))

\* The end of _drain_requests, and of the round: no request is left.
RoundDrained(a, required) ==
    CASE required -> AttemptFails(a)
      [] ~required /\ ~a.pending -> AttemptSucceeds(a)
      [] ~required /\ a.pending ->
            IF a.failed # <<>> THEN AttemptFails(a) ELSE [a EXCEPT !.at = "recovery"]

NextRequest(a, required) ==
    IF a.requests # <<>> THEN [a EXCEPT !.at = "report"] ELSE RoundDrained(a, required)

\* The engine is reconciled, and the adapter confirms as far as its own facts let it.
EngineReconciled ==
    /\ Running("engine")
    /\ \E required \in BOOLEAN :
        /\ required => adapter.required
        /\ adapter' = [adapter EXCEPT !.required = required]
        /\ actor' = IF required THEN AttemptFails(actor) ELSE NextRequest(actor, required)
    /\ UNCHANGED <<inflight, outages>>

\* The oldest request's order is reported, and its strategy called, which may refuse it.
Answer ==
    LET o == Head(actor.requests) IN
    /\ Running("report") \/ Running("called")
    /\ IF actor.waiting[o]
       THEN \/ /\ actor' = [actor EXCEPT !.waiting[o] = FALSE, !.at = "called"]
               /\ inflight' = inflight \ {o} /\ UNCHANGED <<adapter, outages>>
            \/ Becomes(AttemptFails(actor))
       ELSE Becomes([actor EXCEPT !.requests = Tail(@), !.at = "popped"])

Popped == Running("popped") /\ Becomes(NextRequest(actor, adapter.required))

\* The restart recovery has succeeded: the gate opens in the same turn, or not at all.
Recovered ==
    /\ Running("recovery")
    /\ Becomes(IF ~adapter.connected \/ adapter.required THEN AttemptFails(actor)
               ELSE AttemptSucceeds([actor EXCEPT !.pending = FALSE]))

\* The client's tasks are canceled; a root that has not started yet never runs.
CancelRoot ==
    /\ ~Done(actor) /\ ~actor.canceling /\ outages < MaxOutages
    /\ outages' = outages + 1 /\ actor' = [actor EXCEPT !.canceling = TRUE]
    /\ UNCHANGED <<adapter, inflight>>

RootCanceled ==
    /\ actor.canceling /\ ~Done(actor)
    /\ Becomes(IF actor.at = "created" THEN [actor EXCEPT !.at = "cancelled"]
               ELSE Failed([actor EXCEPT !.canceling = FALSE]))

\* _root_finished, when the root was canceled
RootFinished ==
    /\ actor.at = "cancelled" /\ Becomes(Failed([actor EXCEPT !.canceling = FALSE]))

-----------------------------------------------------------------------------
(* Its callers                                                             *)

\* query_source_terminal; a question that failed before is not a new attempt.
Ask(o) ==
    /\ ~actor.pending /\ o \notin inflight
    /\ inflight' = inflight \cup {o} /\ UNCHANGED <<adapter, outages>>
    /\ IF ~actor.active THEN UNCHANGED actor
       ELSE LET a == [actor EXCEPT !.waiting[o] = TRUE] IN
            actor' = IF o \in ToSet(a.failed) THEN a
                     ELSE Rooted([a EXCEPT !.requests = IF o \in ToSet(@) THEN @ ELSE Append(@, o)],
                                 FALSE)

\* _observe: a new episode of the adapter retries what failed, a working order is checked.
Observe(due) ==
    /\ actor.active
    /\ LET episode == adapter.required /\ ~actor.observed
           seen == IF episode THEN Rooted(Retried([actor EXCEPT !.observed = TRUE]), FALSE)
                   ELSE [actor EXCEPT !.observed = @ /\ adapter.required]
       IN  Becomes(IF due /\ ~seen.busy /\ ~seen.failure THEN Rooted(seen, TRUE) ELSE seen)

\* reconcile
Reconcile(retry) ==
    /\ actor.active /\ (retry \/ ~actor.failure \/ ~Done(actor))
    /\ Becomes(Rooted(IF retry THEN Retried(actor) ELSE actor, FALSE))

RequestReconciliation == actor.active /\ ~actor.failure /\ Becomes(Rooted(actor, FALSE))

\* on_stop; a canceled root has no turn in which it could see that it is not active.
Stop ==
    /\ actor.active
    /\ Becomes([actor EXCEPT !.active = FALSE, !.requests = <<>>, !.failed = <<>>,
                             !.canceling = @ \/ ~Done(actor)])

-----------------------------------------------------------------------------
(* The adapter                                                             *)

\* A terminal fact of a working order that only a report can settle.
Requires ==
    /\ ~adapter.required /\ adapter' = [adapter EXCEPT !.required = TRUE]
    /\ UNCHANGED <<actor, inflight, outages>>

Disconnect ==
    /\ adapter.connected /\ outages < MaxOutages /\ outages' = outages + 1
    /\ adapter' = [adapter EXCEPT !.connected = FALSE]
    /\ UNCHANGED <<actor, inflight>>

Connect ==
    /\ ~adapter.connected /\ adapter' = [adapter EXCEPT !.connected = TRUE]
    /\ UNCHANGED <<actor, inflight, outages>>

-----------------------------------------------------------------------------

\* on_start: with business history the root runs at once, behind the closed gate.
TerminalInit ==
    /\ adapter \in [connected : {TRUE}, required : BOOLEAN]
    /\ inflight = {} /\ outages = 0
    /\ \E history \in BOOLEAN :
         LET a == [active |-> TRUE, busy |-> FALSE, observed |-> FALSE, mass |-> FALSE,
                   pending |-> history, failure |-> FALSE, requests |-> <<>>, failed |-> <<>>,
                   waiting |-> [o \in Asked |-> FALSE],
                   at |-> "none", attempt |-> 1, canceling |-> FALSE]
         IN  actor = IF history THEN Rooted(a, FALSE) ELSE a

TerminalNext ==
    \/ BeginAttempt \/ RoundBreaks \/ EngineReconciled \/ Answer \/ Popped \/ Recovered
    \/ CancelRoot \/ RootCanceled \/ RootFinished
    \/ \E b \in BOOLEAN : WorkingChecked(b) \/ Observe(b) \/ Reconcile(b)
    \/ \E o \in Asked : Ask(o)
    \/ RequestReconciliation \/ Stop \/ Requires \/ Disconnect \/ Connect

-----------------------------------------------------------------------------

\* However rounds fail, time out or are canceled, and whoever asks meanwhile: a question
\* without answer is in the hands of a root that runs, or is kept behind the failure that
\* withdraws source_submission_ready.  None is dropped, and none left where no root comes.
NoQuestionLost ==
    actor.active => \A o \in inflight :
        /\ actor.waiting[o]
        /\ \/ o \in ToSet(actor.requests) /\ actor.busy /\ o \notin ToSet(actor.failed)
           \/ o \in ToSet(actor.failed) /\ actor.failure

-----------------------------------------------------------------------------
(* The inductive invariant behind NoQuestionLost (TerminalReconciler_proofs). *)

TerminalSpec == TerminalInit /\ [][TerminalNext]_terminalVars

Places == InRound \union {"none", "created", "backoff", "cancelled"}

Adapters == [connected : BOOLEAN, required : BOOLEAN]
Actors ==
    [active : BOOLEAN, busy : BOOLEAN, observed : BOOLEAN, mass : BOOLEAN, pending : BOOLEAN,
     failure : BOOLEAN, requests : Seq(Asked), failed : Seq(Asked), waiting : [Asked -> BOOLEAN],
     at : Places, attempt : Nat, canceling : BOOLEAN]

\* A request waits for a root that runs a whole round; what a failure left is not asked
\* again; while the gate is closed there is no question yet.
RequestsServed(a) ==
    /\ a.busy <=> a.at # "none"
    /\ a.requests # <<>> => a.busy /\ a.mass
    /\ a.failed # <<>> => a.failure
    /\ ToSet(a.requests) \cap ToSet(a.failed) = {}
    /\ a.pending => a.requests = <<>> /\ a.failed = <<>>
    /\ a.at = "recovery" => a.pending
    /\ a.at \in {"report", "called"} /\ ~a.canceling => a.requests # <<>>

\* Every question is with the actor.
QuestionsHeld(a, questions) ==
    /\ a.pending => questions = {}
    /\ a.active => \A o \in questions :
          a.waiting[o] /\ o \in ToSet(a.requests) \union ToSet(a.failed)

ReconcilerInv ==
    /\ adapter \in Adapters /\ actor \in Actors /\ inflight \subseteq Asked
    /\ RequestsServed(actor) /\ QuestionsHeld(actor, inflight)
=============================================================================
