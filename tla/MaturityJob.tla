---------------------------- MODULE MaturityJob ----------------------------
(***************************************************************************)
(* The maturity job (counterpilot-maturity.mjs) beside the offer server:   *)
(* a process of its own, outside the server's write queue, that reads      *)
(* offers.jsonl, then refund_refs.jsonl, then return_refs.jsonl, plans the *)
(* mature events and appends them one at a time.  Between two of its steps *)
(* the server's handlers (WebhookIngest) go on writing the same files.     *)
(*                                                                         *)
(* The merchant report replays the same log: an offer is current_mature    *)
(* when its snapshot's state is "mature".  Currencies are left out: every  *)
(* amount is in the currency of the margin configuration.                  *)
(***************************************************************************)
EXTENDS WebhookIngest

CONSTANT Jobs   \* processes running the job

VARIABLES aged,   \* offers whose maturity window has closed
          job     \* what each process has read, and plans

jobVars == <<aged, job>>
vars == <<ingestVars, jobVars>>

\* Nothing read.
JobIdle == [step |-> "idle", snap |-> [o \in Offers |-> Blank],
            inputs |-> [o \in Offers |-> {}], aged |-> {}, held |-> {}, planned |-> {}]

JobInit ==
  /\ Init
  /\ aged = {}
  /\ job = [j \in Jobs |-> JobIdle]

----------------------------------------------------------------------------
\* Mutants of LatestHeld: one of the two statuses forgotten.
LatestHeldUnpaid(lines, o) ==
  LET own == {i \in DOMAIN lines : lines[i].offer = o}
  IN  own # {} /\ lines[Max(own)].status = "needs_reconciliation"

\* latestStatusByReference: whether the last line of a reference that names
\* the offer is a hold.
LatestHeld(lines, o) ==
  LET own == {i \in DOMAIN lines : lines[i].offer = o}
  IN  own # {} /\ lines[Max(own)].status \in {"needs_reconciliation", "held_before_paid"}

\* unresolvedOperationalHolds, of one of the two files.
HeldOffers(refs) == {o \in Offers : \E r \in DOMAIN refs : LatestHeld(refs[r], o)}

\* maturity_input_hash of the mature events of an offer (existingMatureHashes).
MatureInputs(events) ==
  {events[i].input : i \in {k \in DOMAIN events : events[k].type = "mature"}}

\* Mutant of Duplicate: one mature event for each offer.
DuplicateAny(view, o) == view.inputs[o] # {}

\* duplicate_maturity_input
Duplicate(view, o) == MaturityInput(view.snap[o]) \in view.inputs[o]

\* Mutants of Eligible: the open return or the duplicate not skipped.
EligibleOpenReturn(view, o) ==
  /\ view.snap[o].pay # "none"
  /\ o \in view.aged
  /\ o \notin view.held
  /\ ~Duplicate(view, o)
EligibleAgain(view, o) ==
  /\ view.snap[o].pay # "none"
  /\ view.snap[o].exposure # "open"
  /\ o \in view.aged
  /\ o \notin view.held

\* eligibilityForSnapshot: paid, no open exposure, window closed, no hold.
Eligible(view, o) ==
  /\ view.snap[o].pay # "none"
  /\ view.snap[o].exposure # "open"
  /\ o \in view.aged
  /\ o \notin view.held
  /\ ~Duplicate(view, o)

\* createMatureEvent, from the snapshot read.  derivePaymentLifecycleState is
\* the payment state, which a paid transaction always has.
MatureEvent(view, o) ==
  [type |-> "mature", state |-> "mature", pay |-> view.snap[o].pay,
   input |-> MaturityInput(view.snap[o])]

----------------------------------------------------------------------------
\* Time passes: ageEligible holds from now on.
WindowCloses(o) ==
  /\ o \notin aged
  /\ aged' = aged \cup {o}
  /\ UNCHANGED <<ingestVars, job>>

\* runMaturityJob: now, and offers.jsonl.
ReadEvents(j) ==
  /\ job[j].step = "idle"
  /\ job' = [job EXCEPT ![j] = [@ EXCEPT !.step = "refunds", !.snap = snap, !.aged = aged,
                                !.inputs = [o \in Offers |-> MatureInputs(log[o])]]]
  /\ UNCHANGED <<ingestVars, aged>>

ReadRefundRefs(j) ==
  /\ job[j].step = "refunds"
  /\ job' = [job EXCEPT ![j] = [@ EXCEPT !.step = "returns", !.held = HeldOffers(refundRefs)]]
  /\ UNCHANGED <<ingestVars, aged>>

\* return_refs.jsonl, and planMaturity over all that was read.  A run that
\* plans nothing is over.
ReadReturnRefs(j) ==
  /\ job[j].step = "returns"
  /\ LET view    == [job[j] EXCEPT !.held = @ \cup HeldOffers(returnRefs)]
         planned == {o \in Offers : Eligible(view, o)}
     IN  job' = [job EXCEPT ![j] = IF planned = {} THEN JobIdle
                                   ELSE [view EXCEPT !.step = "append", !.planned = planned]]
  /\ UNCHANGED <<ingestVars, aged>>

\* The planned events, one at a time (here in any order of the offers).
AppendMature(j) ==
  /\ job[j].step = "append"
  /\ \E o \in job[j].planned :
       LET e    == MatureEvent(job[j], o)
           rest == job[j].planned \ {o}
       IN  /\ log'  = [log EXCEPT ![o] = Append(@, e)]
           /\ snap' = [snap EXCEPT ![o] = Replay(@, e)]
           /\ job'  = [job EXCEPT ![j] = IF rest = {} THEN JobIdle
                                         ELSE [@ EXCEPT !.planned = rest]]
  /\ UNCHANGED <<orderRefs, refundRefs, returnRefs, deliveries, todo, crashes, aged>>

\* The process dies, or fails to read a file.
StopJob(j) ==
  /\ job[j].step # "idle" /\ crashes < MaxCrashes
  /\ job' = [job EXCEPT ![j] = JobIdle]
  /\ crashes' = crashes + 1
  /\ UNCHANGED <<files, todo, aged>>

JobStep(j) == ReadEvents(j) \/ ReadRefundRefs(j) \/ ReadReturnRefs(j) \/ AppendMature(j)

JobNext ==
  \/ Next /\ UNCHANGED jobVars
  \/ \E o \in Offers : WindowCloses(o)
  \/ \E j \in Jobs : JobStep(j) \/ StopJob(j)

JobSpec == JobInit /\ [][JobNext]_vars

\* The job is run again and again, as an operator's schedule does.
JobFairness ==
  /\ WF_vars(HandlerStep /\ UNCHANGED jobVars)
  /\ \A m \in OrderMessages  : WF_vars(ReceiveOrder(m) /\ UNCHANGED jobVars)
  /\ \A m \in RefundMessages : WF_vars(ReceiveRefund(m) /\ UNCHANGED jobVars)
  /\ \A m \in ReturnMessages : WF_vars(ReceiveReturn(m) /\ UNCHANGED jobVars)
  /\ \A o \in Offers : WF_vars(WindowCloses(o))
  /\ \A j \in Jobs : WF_vars(JobStep(j))

FairJobSpec == JobSpec /\ JobFairness

----------------------------------------------------------------------------
\* "Repeated runs are idempotent for the same maturity inputs": one mature
\* event for each input, across crashed runs and the server's own writes, as
\* long as runs do not overlap (Jobs is a single process).
MatureOncePerInput ==
  \A o \in Offers : \A i, k \in DOMAIN log[o] :
    /\ log[o][i].type = "mature" /\ log[o][k].type = "mature"
    /\ log[o][i].input = log[o][k].input
    => i = k

\* A refund or a return that came before the payment keeps its transaction
\* from maturing, although the job reads the logs one after the other and the
\* payment may be recorded in between.
NoMatureOverEarlyRefund ==
  \A j \in Jobs : \A o \in job[j].planned :
    /\ \A r \in Refunds :
         LET own == {i \in DOMAIN refundRefs[r] : refundRefs[r][i].offer = o}
         IN  own # {} => refundRefs[r][Max(own)].status # "held_before_paid"
    /\ \A r \in Returns :
         LET own == {i \in DOMAIN returnRefs[r] : returnRefs[r][i].offer = o}
         IN  own # {} => returnRefs[r][Max(own)].status # "held_before_paid"

\* A mature event states, of one earlier point in the log, the amounts, the
\* payment state and an exposure that was not open: never a mixture of what
\* was true at different times.
MatureDescribesLog ==
  \A o \in Offers : \A i \in DOMAIN log[o] : log[o][i].type = "mature" =>
    \E k \in 1..(i - 1) :
      LET s == FoldLeft(Replay, Checkout, SubSeq(log[o], 1, k))
      IN  /\ log[o][i].input = MaturityInput(s)
          /\ log[o][i].pay = s.pay
          /\ s.exposure # "open"

\* A refund or a return recorded after maturity takes the offer out of the
\* report's current margin, whatever the job did since the handler read the
\* log.
LaterEventsDemote ==
  [][\A o \in Offers :
       /\ Len(log'[o]) > Len(log[o])
       /\ log'[o][Len(log'[o])].type \in {"refund_recorded", "return_status_recorded"}
       => snap'[o].state # "mature"]_vars

\* Nothing the job can see keeps the offer from maturing.
Clear(o) ==
  /\ snap[o].pay # "none" /\ snap[o].exposure # "open" /\ o \in aged
  /\ o \notin HeldOffers(refundRefs) \cup HeldOffers(returnRefs)
Current(o) == snap[o].state = "mature" /\ snap[o].matured = {MaturityInput(snap[o])}

\* "until a corrected mature event exists": an offer that stays clear to
\* mature is brought up to date, whatever stale event a run appended before.
StaleMatureCorrected ==
  \A o \in Offers : <>[]Clear(o) => <>[]Current(o)

\* Deliveries and runs of the job catch up with what happened, although both processes may
\* die at any step: paid orders are recorded, and stale margins are corrected.
CatchesUp == PaymentEventuallyRecorded /\ StaleMatureCorrected

----------------------------------------------------------------------------
\* "Stale mature events are excluded from the current margin view after later
\* refunds or open returns": the refunds of a current_mature offer are in its
\* margin, and its last return event is not of an open one.  Neither is so
\* when the event is recorded between the job's read and its append.
StaleMatureExcluded ==
  \A o \in Offers : snap[o].state = "mature" =>
    /\ \A input \in snap[o].matured : input.refunded = PriorRefundTotal(o)
    /\ LET returns == {i \in DOMAIN log[o] : log[o][i].type = "return_status_recorded"}
       IN  returns # {} => log[o][Max(returns)].exposure # "open"
=============================================================================
