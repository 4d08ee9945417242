-------------------------- MODULE OfferLabResearch --------------------------
(***************************************************************************)
(* Autonomous formula research                                             *)
(* (src/src/behavior_lab/offerlab_research/api.py, scheduler.py,           *)
(* hypothesis_agent.py): processes open campaigns in one shared event      *)
(* store, register proposals, evaluate them on the development rows and    *)
(* submit one to the hidden rows.                                          *)
(*                                                                         *)
(* Appends exclude each other and run their guard on the store as it is;   *)
(* proposals and development results are kept in the memory of a process,  *)
(* filled from the store when the campaign is opened and never again.      *)
(* ResearchScheduler makes these calls in one of the orders allowed here;  *)
(* its promotions, retirements and stops are appended and never read.      *)
(* Events of versions before 0.4 are left out, and an append that raises   *)
(* is taken for the end of the process.                                    *)
(***************************************************************************)
EXTENDS Naturals, Sequences, FiniteSets

CONSTANTS
  Agents,      \* processes
  Topics,      \* campaign ids
  Agendas,     \* for each process: the campaigns and hidden cases it may open them with, and
               \* the <<proposal id, content>> pairs it may propose
  DevBudget, HidBudget \* development_evaluations, hidden_submissions

ASSUME ResearchAssumption ==
  /\ IsFiniteSet(Agents)
  /\ \A s \in Agendas : \A a \in Agents : /\ s[a].opens \subseteq Topics \X (SUBSET Nat)
                                         /\ \A i \in s[a].ideas : i = <<i[1], i[2]>>
  /\ DevBudget \in Nat /\ HidBudget \in Nat

VARIABLES
  eventLog, \* the events
  shared,   \* campaigns that two processes have had open at once
  agent,    \* what each process knows and is about to append
  agenda    \* chosen once

researchVars == <<eventLog, shared, agent, agenda>>

Closed == [at |-> "closed"]
Of(g, type) == {i \in DOMAIN eventLog : eventLog[i].topic = g /\ eventLog[i].type = type}
Known(g) == {<<eventLog[i].formula, eventLog[i].content>> : i \in Of(g, "registered")}
Conflicting(proposals) == \E q, r \in proposals : q[1] = r[1] /\ q # r

\* api_created pins the hidden rows a campaign has, its budgets and its other rows.
Pinned(g) == {eventLog[i].rows : i \in Of(g, "created")}

\* _restore_and_pin_configuration: the events read; other rows are refused, and so is a
\* store that holds two definitions of one proposal.
OpenCampaign(a) ==
  /\ agent[a] = Closed
  /\ \E o \in agenda[a].opens : LET g == o[1] h == o[2] IN
       /\ Pinned(g) \subseteq {h} /\ ~Conflicting(Known(g))
       /\ agent' = [agent EXCEPT ![a] =
            [at |-> IF Pinned(g) = {} THEN "create" ELSE "open", topic |-> g, rows |-> h,
             proposals |-> Known(g),
             results |-> {<<eventLog[i].formula, eventLog[i].content>> : i \in Of(g, "evaluated")}]]
       /\ shared' = shared \cup {t \in {g} : \E b \in Agents : agent[b] # Closed /\ agent[b].topic = g}
  /\ UNCHANGED eventLog

LogEvent(a, type, f, c) ==
  eventLog' = Append(eventLog, [type |-> type, topic |-> agent[a].topic, rows |-> agent[a].rows,
                                formula |-> f, content |-> c])

CloseCampaign(a) == agent' = [agent EXCEPT ![a] = Closed]
Ready(a) == agent' = [agent EXCEPT ![a] =
  [at |-> "open", topic |-> @.topic, rows |-> @.rows, proposals |-> @.proposals,
   results |-> @.results]]

\* The guarded append of api_created: a campaign created meanwhile is an error.
CreateCampaign(a) ==
  /\ agent[a].at = "create"
  /\ IF Pinned(agent[a].topic) # {} THEN UNCHANGED eventLog /\ CloseCampaign(a)
     ELSE LogEvent(a, "created", "none", "none") /\ Ready(a)

Start(a, step, f, c, proposals) ==
  /\ agent' = [agent EXCEPT ![a] = [at |-> step, topic |-> @.topic, rows |-> @.rows,
                                    results |-> @.results, proposals |-> proposals,
                                    formula |-> f, content |-> c]]
  /\ UNCHANGED eventLog

\* Mutant: a proposal that is known is not looked for.
RegisterAgain(a) ==
  /\ agent[a].at = "open"
  /\ \E i \in agenda[a].ideas : Start(a, "register", i[1], i[2], agent[a].proposals \cup {i})

\* register_formula: an id that is known is returned, or refused with another content; a new
\* one is known before it is appended.
RegisterFormula(a) ==
  /\ agent[a].at = "open"
  /\ \E i \in agenda[a].ideas :
       /\ \A q \in agent[a].proposals : q[1] # i[1]
       /\ Start(a, "register", i[1], i[2], agent[a].proposals \cup {i})
AppendProposal(a) ==
  /\ agent[a].at = "register"
  /\ LogEvent(a, "registered", agent[a].formula, agent[a].content) /\ Ready(a)

\* evaluate_development: its reservation, then the result.
EvaluateDevelopment(a) ==
  /\ agent[a].at = "open"
  /\ \E q \in agent[a].proposals : Start(a, "reserve", q[1], q[2], agent[a].proposals)

\* Mutant: what counts is the results.
SpentCompleted(g, type) == Cardinality(Of(g, IF type = "reserved" THEN "evaluated" ELSE "submitted"))
\* _count_budget_reservations.
Spent(g, type) == Cardinality(Of(g, type))

ReserveDevelopment(a) ==
  /\ agent[a].at = "reserve"
  /\ IF Spent(agent[a].topic, "reserved") >= DevBudget THEN UNCHANGED eventLog /\ Ready(a)
     ELSE /\ LogEvent(a, "reserved", agent[a].formula, agent[a].content)
          /\ agent' = [agent EXCEPT ![a].at = "result"]
\* The evaluation raises, its reservation spent, and the scheduler goes on with the next proposal.
FailDevelopment(a) == agent[a].at = "result" /\ Ready(a) /\ UNCHANGED eventLog
\* The memory of the process, which no other reads, has the result just before the store.
RecordDevelopment(a) ==
  /\ agent[a].at = "result"
  /\ LogEvent(a, "evaluated", agent[a].formula, agent[a].content)
  /\ agent' = [agent EXCEPT ![a] =
       [at |-> "open", topic |-> @.topic, rows |-> @.rows, proposals |-> @.proposals,
        results |-> {r \in @.results : r[1] # @.formula} \cup {<<@.formula, @.content>>}]]

\* submit_hidden_once, for an artifact that is the one its result is of.
SubmitHidden(a) ==
  /\ agent[a].at = "open"
  /\ \E q \in agent[a].proposals \cap agent[a].results : Start(a, "hide", q[1], q[2], agent[a].proposals)

\* Mutant: the cases of other campaigns are not compared.
OverlapsOwn(g, h) == \E i \in Of(g, "hidden") : eventLog[i].rows \cap h # {}
\* The hidden cases of any earlier reservation, of this campaign or another.
Overlaps(g, h) == \E i \in DOMAIN eventLog : eventLog[i].type = "hidden" /\ eventLog[i].rows \cap h # {}
ReserveHidden(a) ==
  /\ agent[a].at = "hide"
  /\ IF Spent(agent[a].topic, "hidden") >= HidBudget \/ Overlaps(agent[a].topic, agent[a].rows)
     THEN UNCHANGED eventLog /\ Ready(a)
     ELSE /\ LogEvent(a, "hidden", agent[a].formula, agent[a].content)
          /\ agent' = [agent EXCEPT ![a].at = "submit"]
RecordHidden(a) ==
  /\ agent[a].at = "submit"
  /\ LogEvent(a, "submitted", agent[a].formula, agent[a].content) /\ Ready(a)

\* The process ends or dies.
LeaveCampaign(a) == agent[a] # Closed /\ CloseCampaign(a) /\ UNCHANGED eventLog

ResearchInit == eventLog = <<>> /\ shared = {} /\ agent = [a \in Agents |-> Closed] /\ agenda \in Agendas
ResearchStep(a) ==
  \/ OpenCampaign(a)
  \/ /\ \/ CreateCampaign(a) \/ RegisterFormula(a) \/ AppendProposal(a) \/ EvaluateDevelopment(a)
        \/ ReserveDevelopment(a) \/ FailDevelopment(a) \/ RecordDevelopment(a) \/ SubmitHidden(a)
        \/ ReserveHidden(a) \/ RecordHidden(a) \/ LeaveCampaign(a)
     /\ UNCHANGED shared
ResearchNext == (\E a \in Agents : ResearchStep(a)) /\ UNCHANGED agenda
ResearchSpec == ResearchInit /\ [][ResearchNext]_researchVars
-----------------------------------------------------------------------------
\* Whatever processes share a campaign and wherever they die, no more results are recorded
\* than the budgets allow, and a hidden case is submitted once, whatever the campaign, for a
\* formula that was evaluated as it is.
ResearchWithinBudget ==
  /\ \A g \in Topics : /\ Cardinality(Of(g, "evaluated")) <= DevBudget
                       /\ Cardinality(Of(g, "submitted")) <= HidBudget
  /\ \A i, j \in DOMAIN eventLog :
       eventLog[i].type = "hidden" /\ eventLog[j].type = "hidden" /\ i # j
         => eventLog[i].rows \cap eventLog[j].rows = {}
  /\ \A i \in DOMAIN eventLog : eventLog[i].type = "hidden" =>
       \E j \in Of(eventLog[i].topic, "evaluated") :
         j < i /\ eventLog[j].formula = eventLog[i].formula /\ eventLog[j].content = eventLog[i].content

\* A campaign can be opened again with the rows it was created with ...
Reopens(g) == ~Conflicting(Known(g))
\* ... unless two processes that had it open at once registered one id: a campaign that is
\* worked on by one process at a time never becomes unreadable.
UnreadableOnlyByOverlap == \A g \in Topics : ~Reopens(g) => g \in shared

\* Together: what the guarded appends of OfferLabResearch keep of a campaign, shared or not.
CampaignSound == ResearchWithinBudget /\ UnreadableOnlyByOverlap
=============================================================================
