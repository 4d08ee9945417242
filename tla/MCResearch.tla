----------------------------- MODULE MCResearch -----------------------------
(***************************************************************************)
(* The components that forecast, experiment, account and ask for consent,  *)
(* on small instances, in one run.  They share no state: studied is the    *)
(* component whose actions are taken, the others stay as they begin, and   *)
(* what is checked of each is what its own specification, run alone, would *)
(* be checked for.                                                         *)
(***************************************************************************)
EXTENDS ResearchCampaign, Counterpilot, ExperimentScheduler, MoneyLedger, ConsentLedger,
        OfferLabResearch, SellerPilot

CONSTANTS
  Studied, \* the components a run is about
  h1       \* a comparison without a preregistration

VARIABLE studied

\* A freeze raced by another model's, by an episode and by a trial; the hidden split of one
\* campaign while cases arrive and a batch of assignments may be cut short; two campaigns whose
\* hidden splits overlap.
Calls(ops, gs, ms) == ops \X gs \X ms
MCScenarios ==
  { [seeded |-> {1, 2, 3}, future |-> {4, 5}, cuts |-> 0,
     work |-> [a |-> Calls({"fit"}, {"g1"}, {"m1", "m2"}) \cup Calls({"freeze", "submit"}, {"g1"}, {"m1"}),
               b |-> Calls({"freeze", "submit"}, {"g1"}, {"m2"})]],
    [seeded |-> {1, 2, 3}, future |-> {5}, cuts |-> 1,
     work |-> [a |-> Calls({"fit", "freeze", "hidden"}, {"g1"}, {"m1"}),
               b |-> Calls({"hidden", "submit"}, {"g1"}, {"m1"})]],
    [seeded |-> {1, 2, 3, 5, 7}, future |-> {6}, cuts |-> 0,
     work |-> [a |-> Calls({"fit", "freeze", "hidden"}, {"g1"}, {"m1"}),
               b |-> Calls({"fit", "freeze", "hidden"}, {"g2"}, {"m1"})]] }

\* Two callers with three offers and one experiment of one or two units; and imports of
\* overlapping files, one of which contradicts another and one of which has an invalid event.
EventOf(kind, o, body) == [kind |-> kind, id |-> o, offer |-> o, body |-> body, valid |-> TRUE]
Opened == <<EventOf("offer", "o1", "v1"), EventOf("offer", "o2", "v1"), EventOf("offer", "o3", "v1")>>
Decided == <<EventOf("decision", "o1", "v1")>>
Changed == <<EventOf("offer", "o2", "v1"), EventOf("offer", "o1", "v2")>>
Invalid == <<EventOf("decision", "o1", "v1"), [EventOf("decision", "o2", "v1") EXCEPT !.valid = FALSE],
             EventOf("offer", "o3", "v1")>>
MCFiles == {Opened, Decided, Changed, Invalid, <<>>}
MCControl == {<<"e1", "o1">>}
ImportOf(files) == [op : {"import"}, file : files]
ShadowOf(os, ks) == [op : {"shadow"}, offer : os, config : ks]
AssignOf(os) == [op : {"assign"}, exp : {"e1"}, offer : os]
PreregisterOf(units) == [op : {"preregister"}, exp : {"e1"}, units : units]
ResultOf(os) == [op : {"result"}, exp : {"e1"}, offer : os, value : {0, 1}]
MCPilotScenarios ==
  { [seed |-> Opened,
     work |-> [p |-> AssignOf({"o1", "o2"}) \cup ShadowOf({"o1"}, {"v1"}) \cup PreregisterOf({1}),
               q |-> AssignOf({"o1", "o3"}) \cup ShadowOf({"o1"}, {"v2"}) \cup PreregisterOf({2})
                     \cup ResultOf({"o1"}) \cup ImportOf({Decided})]],
    [seed |-> <<>>,
     work |-> [p |-> ImportOf({Opened, Invalid}) \cup ShadowOf({"o1"}, {"v1"}),
               q |-> ImportOf({Opened, Changed, Decided})]] }

MCPlanned == [d1 |-> 1]
MCMerchantOf == <<"m", "m2">>
MCStoreOf == [s1 |-> 1, s2 |-> 2]

\* Two processes on one campaign, with one proposal of the same name; and two that define
\* campaigns whose hidden cases overlap.
MCAgendas ==
  { [a1 |-> [opens |-> {<<"g", {1, 2}>>}, ideas |-> {<<"f1", "u1">>}],
     a2 |-> [opens |-> {<<"g", {1, 2}>>}, ideas |-> {<<"f1", "u2">>, <<"f2", "u1">>}]],
    [a1 |-> [opens |-> {<<"g", {1, 2}>>}, ideas |-> {<<"f1", "u1">>}],
     a2 |-> [opens |-> {<<"h", {2, 3}>>, <<"g", {2, 3}>>}, ideas |-> {<<"f1", "u1">>}]] }

\* Two good folders with one order in common, whose return window the second extends, and one
\* with a row that is refused.
OrderOf(id, done, matures, priced, decision) ==
  [id |-> id, done |-> done, matures |-> matures, priced |-> priced, decision |-> decision]
MCOrders ==
  [f1 |-> {OrderOf(1, TRUE, 0, TRUE, "accepted"), OrderOf(2, TRUE, 1, TRUE, "countered")},
   f2 |-> {OrderOf(2, TRUE, 2, TRUE, "countered"), OrderOf(4, FALSE, 0, TRUE, "accepted")},
   bad |-> {}]

-----------------------------------------------------------------------------
ResearchSideInit ==
  /\ studied \in Studied
  /\ CampaignInit /\ (studied # "campaign" => scenario = CHOOSE s \in MCScenarios : TRUE)
  /\ PilotInit /\ (studied # "counterpilot" => records = <<>>)
  /\ SchedulerInit /\ MoneyInit /\ ConsentInit
  /\ ResearchInit /\ (studied # "offerlab" => agenda = CHOOSE s \in MCAgendas : TRUE)
  /\ SellerInit /\ (studied # "seller" => folder = "f1")

Only(name) ==
  /\ studied = name /\ UNCHANGED studied
  /\ name # "campaign" => UNCHANGED campaignVars
  /\ name # "counterpilot" => UNCHANGED pilotVars
  /\ name # "scheduler" => UNCHANGED schedulerVars
  /\ name # "money" => UNCHANGED moneyVars
  /\ name # "consent" => UNCHANGED consentVars
  /\ name # "offerlab" => UNCHANGED researchVars
  /\ name # "seller" => UNCHANGED sellerVars

ResearchSideNext ==
  \/ Only("campaign") /\ CampaignNext
  \/ Only("counterpilot") /\ PilotNext
  \/ Only("scheduler") /\ SchedulerNext
  \/ Only("money") /\ MoneyNext
  \/ Only("consent") /\ ConsentNext
  \/ Only("offerlab") /\ ResearchNext
  \/ Only("seller") /\ SellerNext

ResearchSideSpec ==
  ResearchSideInit /\ [][ResearchSideNext]_<<studied, campaignVars, pilotVars, schedulerVars,
    moneyVars, consentVars, researchVars, sellerVars>>
=============================================================================
