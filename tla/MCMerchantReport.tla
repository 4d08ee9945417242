-------------------------- MODULE MCMerchantReport --------------------------
(***************************************************************************)
(* The shop of MCMaturityJob, with a report read while the deliveries come *)
(* in and the maturity job runs.                                           *)
(***************************************************************************)
EXTENDS MerchantReport, MCMaturityJob

MCProductOf == o1 :> "mug"
MCMarginConfig == [field \in MoneyFields |-> 1]
=============================================================================
