----------------------------- MODULE MCFetcher -----------------------------
(* Fetcher with one updater (the deployed CronJob forbids two) or with two *)
(* that nothing orders; the configurations say which.                      *)
EXTENDS Fetcher
=============================================================================
