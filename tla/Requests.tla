------------------------------ MODULE Requests ------------------------------
(***************************************************************************)
(* What the modules of the hosted platform share: the requests that run at *)
(* the same time, on any number of API instances.  A request is a sequence *)
(* of statements; statements of different requests interleave.             *)
(***************************************************************************)
CONSTANTS
  Callers,   \* requests in flight
  NoOne      \* an absent id: nil, NULL or ""

ASSUME RequestsAssumption == NoOne \notin Callers

=============================================================================
