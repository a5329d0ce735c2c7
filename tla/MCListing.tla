------------------------------ MODULE MCListing ------------------------------
(* Listing with times such that rows 2, 3 and 6 share the microsecond and    *)
(* all but row 5 the second: a microsecond is ten units, a second a hundred. *)
EXTENDS Listing

OccurredAtValue == <<10, 23, 29, 40, 110, 25>>
ActionValue == <<"review", "review", "no_action", "review", "no_action", "review">>
=============================================================================
