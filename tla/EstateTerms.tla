---------------------------- MODULE EstateTerms ----------------------------
(* What the server (Estate) and the pages (WebEstate) both say of a plan.  *)

CONSTANTS
  Beneficiaries,
  Residue,        \* what no asset assigns
  Full            \* fullEstateAllocationBPS and FULL_BPS, 100%

=============================================================================
