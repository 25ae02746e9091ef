--------------------------- MODULE MCContractReview ---------------------------
(* A small instance of ContractReview.                                     *)
EXTENDS ContractReview
===============================================================================
