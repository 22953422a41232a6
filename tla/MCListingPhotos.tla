---------------------------- MODULE MCListingPhotos ----------------------------
(***************************************************************************)
(* ListingPhotos for TLC: a listing that shows one photo and may have two; *)
(* three requests, two of them at a time; and two jobs, which two workers *)
(* may run at once and which may be of the same photo, committed twice.    *)
(* The constants are all in the cfg; there is no symmetry, which TLC does  *)
(* not combine with liveness.                                              *)
(***************************************************************************)
EXTENDS ListingPhotos
=============================================================================
