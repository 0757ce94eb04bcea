------------------------------- MODULE Absent -------------------------------
(* The value of a field, an index or a pointer that has none: the codes     *)
(* kNoSubver ... kNoFuse, kEemTimer_None and NULL.                          *)
CONSTANT None
=============================================================================
