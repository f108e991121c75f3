---------------------------- MODULE MCRetryAfter ----------------------------
(* RetryAfter on all texts up to five bytes, with bounds a tenth of a      *)
(* thousandth of the code's, so that four digits go past the cap.          *)
EXTENDS RetryAfter

MCDigits == {0, 1, 8, 9}
=============================================================================
