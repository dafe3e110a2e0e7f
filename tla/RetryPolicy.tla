----------------------------- MODULE RetryPolicy -----------------------------
(***************************************************************************)
(* retryBackoffMs: the delay before the next attempt of a failed queue run *)
(* doubles from Base on and stops at Cap.                                  *)
(***************************************************************************)
EXTENDS Integers

RetryBackoff(Base, Cap, attempts) ==
    LET doublings == IF attempts > 1 THEN attempts - 1 ELSE 0
        delay     == Base * 2^doublings
    IN  IF delay < Cap THEN delay ELSE Cap
=============================================================================
