------------------------------- MODULE MCTimer -------------------------------
(* Halves of four values, started just before, at and after a wrap of the  *)
(* low half; amounts at and around whole ticks, and ones whose conversion  *)
(* wraps (65530 microseconds, 656 seconds).                                *)
EXTENDS Timer
MCStarts == {0, 2, 3, 4, 7}
MCRequests ==
  [unit : {"ticks"}, amount : {0, 1, 2, 5}]
  \cup [unit : {"micros"}, amount : {1, 10000, 10001, 20000, 65530}]
  \cup [unit : {"ms"}, amount : {1, 10, 25}]
  \cup [unit : {"seconds"}, amount : {1, 656}]
=============================================================================
