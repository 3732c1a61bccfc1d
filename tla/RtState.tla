------------------------------ MODULE RtState -------------------------------
(***************************************************************************)
(* lltl::state<T>, a library of its own, as AudioSend, AudioReturn and     *)
(* ShmClient use it: one thread pushes objects, the other gets the newest  *)
(* one.  The side that gets never frees: what it has replaced is kept in   *)
(* old until the next push, and an object that was pushed over before      *)
(* anybody got it is freed by that push.                                   *)
(***************************************************************************)
CONSTANT NULL

NothingPushed == [cur |-> NULL, pend |-> NULL, old |-> {}]

Objects(s) == ({s.cur, s.pend} \ {NULL}) \cup s.old

Pushed(s, x) == [cur |-> s.cur, pend |-> x, old |-> {}]

(* What a push hands to the deleter. *)
Freed(s) == s.old \cup ({s.pend} \ {NULL})

(* get() returns Got(s).cur; without a new object it is the one of before. *)
Got(s) ==
  IF s.pend = NULL THEN s
  ELSE [cur |-> s.pend, pend |-> NULL, old |-> s.old \cup ({s.cur} \ {NULL})]

Newest(s) == IF s.pend = NULL THEN s.cur ELSE s.pend
=============================================================================
