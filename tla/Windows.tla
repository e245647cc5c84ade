------------------------------ MODULE Windows -------------------------------
(***************************************************************************)
(* A window is a finite sequence of samples, oldest first.  These are the  *)
(* operators the sample store and the watcher share.                       *)
(***************************************************************************)
EXTENDS Integers, Sequences

\* The n newest elements of s, in order: snapshot[len(snapshot)-retention:].
Newest(s, n) == IF Len(s) > n THEN SubSeq(s, Len(s) - n + 1, Len(s)) ELSE s

\* The window w of at most n samples once s is recorded in it.
RecordIn(w, n, s) == Newest(Append(w, s), n)
=============================================================================
