----------------------------- MODULE StreamCopy -----------------------------
(***************************************************************************)
(* What a copy of one open stream into another promises its caller,        *)
(* whichever of copyFileThreaded and copyFileSinglethreaded (fs.cpp) does  *)
(* it: the destination stream accepts the source's units in their order,   *)
(* each once, and the result says "ok" only when it has accepted all of    *)
(* them and neither stream met an error.                                   *)
(*                                                                         *)
(* A unit is an arbitrary piece of the file, named by its position in the  *)
(* source, so the source is the sequence 1, 2, ..., FileLen.               *)
(***************************************************************************)
EXTENDS Integers, Sequences

CONSTANT FileLen   \* a natural number

VARIABLES out,      \* the units the destination stream has accepted
          fault,    \* a read or a write has failed
          result    \* what the caller has been told

vars == <<out, fault, result>>

Identity(n) == [i \in 1..n |-> i]

TypeOK ==
  /\ \E n \in 0..FileLen : out = Identity(n)
  /\ fault \in BOOLEAN
  /\ result \in {"none", "ok", "failed"}

Init ==
  /\ out = <<>>
  /\ fault = FALSE
  /\ result = "none"

\* The next units, maybe none, are accepted; a stream may fail meanwhile.
Transfer ==
  /\ result = "none"
  /\ \E n \in Len(out)..FileLen : out' = Identity(n)
  /\ fault' \in {fault, TRUE}
  /\ UNCHANGED result

Finish ==
  /\ result = "none"
  /\ \/ ~fault /\ Len(out) = FileLen /\ result' = "ok"
     \/ fault /\ result' = "failed"
  /\ UNCHANGED <<out, fault>>

Next == Transfer \/ Finish

Spec == Init /\ [][Next]_vars
=============================================================================
