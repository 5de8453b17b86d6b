------------------------- MODULE MCSkipListIterator -------------------------
(***************************************************************************)
(* An instance of SkipListIterator for TLC, where every call of SkipList   *)
(* may be made between loops.  Iterators see the bottom level only, so     *)
(* that loops run over lists that have no other.                           *)
(***************************************************************************)
EXTENDS SkipListIterator, FiniteSets, TLC

\* Nothing tells one address from another.
NodeSymmetry == Permutations(Node)

\* Between loops there are three nodes at most; the fourth is one more that is
\* inserted under a loop that may be at an erased one.
Between ==
  /\ it = NullPtr
  /\ Next
  /\ call'.op = "insert" => Cardinality(DOMAIN mKey) < 3
  /\ UNCHANGED iterVars

OneLevel == \A n \in DOMAIN mNexts : DOMAIN mNexts[n] = {0}

Loop ==
  \/ OneLevel /\ Begin
  \/ Advance
  \/ Cardinality(Live) < 4 /\ Finish
  \/ it # NullPtr /\ Call /\ call'.level = 0

AllSpec == IterInit /\ [][Between \/ Loop]_<<vars, iterVars>>
=============================================================================
