------------------------------ MODULE FrameStream ------------------------------
(***************************************************************************)
(* What one direction of the cluster relay promises (the header comment of *)
(* src/runtime/relay-ring.js): frames come out whole, in the order they    *)
(* were accepted, none twice and none skipped, until either side closes;   *)
(* and what was accepted comes out eventually while both are open.         *)
(***************************************************************************)
EXTENDS Naturals, Sequences

CONSTANT Frame

VARIABLES
  accepted,  \* the frames write() said yes to, in order
  delivered, \* the frames handed to onFrame, in order
  open       \* neither side has closed

Init == accepted = <<>> /\ delivered = <<>> /\ open = TRUE

\* The writer may not have noticed yet that the reader closed.
Accept ==
  /\ \E f \in Frame : accepted' = Append(accepted, f)
  /\ UNCHANGED <<delivered, open>>

Deliver ==
  /\ Len(delivered) < Len(accepted)
  /\ delivered' = Append(delivered, accepted[Len(delivered) + 1])
  /\ UNCHANGED <<accepted, open>>

Close == open /\ open' = FALSE /\ UNCHANGED <<accepted, delivered>>

Next == Accept \/ Deliver \/ Close

streamVars == <<accepted, delivered, open>>

Spec == Init /\ [][Next]_streamVars /\ WF_streamVars(open /\ Deliver)
=============================================================================
