----------------------------- MODULE LineChannel -----------------------------
(***************************************************************************)
(* What a line-based session promises its reader: the lines the peer sent, *)
(* each at most once, in order, none invented and none skipped.            *)
(***************************************************************************)
EXTENDS Naturals, Sequences

CONSTANT Line

VARIABLES sent, delivered

Init == sent = <<>> /\ delivered = <<>>

Send ==
  /\ \E l \in Line : sent' = Append(sent, l)
  /\ UNCHANGED delivered

Deliver ==
  /\ Len(delivered) < Len(sent)
  /\ delivered' = Append(delivered, sent[Len(delivered) + 1])
  /\ UNCHANGED sent

Next == Send \/ Deliver

Spec == Init /\ [][Next]_<<sent, delivered>>

=============================================================================
