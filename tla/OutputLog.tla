----------------------------- MODULE OutputLog -----------------------------
(***************************************************************************)
(* What the log of a run promises those who follow it, with no buffer,     *)
(* batch, chunk, cursor or connection in sight: output is kept in the      *)
(* order it was printed, the oldest may be dropped, and whoever looks is   *)
(* sent at once all that is kept and new to them, after what they have.    *)
(*                                                                         *)
(* Pieces of output are numbered in the order they were printed, so that   *)
(* an increasing sequence is one without repetition in that order.         *)
(***************************************************************************)
EXTENDS Naturals, Sequences

CONSTANT Readers

VARIABLES
  kept,   \* the output that is there to be read
  sent    \* reader -> the output it was sent

vars == <<kept, sent>>

Pieces(s) == {s[i] : i \in DOMAIN s}
InOrder(s) == \A i \in 1 .. Len(s) - 1 : s[i] < s[i + 1]
Before(A, B) == \A a \in A, b \in B : a < b

Init ==
  /\ kept = <<>>
  /\ sent = [r \in Readers |-> <<>>]

\* Output arrives behind all that was kept or sent, and makes the oldest go.
Store ==
  LET new == Pieces(kept') \ Pieces(kept)
      gone == Pieces(kept) \ Pieces(kept')
  IN
  /\ InOrder(kept')
  /\ Before(Pieces(kept), new)
  /\ \A r \in Readers : Before(Pieces(sent[r]), new)
  /\ Before(gone, Pieces(kept'))
  /\ UNCHANGED sent

\* A reader is brought up to date.
Read(r) ==
  /\ UNCHANGED kept
  /\ \A q \in Readers \ {r} : sent'[q] = sent[q]
  /\ InOrder(sent'[r])
  /\ Pieces(sent'[r]) = Pieces(sent[r]) \cup Pieces(kept)
  /\ Before(Pieces(sent[r]), Pieces(kept) \ Pieces(sent[r]))

Next == Store \/ \E r \in Readers : Read(r)

Spec == Init /\ [][Next]_vars
=============================================================================
