----------------------------- MODULE Selection -----------------------------
(***************************************************************************)
(* The loop `for ... { if !keep { continue }; ret = append(ret, entry) }'  *)
(* that filters, the log query and the conversion of a transaction are     *)
(* made of, and the loop `ret = append(ret, list...)'.                     *)
(*                                                                         *)
(* FlattenSeq and IsSuffix are as in SequencesExt.  That module is not     *)
(* extended because through Bags it would put all theorems on finite sets, *)
(* sequences and induction in front of every proof obligation.             *)
(***************************************************************************)
EXTENDS Integers, Sequences

\* The entries of s whose index is in keep.
Selected(s, keep) ==
  LET ret[k \in 0..Len(s)] ==
        IF k = 0 THEN <<>> ELSE IF k \in keep THEN Append(ret[k - 1], s[k]) ELSE ret[k - 1]
  IN  ret[Len(s)]

\* The lists of seqs, one after the other.
FlattenSeq(seqs) ==
  LET ret[k \in 1..Len(seqs)] == IF k = 1 THEN seqs[k] ELSE ret[k - 1] \o seqs[k]
  IN  IF Len(seqs) = 0 THEN <<>> ELSE ret[Len(seqs)]

IsSuffix(s, t) == Len(s) <= Len(t) /\ s = SubSeq(t, (Len(t) - Len(s)) + 1, Len(t))

=============================================================================
