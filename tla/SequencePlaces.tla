--------------------------- MODULE SequencePlaces ---------------------------
(***************************************************************************)
(* Where the elements of a sequence of sequences are, such as the matches  *)
(* of the payloads of a list of rows.                                      *)
(***************************************************************************)
EXTENDS Sequences, SequencesExt

\* The elements of the elements.
AllOf(ss) == UNION {ToSet(ss[i]) : i \in DOMAIN ss}

\* No two places hold the same element.
OnceEach(ss) ==
    \A i, j \in DOMAIN ss : \A k \in DOMAIN ss[i], l \in DOMAIN ss[j] :
        ss[i][k] = ss[j][l] => i = j /\ k = l
=============================================================================
