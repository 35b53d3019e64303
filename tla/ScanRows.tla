-------------------------------- MODULE ScanRows --------------------------------
(***************************************************************************)
(* Rows of a study and the scans they belong to, as every study of the     *)
(* research directory reads them: a row has the time of its scan, at, and  *)
(* an id; the rows of one time are the candidates of one scan.             *)
(***************************************************************************)
EXTENDS Integers, Sequences, SequencesExt, FiniteSets, FiniteSetsExt

Total(v) == SumFunction(v)
Average(v) == IF DOMAIN v = {} THEN 0 ELSE Total(v) \div Cardinality(DOMAIN v)

Times(S) == LET at == {w.at : w \in S}
            IN IF at = {} THEN <<>>
               ELSE SelectSeq([i \in 1..Max(at) |-> i], LAMBDA t : t \in at)
GroupByScan(S) ==
    LET times == Times(S) IN [i \in 1..Len(times) |-> {w \in S : w.at = times[i]}]
At(group) == (CHOOSE w \in group : TRUE).at
Flat(groups) == UNION ToSet(groups)
Mates(w, S) == {v \in S : v.at = w.at}

\* The first of the best.
FirstBest(gain) ==
    LET gains == SubSeq(gain, 1, Len(gain))
    IN CHOOSE i \in DOMAIN gains : \A j \in DOMAIN gains :
           gains[j] <= gains[i] /\ (j < i => gains[j] < gains[i])

\* Early stopping: the best round before the first that comes patience rounds after it.
BestBefore(gain, patience) ==
    LET gains == SubSeq(gain, 1, Len(gain))
        best == [k \in DOMAIN gains |-> FirstBest(SubSeq(gains, 1, k))]
    IN best[Min({Len(gain)} \union {k \in DOMAIN gains : k - best[k] >= patience})]
=============================================================================
