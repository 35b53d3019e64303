---------------------------- MODULE MCPaperEngine ----------------------------
(***************************************************************************)
(* Small instances of PaperEngine: two signals that compete for one        *)
(* instrument, or trade one each.                                          *)
(***************************************************************************)
EXTENDS PaperEngine, TLC

CONSTANTS s1, s2, i1, i2

OneInstrument == (s1 :> i1) @@ (s2 :> i1)
OwnInstrument == (s1 :> i1) @@ (s2 :> i2)

Symmetry == Permutations(Worker)

\* With one instrument and one direction the signals are alike as well.
SymmetryOfSignals == Permutations(Worker) \union Permutations(Signal)

\* With an instrument each, they are alike together with their instruments.
SymmetryOfPairs ==
    Permutations(Worker) \union
    {[x \in Signal \union Instrument |->
        IF x \in Signal THEN p[x]
        ELSE InstrumentOf[p[CHOOSE s \in Signal : InstrumentOf[s] = x]]]
        : p \in Permutations(Signal)}
=============================================================================
