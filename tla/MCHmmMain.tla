------------------------------ MODULE MCHmmMain ------------------------------
(* Files and distributions for model-checking HmmMain with two states, two   *)
(* symbols and epochs of three observations.                                 *)
EXTENDS HmmMain

\* Up to five lines, at most one of them without a number that stoi takes: one
\* epoch or two.
SmallFiles ==
    UNION {{f \in [1 .. n -> Line] : Cardinality({i \in 1 .. n : f[i] # "number"}) <= 1} : n \in 0 .. 5}

\* A distribution of two outcomes, as likely as each other or the second certain.
Rows(Outcome) == {[o \in Outcome |-> IF o = 0 THEN p ELSE q] :
                    <<p, q>> \in {<<Zero, One>>, <<<<1, 2>>, <<1, 2>>>>}}

Moves   == Rows(State)
Symbols == Rows(Symbol) \cup {[o \in Symbol |-> IF o = 0 THEN One ELSE Zero]}

\* Memory that was zeroed.
Zeroed == {Zero}

Even(row)  == row = [o \in DOMAIN row |-> <<1, 2>>]
Sharp(row) == One \in Range(row)

\* Fractions grow with every epoch: with lines for two, the model starts with
\* even moves and certain symbols.
MCInit ==
    /\ MainInit
    /\ Len(file) >= T => Even(pi) /\ \A s \in State : Even(A[s]) /\ Sharp(B[s])

MCSpec == MCInit /\ [][MainNext]_main_vars

FairMC == MCSpec /\ Fairness
=============================================================================
