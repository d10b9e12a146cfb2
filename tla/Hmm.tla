-------------------------------- MODULE Hmm --------------------------------
(***************************************************************************)
(* The hidden Markov model of HMM_JH/main.cpp: an epoch of baum_welch()    *)
(* for every T observations, then viterbi().  A step is one member         *)
(* function.  Numbers are exact fractions where the code has doubles and,  *)
(* in some sums, floats: rounding is not modelled.                         *)
(*                                                                         *)
(* What the code reads without having written it is any number of Junk,    *)
(* each time anew: beta before the first epoch, the last xi, the empty     *)
(* optional of a symbol that was not observed.  A path element beyond the  *)
(* array is any state when it is read back.                                *)
(*                                                                         *)
(* Bounds: parameters are computed MaxUpdates times; the first epoch is    *)
(* begun in any case.                                                      *)
(***************************************************************************)
EXTENDS Naturals, FiniteSets, Functions, FiniteSetsExt

CONSTANTS
    N, M, T,            \* states, observation symbols, length of a sequence
    StateRows,          \* the distributions over states that are drawn
    SymbolRows,         \* the distributions over symbols that are drawn
    Junk,
    MaxUpdates

State  == 0 .. N - 1
Symbol == 0 .. M - 1
Time   == 0 .. T - 1

VARIABLES
    A, B, pi, observations, alpha, beta, gamma, xi, delta, psi, path,
    at,                 \* the function that is called next
    updates,            \* the epochs that are over
    stale               \* history: beta when backward() was last called

parameters == <<A, B, pi>>
vars == <<A, B, pi, observations, alpha, beta, gamma, xi, delta, psi, path, at, updates, stale>>

-----------------------------------------------------------------------------
(* Fractions.                                                              *)

Zero == <<0, 1>>
One  == <<1, 1>>

\* What a division by zero gives, infinity included, and everything computed
\* from it.
NaN == <<0, 0>>

\* Euclid: gcd[b][a] is the greatest common divisor of a and b.
gcd[b \in Nat] == [a \in Nat |-> IF b = 0 THEN a ELSE gcd[a % b][b]]

Reduced(n, d) == IF d = 0 THEN NaN ELSE <<n \div gcd[d][n], d \div gcd[d][n]>>

\* Factors that cancel are taken out first, to keep the numbers small.
x ++ y ==
    IF NaN \in {x, y} THEN NaN
    ELSE LET g == gcd[y[2]][x[2]]
         IN  Reduced(x[1] * (y[2] \div g) + y[1] * (x[2] \div g), (x[2] \div g) * y[2])

x ** y ==
    LET p == Reduced(x[1], y[2])
        q == Reduced(y[1], x[2])
    IN  Reduced(p[1] * q[1], p[2] * q[2])

x // y == IF NaN \in {x, y} \/ y[1] = 0 THEN NaN ELSE x ** <<y[2], y[1]>>

Less(x, y) ==
    LET d == gcd[y[2]][x[2]]
        n == gcd[y[1]][x[1]]
    IN  d # 0 /\ n # 0 /\ (x[1] \div n) * (y[2] \div d) < (y[1] \div n) * (x[2] \div d)

Total(f) == LET Plus(x, y) == x ++ y IN FoldFunction(Plus, Zero, f)

-----------------------------------------------------------------------------
\* Fractions in lowest terms, so that equal numbers are the same value.
Number == {NaN} \cup {x \in Nat \X Nat : x[2] # 0 /\ gcd[x[2]][x[1]] = 1}

ASSUME HmmAssumption ==
    /\ N \in Nat \ {0} /\ M \in Nat \ {0} /\ T \in Nat \ {0}
    /\ StateRows \subseteq [State -> Number]
    /\ SymbolRows \subseteq [Symbol -> Number]
    /\ Junk \subseteq Number
    /\ MaxUpdates \in Nat

Init ==
    /\ A \in [State -> StateRows]
    /\ B \in [State -> SymbolRows]
    /\ pi \in StateRows
    /\ observations = [t \in Time |-> 0]
    /\ beta \in [Time -> [State -> Junk]]
    \* Of xi, only the last element is read before it is written.
    /\ xi \in {[t \in Time |-> last] : last \in [State -> [State -> Junk]]}
    /\ alpha = [t \in Time |-> [s \in State |-> Zero]]
    /\ gamma = alpha /\ delta = alpha
    /\ psi = [t \in Time |-> [s \in State |-> 0]]
    /\ path = [s \in State |-> 0]
    /\ at = "update_observations" /\ updates = 0
    /\ stale = beta

\* The next T observations, each a number modulo 10 or 0: see Training.
update_observations ==
    /\ at = "update_observations" /\ (updates < MaxUpdates \/ updates = 0)
    /\ observations' \in [Time -> Symbol]
    /\ at' = "forward"
    /\ UNCHANGED <<parameters, alpha, beta, gamma, xi, delta, psi, path, updates, stale>>

forward ==
    LET a[t \in Time] ==
            IF t = 0 THEN [s \in State |-> pi[s] ** B[s][observations[0]]]
            ELSE LET prev == a[t - 1] IN
                 [s \in State |-> Total([r \in State |-> prev[r] ** A[r][s]]) ** B[s][observations[t]]]
    IN  /\ at = "forward"
        /\ alpha' = [t \in Time |-> a[t]]
        /\ at' = "backward"
        /\ UNCHANGED <<parameters, observations, beta, gamma, xi, delta, psi, path, updates, stale>>

\* beta[t][curr_state] += ..., on top of what beta[t] holds.
backward ==
    LET b[t \in Time] ==
            IF t = T - 1 THEN [s \in State |-> One]
            ELSE LET next == b[t + 1] IN
                 [s \in State |->
                    beta[t][s] ++ Total([r \in State |-> next[r] ** A[s][r] ** B[r][observations[t + 1]]])]
    IN  /\ at = "backward"
        /\ beta' = [t \in Time |-> b[t]]
        /\ stale' = beta
        /\ at' = "init_gamma"
        /\ UNCHANGED <<parameters, observations, alpha, gamma, xi, delta, psi, path, updates>>

likelihood == Total(alpha[T - 1])

init_gamma ==
    /\ at = "init_gamma"
    /\ gamma' = [t \in Time |-> [s \in State |-> (alpha[t][s] ** beta[t][s]) // likelihood]]
    /\ at' = "init_xi"
    /\ UNCHANGED <<parameters, observations, alpha, beta, xi, delta, psi, path, updates, stale>>

\* Mutant: beta of the time before the move.
init_xiBefore ==
    /\ at = "init_xi"
    /\ xi' = [t \in Time |-> IF t = T - 1 THEN xi[t] ELSE
                [s \in State |-> [r \in State |->
                    (alpha[t][s] ** A[s][r] ** B[r][observations[t + 1]] ** beta[t][r]) // likelihood]]]
    /\ at' = "baum_welch"
    /\ UNCHANGED <<parameters, observations, alpha, beta, gamma, delta, psi, path, updates, stale>>

\* xi[T - 1] is never written.
init_xi ==
    /\ at = "init_xi"
    /\ xi' = [t \in Time |-> IF t = T - 1 THEN xi[t] ELSE
                [s \in State |-> [r \in State |->
                    (alpha[t][s] ** A[s][r] ** B[r][observations[t + 1]] ** beta[t + 1][r]) // likelihood]]]
    /\ at' = "baum_welch"
    /\ UNCHANGED <<parameters, observations, alpha, beta, gamma, delta, psi, path, updates, stale>>

\* The rest of baum_welch(): new parameters, with all T of the xi and the gamma
\* of a state in the quotient.  Of a symbol that was not observed there is no
\* first gamma to fold: the optional that is read is empty.
baum_welch ==
    LET visits(s) == Total([t \in Time |-> gamma[t][s]])
        seen(o)   == {t \in Time : observations[t] = o}
    IN  /\ at = "baum_welch" /\ updates < MaxUpdates
        /\ pi' = gamma[0]
        /\ A' = [s \in State |-> [r \in State |-> Total([t \in Time |-> xi[t][s][r]]) // visits(s)]]
        /\ \E j \in [State -> [Symbol -> Junk]] :
            B' = [s \in State |-> [o \in Symbol |->
                    (IF seen(o) = {} THEN j[s][o] ELSE Total([t \in seen(o) |-> gamma[t][s]])) // visits(s)]]
        /\ at' \in {"update_observations", "viterbi"}
        /\ updates' = updates + 1
        /\ UNCHANGED <<observations, alpha, beta, gamma, xi, delta, psi, path, stale>>

-----------------------------------------------------------------------------
(* viterbi().                                                              *)

\* Nothing compares with a NaN: only numbers above 0 replace max_prob = 0.
Positive(p) == {s \in State : Less(Zero, p[s])}

\* Mutant: max_state keeps its initial value.
NoState(p) == 0

\* max_state: the first state with the greatest p above 0.
MostLikely(p) ==
    IF Positive(p) = {} THEN 0
    ELSE CHOOSE s \in Positive(p) : \A r \in Positive(p) :
            IF r < s THEN Less(p[r], p[s]) ELSE ~Less(p[s], p[r])

\* max_prob
Greatest(p) == IF Positive(p) = {} THEN Zero ELSE p[MostLikely(p)]

\* std::ranges::max_element
MaxElement(p) ==
    LET largest[s \in State] ==
            IF s = 0 THEN 0
            ELSE LET l == largest[s - 1] IN IF Less(p[l], p[s]) THEN s ELSE l
    IN  largest[N - 1]

\* The elements of path[t], ..., path[T - 1], given psi; those beyond the array
\* are written to where any state may stand when they are read back.
PathsBack(psi1, last) ==
    LET back[t \in Time] ==
            IF t = T - 1 THEN {last}
            ELSE {psi1[t + 1][q] : q \in IF t + 1 < N THEN back[t + 1] ELSE State}
    IN  back

viterbi ==
    LET d[t \in Time] ==
            IF t = 0 THEN [s \in State |-> pi[s] ** B[s][observations[0]]]
            ELSE LET prev == d[t - 1] IN
                 [s \in State |-> LET p == [r \in State |-> prev[r] ** A[r][s]]
                                  IN Greatest(p) ** B[s][observations[t]]]
        delta1 == [t \in Time |-> d[t]]
        psi1 == [t \in Time |-> [s \in State |->
                    IF t = 0 THEN 0 ELSE MostLikely([r \in State |-> delta1[t - 1][r] ** A[r][s]])]]
        last == MaxElement(delta1[T - 1])
        traced(q) == \A t \in Time : t < N =>
                        IF t = T - 1 THEN q[t] = last
                        ELSE IF t + 1 < N THEN q[t] = psi1[t + 1][q[t + 1]]
                        ELSE q[t] \in PathsBack(psi1, last)[t]
    IN  /\ at = "viterbi"
        /\ delta' = delta1
        /\ psi' = psi1
        /\ path' \in {q \in [State -> State] : traced(q) /\ \A t \in State \ Time : q[t] = path[t]}
        /\ at' = "done"
        /\ UNCHANGED <<parameters, observations, alpha, beta, gamma, xi, updates, stale>>

Next ==
    \/ update_observations
    \/ forward \/ backward \/ init_gamma \/ init_xi \/ baum_welch
    \/ viterbi

Spec == Init /\ [][Next]_vars

-----------------------------------------------------------------------------
(* The definitions the algorithms are checked against.                     *)

Paths(n) == [0 .. n -> State]

\* P(q and the observations up to time n).
Weight(q, n) ==
    LET w[t \in 0 .. n] ==
            (IF t = 0 THEN pi[q[0]] ELSE w[t - 1] ** A[q[t - 1]][q[t]]) ** B[q[t]][observations[t]]
    IN  w[n]

SumOver(S, w(_)) == Total([q \in S |-> w(q)])

Evidence == SumOver(Paths(T - 1), LAMBDA q : Weight(q, T - 1))

\* Paths of any length.
Walks == UNION {Paths(n) : n \in Time}

Last(q) == Max(DOMAIN q)

\* backward() adds to what beta held: a walk may stop at any time, and what was
\* in its place stands for the rest of the observations.
Value(q) ==
    LET n == Last(q)
    IN  Weight(q, n) ** (IF n = T - 1 THEN One ELSE stale[n][q[n]])

\* No parameter came of a division by zero, as those of a state do that no path
\* visits.
Defined == \A s \in State :
    pi[s] # NaN /\ (\A r \in State : A[s][r] # NaN) /\ (\A o \in Symbol : B[s][o] # NaN)

\* Every state of q up to n is the one psi gives for the state after it.
Traced(q, n) == \A t \in 0 .. n - 1 : q[t] = psi[t + 1][q[t + 1]]

\* No path up to n weighs more.
IsMostLikely(q, n) == \A p \in Paths(n) : ~Less(Weight(q, n), Weight(p, n))

-----------------------------------------------------------------------------
(* Properties.                                                             *)

\* forward(): alpha[t][s] is the weight of all paths that are in s at t, and the
\* likelihood that of all paths.
ForwardSumsPaths ==
    at = "backward" =>
        /\ \A t \in Time, s \in State :
            alpha[t][s] = SumOver({q \in Paths(t) : q[t] = s}, LAMBDA q : Weight(q, t))
        /\ likelihood = Evidence

\* backward(), init_gamma() and init_xi(), in every epoch and over any memory:
\* gamma and xi are shares of all walks through a state and through a move.
\* Over a beta of zeros these are the posterior probabilities.
GammaAndXiSumWalks ==
    at = "baum_welch" =>
        /\ \A t \in Time, s \in State :
            gamma[t][s] = SumOver({q \in Walks : t <= Last(q) /\ q[t] = s}, Value) // Evidence
        /\ \A t \in 0 .. T - 2, s \in State, r \in State :
            xi[t][s][r] =
                SumOver({q \in Walks : t < Last(q) /\ q[t] = s /\ q[t + 1] = r}, Value) // Evidence

\* The dynamic programs of an epoch compute what their definitions sum over
\* exponentially many paths.
EpochComputesSums == ForwardSumsPaths /\ GammaAndXiSumWalks

\* init_gamma(), "sum of gamma[t] == 1" (HMM_JH/main.cpp:263), of a model that
\* can have made the observations.
GammaSumsToOne ==
    at = "init_xi" /\ likelihood \notin {Zero, NaN} => \A t \in Time : Total(gamma[t]) = One

\* viterbi(): of all paths to a state at a time none weighs more than delta says,
\* and one that psi traces back weighs that much; traced back from the greatest
\* last delta it is a most likely path.  As far as the array goes, path is traced
\* back; with an element for every time it is a most likely path.
ViterbiFindsBestPaths ==
    at = "done" /\ Defined =>
        LET end  == IF T <= N THEN T - 1 ELSE N - 1
            best == [t \in 0 .. end |-> path[t]]
        IN  /\ \A t \in Time : \A q \in Paths(t) :
                /\ ~Less(delta[t][q[t]], Weight(q, t))
                /\ Traced(q, t) => Weight(q, t) = delta[t][q[t]]
            /\ \A q \in Paths(T - 1) :
                Traced(q, T - 1) /\ q[T - 1] = MaxElement(delta[T - 1]) => IsMostLikely(q, T - 1)
            /\ Weight(best, end) = delta[end][path[end]]
            /\ T <= N => IsMostLikely(best, end)
=============================================================================
