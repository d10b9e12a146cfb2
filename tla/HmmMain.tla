------------------------------- MODULE HmmMain -------------------------------
(***************************************************************************)
(* main() of HMM_JH/main.cpp: the loop of Training around the functions of *)
(* Hmm.  The lines of an epoch become its observations; the model, and     *)
(* whatever its functions leave in its tables, is the same in every epoch. *)
(***************************************************************************)
EXTENDS Hmm, Training

ASSUME EpochIsT == EpochSize = T

main_vars == <<vars, train_vars>>

MainInit == Init /\ TrainInit

\* The view that update_observations() copies takes the lines one by one.
Read ==
    /\ at = "update_observations"
    /\ BeginEpoch \/ ReadNumber \/ ReadNothing \/ Throw
    /\ UNCHANGED vars

\* It gives a number modulo 10, any symbol, or 0 where there is none.
Observe ==
    /\ Train /\ update_observations
    /\ \A t \in Time : lines[t + 1] = 0 => observations'[t] = 0

Epoch ==
    /\ \/ forward \/ backward \/ init_gamma \/ init_xi
       \/ baum_welch /\ at' = (IF end_of_file THEN "viterbi" ELSE "update_observations")
    /\ UNCHANGED train_vars

Decode == Finish /\ viterbi

MainNext == Read \/ Observe \/ Epoch \/ Decode

MainSpec == MainInit /\ [][MainNext]_main_vars

\* The functions of the model return ...
Function == {"forward", "backward", "init_gamma", "init_xi", "baum_welch", "viterbi"}
Returns  == at \in Function /\ at' \in (Function \cup {"update_observations", "done"}) \ {at}

\* ... and main() goes on.
Fairness == WF_main_vars(Read) /\ WF_main_vars(Observe) /\ WF_at(Returns)
=============================================================================
