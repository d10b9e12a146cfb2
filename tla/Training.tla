------------------------------ MODULE Training ------------------------------
(***************************************************************************)
(* The training loop of main() in HMM_JH/main.cpp: epochs of EpochSize     *)
(* observations, each read from one line of a file of delays, until a line *)
(* yields none.  A line is "number" (it ends in digits that stoi takes),   *)
(* "other" (it does not end in digits) or "huge" (stoi throws, and nobody  *)
(* catches it).  What an epoch does with its observations is in Hmm.       *)
(***************************************************************************)
EXTENDS Naturals, Sequences

CONSTANTS
    EpochSize,  \* the observations of an epoch: the code's T
    Files       \* the files that may be there: sequences of lines

Line == {"number", "other", "huge"}

ASSUME TrainingAssumption ==
    /\ EpochSize \in Nat \ {0}
    /\ Files \subseteq Seq(Line)

VARIABLES
    file,           \* the lines
    pos,            \* the lines getline has taken
    lines,          \* the line each of the observations comes from, 0 for none
    end_of_file,
    epoch_num,
    trained,        \* the sequences baum_welch was given
    place

train_vars == <<file, pos, lines, end_of_file, epoch_num, trained, place>>

-----------------------------------------------------------------------------
TrainInit ==
    /\ file \in Files
    /\ pos = 0 /\ lines = <<>> /\ end_of_file = FALSE
    /\ epoch_num = 0 /\ trained = <<>> /\ place = "while"

\* while (not end_of_file)
BeginEpoch ==
    /\ place = "while" /\ ~end_of_file
    /\ epoch_num' = epoch_num + 1
    /\ lines' = <<>>
    /\ place' = "read"
    /\ UNCHANGED <<file, pos, end_of_file, trained>>

\* getline, regex_search and stoi give a number.
ReadNumber ==
    /\ place = "read" /\ Len(lines) < EpochSize
    /\ pos < Len(file) /\ file[pos + 1] = "number"
    /\ pos' = pos + 1
    /\ lines' = Append(lines, pos + 1)
    /\ UNCHANGED <<file, end_of_file, epoch_num, trained, place>>

\* Mutant: only the end of the file ends training.
ReadOtherGoesOn ==
    /\ place = "read" /\ Len(lines) < EpochSize
    /\ pos < Len(file) => file[pos + 1] = "other"
    /\ pos' = IF pos < Len(file) THEN pos + 1 ELSE pos
    /\ lines' = Append(lines, 0)
    /\ end_of_file' = (end_of_file \/ pos >= Len(file))
    /\ UNCHANGED <<file, epoch_num, trained, place>>

\* Mutant: a line without a number is skipped over.
ReadOtherSkipped ==
    /\ place = "read" /\ Len(lines) < EpochSize
    /\ pos < Len(file) => file[pos + 1] = "other"
    /\ pos' = IF pos < Len(file) THEN pos + 1 ELSE pos
    /\ lines' = IF pos < Len(file) THEN lines ELSE Append(lines, 0)
    /\ end_of_file' = (end_of_file \/ pos >= Len(file))
    /\ UNCHANGED <<file, epoch_num, trained, place>>

\* No line, or none that ends in digits: the observation is 0 and this epoch is
\* the last, whatever lines are left.
ReadNothing ==
    /\ place = "read" /\ Len(lines) < EpochSize
    /\ pos < Len(file) => file[pos + 1] = "other"
    /\ pos' = IF pos < Len(file) THEN pos + 1 ELSE pos
    /\ lines' = Append(lines, 0)
    /\ end_of_file' = TRUE
    /\ UNCHANGED <<file, epoch_num, trained, place>>

\* Mutant: the exception is caught and the line taken for one without a number.
ThrowCaught ==
    /\ place = "read" /\ Len(lines) < EpochSize
    /\ pos < Len(file) /\ file[pos + 1] = "huge"
    /\ pos' = pos + 1
    /\ lines' = Append(lines, 0)
    /\ end_of_file' = TRUE
    /\ UNCHANGED <<file, epoch_num, trained, place>>

\* stoi throws: the process ends.
Throw ==
    /\ place = "read" /\ Len(lines) < EpochSize
    /\ pos < Len(file) /\ file[pos + 1] = "huge"
    /\ place' = "terminated"
    /\ UNCHANGED <<file, pos, lines, end_of_file, epoch_num, trained>>

\* hmm.baum_welch()
Train ==
    /\ place = "read" /\ Len(lines) = EpochSize
    /\ trained' = Append(trained, lines)
    /\ place' = "while"
    /\ UNCHANGED <<file, pos, lines, end_of_file, epoch_num>>

\* hmm.viterbi() and print()
Finish ==
    /\ place = "while" /\ end_of_file
    /\ place' = "done"
    /\ UNCHANGED <<file, pos, lines, end_of_file, epoch_num, trained>>

TrainNext == BeginEpoch \/ ReadNumber \/ ReadNothing \/ Throw \/ Train \/ Finish

TrainSpec == TrainInit /\ [][TrainNext]_train_vars

-----------------------------------------------------------------------------
(* Properties.                                                             *)

TrainTypeOK ==
    /\ file \in Files
    /\ pos \in 0 .. Len(file)
    /\ lines \in Seq(Nat) /\ Len(lines) <= EpochSize
    /\ end_of_file \in BOOLEAN
    /\ epoch_num \in Nat
    /\ trained \in Seq(Seq(Nat))
    /\ place \in {"while", "read", "done", "terminated"}

\* Every observation is a line of the file and lines are used once and in
\* order, over all epochs: observation i of epoch e is line (e - 1) * EpochSize +
\* i, or the padding 0.
LinesInOrder ==
    \A e \in 1 .. Len(trained) : \A i \in 1 .. EpochSize :
        trained[e][i] \in {0, (e - 1) * EpochSize + i}

\* Only the last epoch is padded: training never goes on from an epoch that
\* missed an observation.
PaddingOnlyInLastEpoch ==
    \A e \in 1 .. Len(trained) : (\E i \in 1 .. EpochSize : trained[e][i] = 0) =>
        e = Len(trained) /\ end_of_file /\ place \in {"while", "done"}

\* A file of numbers gives one epoch more than it fills: one of nothing but
\* padding when its length is a multiple of EpochSize.
EpochsOfNumbers ==
    place = "done" /\ (\A n \in 1 .. Len(file) : file[n] = "number") =>
        Len(trained) = Len(file) \div EpochSize + 1

\* Training ends for every file: at a number too large for stoi, after every
\* line was used, or because of a line without a number in the last epoch.
EndsForAReason ==
    <>\/ place = "terminated" /\ file[pos + 1] = "huge"
      \/ place = "done" /\ pos = Len(file)
      \/ place = "done" /\ \E n \in 1 .. Len(file) : file[n] = "other" /\ pos - EpochSize < n /\ n <= pos
=============================================================================
