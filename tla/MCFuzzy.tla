------------------------------ MODULE MCFuzzy ------------------------------
(***************************************************************************)
(* Instances of Fuzzy and Replay for TLC.                                  *)
(***************************************************************************)
EXTENDS Replay

\* The capacities of config.go and configs/fuzzy_output_mf.json.
Capacities == <<100, 50>>
Output == [o \in Levels |->
    CASE o = 0 -> <<0, 0, 50>> [] o = 1 -> <<25, 50, 75>> [] o = 2 -> <<50, 100, 100>>]

\* configs/base_fuzzy_params.json
Base == <<0, 0, 50, 0, 50, 100, 50, 100, 100,
          0, 0, 500, 0, 500, 1000, 500, 1000, 1000,
          0, 0, 500, 0, 500, 1000, 500, 1000, 1000>>

\* configs/optimized_fuzzy_params.json, to whole numbers.
Optimized == <<0, 0, 5, 1, 10, 28, 11, 28, 100,
               0, 377, 850, 739, 900, 985, 971, 1000, 1000,
               0, 0, 67, 31, 100, 101, 100, 427, 1000>>

\* A repaired vector: the gap between two queue sets was closed where they
\* touch; and a triangle that is half a triangle.
Touching == <<0, 0, 50, 0, 0, 100, 50, 100, 100,
              0, 100, 500, 500, 800, 1000, 800, 1000, 1000,
              0, 0, 500, 0, 500, 1000, 500, 1000, 1000>>

SomeProfiles == {Base, Optimized, Touching}

\* The peaks of the base profile, the touching point, and values between and
\* beyond.
SomeCPUs   == {0, 25, 50, 100}
SomeQueues == {0, 500, 1000}
SomeTimes  == {0, 100, 500, 1500}

\* A node that served nothing, one request, and more.
SomeCounts == {0, 1, 4}
SomeIdles  == {0, 40}

\* What theorems of ReplayProofs suppose holds for these files: of the output
\* sets LessLoadNeverScoresLess and NoNodeStarves, of the parameters the latter.
ASSUME OutputAssumption == OutputsRise /\ OutputsInside
ASSUME ResolutionAssumption == Resolved
=============================================================================
