------------------------------ MODULE Rollout ------------------------------
(***************************************************************************)
(* From a training to a load balancer that runs with its result: the file  *)
(* the trainer writes (saveJSON in cmd/mopso-train/main.go), the copies    *)
(* the Makefile makes of it, and what a load balancer that starts makes of *)
(* its environment and its files (pkg/config/config.go, cmd/lb/main.go).   *)
(*                                                                         *)
(* One training is followed; the make targets run one after the other, so  *)
(* nothing is pushed while it lasts.  A parameter file is known by what it *)
(* holds: nothing, a part of a vector, the vector of an earlier training,  *)
(* or the one of this.                                                     *)
(***************************************************************************)
EXTENDS Trainer

VARIABLES
    process,    \* of the trainer: "running", "writing", "written", "gone"
    artifact,   \* storage/optimized_fuzzy_params.json, where it is trained
    active,     \* configs/optimized_fuzzy_params.json of the load balancer
    standing,   \* whether its base and output files are there and complete
    lb          \* the load balancer: how it runs, or Down

trainerVars == vars
rolloutVars == <<artifact, active, standing, lb>>
allVars == <<trainerVars, process, rolloutVars>>

Down == [strategy |-> [tag |-> "none", engine |-> "none"], profile |-> "none"]

\* A file is "missing", "torn", "old" or "new".
Whole(content) == content \in {"old", "new"}

RolloutInit ==
    /\ Init
    /\ process = "running"
    /\ artifact \in {"missing", "old"} /\ active \in {"missing", "old"}
    /\ standing \in BOOLEAN
    /\ lb = Down

-----------------------------------------------------------------------------
(***************************************************************************)
(* The trainer's process                                                   *)
(***************************************************************************)
Train ==
    /\ process = "running"
    /\ Next
    /\ UNCHANGED <<process, rolloutVars>>

\* os.Create leaves an empty file, which the encoder then fills.
CreateFile ==
    /\ process = "running" /\ step = "done" /\ saved # {}
    /\ process' = "writing"
    /\ artifact' = "torn"
    /\ UNCHANGED <<trainerVars, active, standing, lb>>

Encode ==
    /\ process = "writing"
    /\ process' = "written"
    /\ artifact' = "new"
    /\ UNCHANGED <<trainerVars, active, standing, lb>>

\* The trainer ends, fails or is killed, and its memory is gone.
Exit ==
    /\ process # "gone"
    /\ process' = "gone"
    /\ step' = "done" /\ iteration' = 1 /\ particle' = 1
    /\ archive' = <<>> /\ results' = <<>> /\ runs' = 0
    /\ pbest' = [p \in Particles |-> {}] /\ seen' = [p \in Particles |-> {}]
    /\ UNCHANGED <<base, saved, rolloutVars>>

\* params-push-optimized of the Makefile stages the artifact, whoever left it,
\* and replaces the remote file at once (mv).
Push ==
    /\ process = "gone"
    /\ artifact # "missing"
    /\ active' = artifact
    /\ UNCHANGED <<trainerVars, process, artifact, standing, lb>>

-----------------------------------------------------------------------------
(***************************************************************************)
(* The start of a load balancer: config.Load and main                      *)
(***************************************************************************)
\* A variable of the environment that is empty counts as not set.
Environments ==
    [LB_ALGORITHM : {"", "rr", "fuzzy", "fmopso", "other"},
     LB_ALGO : {"", "rr", "fuzzy", "fmopso", "other"},
     FUZZY_PARAM_SOURCE : {"", "base", "optimized", "other"}]

EnvLowerAliases(env) ==
    IF env.LB_ALGORITHM # "" THEN env.LB_ALGORITHM
    ELSE IF env.LB_ALGO # "" THEN env.LB_ALGO
    ELSE "fuzzy"

EnvSource(env) ==
    IF env.FUZZY_PARAM_SOURCE # "" THEN env.FUZZY_PARAM_SOURCE ELSE "base"

NeedOptimized(env) ==
    EnvLowerAliases(env) = "fmopso" \/ EnvSource(env) = "optimized"

\* Both parsers refuse what they do not know, and loadFloatArrayStrict a file
\* that is not 27 numbers; the base files are read in every mode.
Loads(env) ==
    /\ EnvLowerAliases(env) # "other" /\ EnvSource(env) # "other"
    /\ standing
    /\ NeedOptimized(env) => Whole(active)

ParamProfile(env) == IF NeedOptimized(env) THEN "OPTIMIZED_MOPSO" ELSE "BASE"
MOPSOEngine(env)  == IF NeedOptimized(env) THEN active ELSE "base"

\* Mutant: the algorithm alone decides which engine is used.
EngineByAlgorithm(env) ==
    CASE EnvLowerAliases(env) = "rr"     -> [tag |-> "RR", engine |-> "none"]
      [] EnvLowerAliases(env) = "fmopso" -> [tag |-> "FUZZY_MOPSO", engine |-> MOPSOEngine(env)]
      [] OTHER                           -> [tag |-> "FUZZY_BASE", engine |-> "base"]

ActiveStrategy(env) ==
    CASE EnvLowerAliases(env) = "rr" -> [tag |-> "RR", engine |-> "none"]
      [] \/ EnvLowerAliases(env) = "fmopso"
         \/ /\ EnvLowerAliases(env) = "fuzzy"
            /\ ParamProfile(env) = "OPTIMIZED_MOPSO" ->
            [tag |-> "FUZZY_MOPSO", engine |-> MOPSOEngine(env)]
      [] OTHER -> [tag |-> "FUZZY_BASE", engine |-> "base"]

\* A service update starts the balancer anew, with any environment; one that
\* cannot load its configuration does not run.
Start ==
    /\ process = "gone"
    /\ \E env \in Environments :
          lb' = IF Loads(env)
                THEN [strategy |-> ActiveStrategy(env),
                      profile |-> ParamProfile(env)]
                ELSE Down
    /\ UNCHANGED <<trainerVars, process, artifact, active, standing>>

RolloutNext == Train \/ CreateFile \/ Encode \/ Exit \/ Push \/ Start

RolloutSpec == RolloutInit /\ [][RolloutNext]_allVars

-----------------------------------------------------------------------------
(***************************************************************************)
(* Properties                                                              *)
(***************************************************************************)

\* Of a fuzzy balancer that runs, profile, tag and engine agree: it scores with
\* the base parameters or with those of a training, as the runtime page, the
\* snapshots and the metrics say.  A vector that was written in part never
\* serves, and the vector of this training only if it was worth saving.
ServesWhatItSays ==
    lb # Down /\ lb.strategy.tag # "RR" =>
        LET engine == lb.strategy.engine
        IN  /\ lb.profile = "BASE" <=> lb.strategy.tag = "FUZZY_BASE"
            /\ lb.profile = "BASE" <=> engine = "base"
            /\ engine \in {"base", "old", "new"}
            /\ engine = "new" => \E s \in saved : BeatsTheBase(s)

=============================================================================
