---------------------------- MODULE MCControlLoop ----------------------------
(***************************************************************************)
(* An instance of ControlLoop for TLC: the default configuration, but for  *)
(* weights that are accepted although they add up to 1.009, on             *)
(* measurements close together, where drift goes unnoticed, and far apart. *)
(***************************************************************************)
EXTENDS ControlLoop, TLC

\* Each tag's levels; the heaviest, the queue, has levels to creep over.
Levels ==
    [cpu |-> {0, 100}, queue |-> {0, 1, 2, 3, 50},
     thermal |-> {100}, gpu |-> {95}, disk |-> {100}, rest |-> {0, 2}]

SomeSnapshots ==
    {[cpu |-> c, queue |-> q, thermal |-> t, gpu |-> g, disk |-> d,
      rest |-> r] :
        c \in Levels.cpu, q \in Levels.queue, t \in Levels.thermal,
        g \in Levels.gpu, d \in Levels.disk,
        r \in Levels.rest}

\* log1p, rounded to whole percents
SomeQueueNorm == (0 :> 0) @@ (1 :> 18) @@ (2 :> 28) @@ (3 :> 35) @@ (50 :> 100)

SomeWeights ==
    [cpu |-> 303, queue |-> 403, thermal |-> 101, gpu |-> 101, disk |-> 101]

\* Both outputs, one output beyond the range that is written
SomeAnswers ==
    {[PerformanceBoost |-> 80000, ProcessorFloor |-> 40000],
     [PerformanceBoost |-> 200000, ProcessorFloor |-> None]}
==============================================================================
