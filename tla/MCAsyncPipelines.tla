-------------------------- MODULE MCAsyncPipelines --------------------------
(* AsyncPipelines for TLC: two creation calls that share a shader module.    *)
EXTENDS AsyncPipelines

CONSTANTS shader, layout, p1, p2, p3

Call(uses, pipelines) == [uses |-> uses, pipelines |-> pipelines]

MCTasks == {1, 2}
MCDependencies == {shader, layout}
MCPrograms ==
  {<<Call({shader}, <<p1, p2>>), Call({shader, layout}, <<p3>>)>>}
=============================================================================
