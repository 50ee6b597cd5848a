------------------------ MODULE MCServiceContainer -------------------------
(* Instances of the service container for TLC: one service of each         *)
(* lifetime, or the async singleton of the queue worker.                   *)
EXTENDS ServiceContainer, TLC

NoServices == [v \in {} |-> "singleton"]

OneOfEach ==
  AddAsyncScoped(AddAsyncSingleton(AddScoped(AddTransient(AddSingleton(NoServices,
    "settings"), "service config"), "session"), "blob helper"), "document session")

AsyncHelper == AddAsyncSingleton(NoServices, "AsyncStorageBlobHelper")

Symmetry == Permutations(Scope)
=============================================================================
