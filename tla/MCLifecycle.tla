---------------------------- MODULE MCLifecycle -----------------------------
(* Instances of Lifecycle for TLC. *)
EXTENDS Lifecycle

\* Nothing set; then every environment of one loop whose ticker, or whose Lock,
\* may have no interval.
Nothing == [s \in Numbers \cup Flags |-> "absent"]
MCCacheEnvs ==
    {Nothing}
    \cup {[Nothing EXCEPT !.inProgress = "true", !.pruneInterval = n] : n \in Number}
    \cup {[Nothing EXCEPT !.notFound = f, !.mutexRetryInterval = n, !.mutexDisabled = d,
                          !.notFoundPruneInterval = "nonpositive"] :
             f \in {"true", "unparsable"}, n \in {"unparsable", "nonpositive"}, d \in {"true", "false"}}

\* The metrics, whose Close may panic, apart from the others.
MCConfigs ==
    [otel : {{}, {"metrics"}, {"logger", "tracer"}, Telemetry}, authzDisabled : BOOLEAN]
=============================================================================
