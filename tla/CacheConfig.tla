---------------------------- MODULE CacheConfig -----------------------------
(***************************************************************************)
(* The configuration of the cache (redis.go Configure), and what it takes  *)
(* for its tickers: a ticker of no positive interval panics, in a prune    *)
(* loop with nothing to recover it, or in the Lock of a request.           *)
(***************************************************************************)
EXTENDS FiniteSets

\* A variable of the environment: absent, not parsed, or a number by its sign.
Number == {"absent", "unparsable", "nonpositive", "positive"}
Flag == {"absent", "unparsable", "true", "false"}
Settings == [pruneInterval : Number, mutexRetryInterval : Number, mutexExpiration : Number,
             notFoundPruneInterval : Number,
             inProgress : Flag, notFound : Flag, mutexDisabled : Flag]

Numbers == {"pruneInterval", "mutexRetryInterval", "mutexExpiration", "notFoundPruneInterval"}
Flags == {"inProgress", "notFound", "mutexDisabled"}

\* Bug: the interval of the not-found loop has no default.
ConfiguredNoDefault(e) ==
    [n \in Numbers \cup Flags |->
        IF n \in Flags THEN (IF e[n] = "true" THEN "true" ELSE "false")
        ELSE IF n = "mutexRetryInterval" /\ e[n] # "unparsable" THEN "positive"
        ELSE IF e[n] = "positive" THEN "positive" ELSE "nonpositive"]

\* A number that is given is taken for a default, but for the retry interval, which
\* is taken only if Atoi refused it, as its 0; the prune interval has no default, and
\* the not-found loop's takes its own for anything below one.
Configured(e) ==
    [n \in Numbers \cup Flags |->
        IF n \in Flags THEN IF e[n] = "true" THEN "true" ELSE "false"
        ELSE CASE n = "mutexRetryInterval" ->
                    IF e[n] = "unparsable" THEN "nonpositive" ELSE "positive"
               [] n = "notFoundPruneInterval" -> "positive"
               [] n = "mutexExpiration" ->
                    IF e[n] = "nonpositive" THEN "nonpositive" ELSE "positive"
               [] OTHER -> IF e[n] = "positive" THEN "positive" ELSE "nonpositive"]

\* The prune loops that Open launches, and the interval of the ticker of each.
Launched(config) == {f \in {"inProgress", "notFound"} : config[f] = "true"}
Interval(loop) == IF loop = "inProgress" THEN "pruneInterval" ELSE "notFoundPruneInterval"

\* Open waits for each loop to have its ticker, which one of no positive interval
\* never gets.
TickersStart(config) == \A loop \in Launched(config) : config[Interval(loop)] = "positive"

\* Lock makes a ticker when the key is set, in a prune loop as in a request.
LockTickerPanics(config) ==
    config["mutexDisabled"] # "true" /\ config["mutexRetryInterval"] # "positive"
=============================================================================
