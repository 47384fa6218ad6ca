----------------------------- MODULE MCService -----------------------------
(* Two threads, two factories that hide and repeat each other's IDs, and   *)
(* default locales that decide where the search for a missing ID goes on.  *)
EXTENDS Service, TLC

CONSTANTS t1, t2

MCTruncated == "" :> "" @@ "en" :> "" @@ "en_US" :> "en"

MCHandles == "f" :> {"en", ""} @@ "g" :> {"en_US", ""}

Symmetry == Permutations(Threads)
=============================================================================
