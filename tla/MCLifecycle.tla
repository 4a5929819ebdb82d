---------------------------- MODULE MCLifecycle -----------------------------
EXTENDS Lifecycle

\* A restart among elected replicas; one that is busy when it is told to stop;
\* a busy one pinned by RUN_JOBS=true.
MCDeployments ==
  {[jobs |-> [r \in Replicas |-> "elect"], served |-> {}]} \cup
  {[jobs |-> [r \in Replicas |-> IF r = q THEN mode ELSE "off"], served |-> {q}] :
     q \in {CHOOSE q \in Replicas : TRUE}, mode \in {"elect", "always"}}
=============================================================================
