------------------------------ MODULE MCSereDict ------------------------------
EXTENDS SereDict

\* Integer keys are their own hashes (hashKey), so keys that are equal modulo
\* the capacity collide.
HashId == [k \in Keys |-> k]
===============================================================================
