------------------------- MODULE MCDocumentedClaims -------------------------
(***************************************************************************)
(* What the documents and comments say of the delivery lifecycle and the   *)
(* code does not do.  Each claim is checked alone and found violated.      *)
(***************************************************************************)
EXTENDS MCDeliveryLifecycle

\* README.md:117, "Network loss is transient": recovered output that meets a
\* network error leaves the watch task alive (no save fails in this run).
NetworkLossIsTransient ==
  [][\A s \in Sources, g \in Runs :
       At(s, g, "unsent-retry") /\ Recovering(s, g) => watch' # "dead"]_vars

\* delivery-lifecycle-contract-v1.md:36, step 6 persists a "blocked diagnosis":
\* the file the adapter writes is one its own loader accepts.
StateFileLoads == Loadable
=============================================================================
