------------------------------ MODULE MCFetch -------------------------------
(***************************************************************************)
(* Instances of fetchAll for TLC.                                          *)
(***************************************************************************)
EXTENDS Fetch

CONSTANTS h1, h2, h3, f1, f2

\* Documents of up to three resolvents, but for the names of their hashes:
\* none, one, repeated ones, and three different ones.
UpToThree ==
  {<<>>, <<h1>>, <<h1, h2>>, <<h1, h1, h2>>, <<h1, h2, h1>>, <<h1, h2, h3>>}

\* Only mode "use" reads what the cache holds when the pass begins; a hit is
\* never forced, and two resolvents that may have one are enough.
MCInit == FetchInit /\ series \subseteq (IF mode = "use" THEN {h1, h2} ELSE {})
MCSpec == MCInit /\ [][FetchNext]_passVars /\ Fairness
=============================================================================
