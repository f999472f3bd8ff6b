----------------------------- MODULE MCResolver -----------------------------
(***************************************************************************)
(* The resolver for TLC, one of its halves in a behaviour while the other  *)
(* rests at one of its initial states: chains, for every payload of three  *)
(* resolvents and three names; documents, for every one of five nodes and  *)
(* two keys, with the container at the root, one or two segments below it, *)
(* or missing.                                                             *)
(***************************************************************************)
EXTENDS Chains, Documents

VARIABLE half

MCPaths == {<<>>, <<1>>, <<1, 2>>}

\* A payload without references; a document of one object in another.
ChainsRest ==
  /\ name = [f \in Found |-> 0]
  /\ object = [f \in Found |-> [n \in Names |-> Absent]]
DocumentsRest ==
  /\ payload = Filed([c \in Nodes \ {Root} |-> <<c - 1, Min(Keys)>>])
  /\ kind = [n \in Nodes |-> "plain"]
  /\ path = <<>> /\ attach = FALSE

MCInit ==
  \/ half = "chains" /\ DocumentsRest /\ DocInit /\ Init
  \/ half = "documents" /\ ChainsRest /\ Init /\ DocInit

MCNext ==
  \/ half = "chains" /\ Next /\ UNCHANGED <<half, docVars>>
  \/ half = "documents" /\ DocNext /\ UNCHANGED <<half, vars>>

MCSpec == MCInit /\ [][MCNext]_<<half, vars, docVars>>
=============================================================================
