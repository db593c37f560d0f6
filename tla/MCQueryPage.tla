----------------------------- MODULE MCQueryPage ----------------------------
(* The instances of QueryPage that TLC checks. *)
EXTENDS QueryPage

(* Bounds of the initial states: the user starts in the first team, if in   *)
(* any, and only that one starts with more than one repository.             *)
(* Repositories are interchangeable: with two, one initial state stands for *)
(* those that only name them otherwise.                                     *)
First == CHOOSE t \in Team : TRUE
Low == CHOOSE r \in Repo : TRUE

Start ==
  /\ member[User] = {} \/ First \in member[User]
  /\ grants[First] = {} \/ Low \in grants[First]
  /\ \A t \in Team \ {First} : Cardinality(grants[t]) =< 1

MCInit == PInit /\ Start

MCSpec == MCInit /\ [][PNext]_pvars /\ WF_pvars(FetchStep)
=============================================================================
