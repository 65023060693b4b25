----------------------------- MODULE ServiceOrder -----------------------------
(***************************************************************************)
(* The order in which services are started: the depth-first search of      *)
(* Orchestrator._resolve_service_order, which DockFleetConfig's            *)
(* validate_depends_on also makes, to refuse a configuration whose         *)
(* services depend on each other in a circle and to say which.             *)
(*                                                                         *)
(* One step is one iteration of a loop or one return of `visit`.  The      *)
(* order of the services in the file, and of the dependencies of each, is  *)
(* left open: whatever it is, the search takes one of these behaviours.    *)
(***************************************************************************)
EXTENDS Naturals, Sequences, SequencesExt

CONSTANT Services

VARIABLES
  depends,   \* [Services -> SUBSET Services]: the configuration
  path,      \* the calls of `visit` under way, outermost first: `visiting`
  left,      \* [Services -> SUBSET Services]: dependencies yet to be looked at
  order,     \* the services visited, in the order they were appended
  circle,    \* the circle the validator reports
  status     \* "searching", "sorted" or "circular"

vars == <<depends, path, left, order, circle, status>>

visited == Range(order)
visiting == Range(path)

Init ==
  /\ depends \in [Services -> SUBSET Services]
  /\ path = <<>> /\ left = depends
  /\ order = <<>> /\ circle = <<>>
  /\ status = "searching"

\* mutant: a service is visited again for its own entry in the file
VisitRootAgain(name) ==
  /\ status = "searching" /\ path = <<>>
  /\ visited # Services
  /\ path' = <<name>>
  /\ UNCHANGED <<depends, left, order, circle, status>>

VisitRoot(name) ==
  /\ status = "searching" /\ path = <<>>
  /\ name \notin visited
  /\ path' = <<name>>
  /\ UNCHANGED <<depends, left, order, circle, status>>

\* The circle: the path from where dep was entered, and dep again.
CircleFrom(dep) ==
  Append(SubSeq(path, CHOOSE i \in DOMAIN path : path[i] = dep, Len(path)), dep)

\* mutant: a service that is being visited counts as visited
VisitDependencyAgain(dep) ==
  LET name == path[Len(path)]
  IN  /\ status = "searching" /\ path # <<>>
      /\ dep \in left[name]
      /\ left' = [left EXCEPT ![name] = @ \ {dep}]
      /\ path' = IF dep \in visiting \cup visited THEN path ELSE Append(path, dep)
      /\ UNCHANGED <<depends, order, circle, status>>

\* mutant: the whole path is reported
VisitDependencyWholePath(dep) ==
  LET name == path[Len(path)]
  IN  /\ status = "searching" /\ path # <<>>
      /\ dep \in left[name]
      /\ left' = [left EXCEPT ![name] = @ \ {dep}]
      /\ IF dep \in visiting
         THEN status' = "circular" /\ circle' = Append(path, dep) /\ UNCHANGED path
         ELSE /\ path' = IF dep \in visited THEN path ELSE Append(path, dep)
              /\ UNCHANGED <<circle, status>>
      /\ UNCHANGED <<depends, order>>

VisitDependency(dep) ==
  LET name == path[Len(path)]
  IN  /\ status = "searching" /\ path # <<>>
      /\ dep \in left[name]
      /\ left' = [left EXCEPT ![name] = @ \ {dep}]
      /\ IF dep \in visiting
         THEN status' = "circular" /\ circle' = CircleFrom(dep) /\ UNCHANGED path
         ELSE /\ path' = IF dep \in visited THEN path ELSE Append(path, dep)
              /\ UNCHANGED <<circle, status>>
      /\ UNCHANGED <<depends, order>>

\* mutant: appended on the way in, when the first dependency is still to come
LeaveEarly ==
  LET name == path[Len(path)]
  IN  /\ status = "searching" /\ path # <<>>
      /\ path' = SubSeq(path, 1, Len(path) - 1)
      /\ order' = Append(order, name)
      /\ UNCHANGED <<depends, left, circle, status>>

\* mutant: the service is not marked as visited
LeaveForgets ==
  LET name == path[Len(path)]
  IN  /\ status = "searching" /\ path # <<>>
      /\ left[name] = {}
      /\ path' = SubSeq(path, 1, Len(path) - 1)
      /\ UNCHANGED <<depends, left, order, circle, status>>

Leave ==
  LET name == path[Len(path)]
  IN  /\ status = "searching" /\ path # <<>>
      /\ left[name] = {}
      /\ path' = SubSeq(path, 1, Len(path) - 1)
      /\ order' = Append(order, name)
      /\ UNCHANGED <<depends, left, circle, status>>

Return ==
  /\ status = "searching" /\ path = <<>> /\ visited = Services
  /\ status' = "sorted"
  /\ UNCHANGED <<depends, path, left, order, circle>>

Next ==
  \/ \E name \in Services : VisitRoot(name) \/ VisitDependency(name)
  \/ Leave \/ Return

Spec == Init /\ [][Next]_vars
FairSpec == Spec /\ WF_vars(Next)

(***************************************************************************)
(* Properties.                                                             *)
(***************************************************************************)
\* Every variable stays within its type: a service is visited once, and `visiting` and
\* `visited` never overlap.
TypeOK ==
  /\ depends \in [Services -> SUBSET Services]
  /\ path \in Seq(Services) /\ order \in Seq(Services) /\ circle \in Seq(Services)
  /\ left \in [Services -> SUBSET Services]
  /\ status \in {"searching", "sorted", "circular"}
  /\ visiting \cap visited = {}
  /\ \A i, j \in DOMAIN path : path[i] = path[j] => i = j

\* In the order so far every service comes once, and behind all it depends on.
DependenciesFirst ==
  \A i \in DOMAIN order :
    /\ depends[order[i]] \subseteq {order[j] : j \in 1 .. i - 1}
    /\ \A j \in 1 .. i - 1 : order[j] # order[i]

\* A refused configuration has a circle, and the one named in the message is one:
\* each service in it depends on the next, and it ends where it began.
CircleIsReal ==
  status = "circular" =>
    /\ Len(circle) > 1 /\ circle[1] = circle[Len(circle)]
    /\ \A i \in 1 .. Len(circle) - 1 : circle[i + 1] \in depends[circle[i]]

\* A definition of a circle that does not search: some set of services in which each
\* depends on another of the set, or on itself.
Circular == \E S \in (SUBSET Services) \ {{}} : \A s \in S : depends[s] \cap S # {}

\* The search refuses exactly the configurations that have a circle.
Decides ==
  /\ status = "sorted" => ~Circular
  /\ status = "circular" => Circular

\* The search ends.
Ends == <>(status # "searching")
=============================================================================
