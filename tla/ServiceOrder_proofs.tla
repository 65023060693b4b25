-------------------------- MODULE ServiceOrder_proofs --------------------------
(***************************************************************************)
(* What TLAPS proves of the dependency search, for every set of services   *)
(* and every configuration.  The invariant says what the calls under way   *)
(* have done: of the dependencies a call has looked at all are visited     *)
(* but the one it is in; and nobody has looked at a service's dependencies *)
(* before it is visited.                                                   *)
(***************************************************************************)
EXTENDS ServiceOrder, WellFoundedInduction, TLAPS

\* Of a service under way, every dependency looked at is visited or entered next.
Looked ==
  status # "circular" =>
    \A i \in DOMAIN path : \A dep \in depends[path[i]] \ left[path[i]] :
      dep \in visited \/ (i < Len(path) /\ dep = path[i + 1])

\* Each call on the path was made for a dependency of the one before.
Chained == \A i \in 1 .. Len(path) - 1 : path[i + 1] \in depends[path[i]]

Untouched ==
  /\ \A s \in Services : left[s] \subseteq depends[s]
  /\ \A s \in Services \ (visited \cup visiting) : left[s] = depends[s]

SearchInv == TypeOK /\ DependenciesFirst /\ Looked /\ Chained /\ Untouched /\ CircleIsReal

-----------------------------------------------------------------------------
LEMMA AppendFacts ==
  ASSUME NEW S, NEW seq \in Seq(S), NEW e \in S
  PROVE  /\ Append(seq, e) \in Seq(S)
         /\ Len(Append(seq, e)) = Len(seq) + 1
         /\ DOMAIN Append(seq, e) = 1 .. Len(seq) + 1
         /\ \A i \in 1 .. Len(seq) : Append(seq, e)[i] = seq[i]
         /\ Append(seq, e)[Len(seq) + 1] = e
         /\ Range(Append(seq, e)) = Range(seq) \cup {e}
<1>1. /\ Append(seq, e) \in Seq(S) /\ Len(Append(seq, e)) = Len(seq) + 1
      /\ DOMAIN Append(seq, e) = 1 .. Len(seq) + 1
      /\ \A i \in 1 .. Len(seq) : Append(seq, e)[i] = seq[i]
      /\ Append(seq, e)[Len(seq) + 1] = e
  OBVIOUS
<1>2. Len(seq) \in Nat /\ DOMAIN seq = 1 .. Len(seq)
  OBVIOUS
<1>3. Range(Append(seq, e)) \subseteq Range(seq) \cup {e}
  BY <1>1, <1>2 DEF Range
<1>4. Range(seq) \subseteq Range(Append(seq, e)) /\ e \in Range(Append(seq, e))
  BY <1>1, <1>2 DEF Range
<1> QED
  BY <1>1, <1>3, <1>4

LEMMA FrontFacts ==
  ASSUME NEW S, NEW seq \in Seq(S), seq # <<>>
  PROVE  LET front == SubSeq(seq, 1, Len(seq) - 1)
         IN  /\ Len(seq) \in Nat \ {0} /\ seq[Len(seq)] \in S
             /\ front \in Seq(S)
             /\ Len(front) = Len(seq) - 1
             /\ DOMAIN front = 1 .. Len(seq) - 1
             /\ \A i \in 1 .. Len(seq) - 1 : front[i] = seq[i]
             /\ Range(seq) = Range(front) \cup {seq[Len(seq)]}
<1> DEFINE front == SubSeq(seq, 1, Len(seq) - 1)
<1>1. Len(seq) \in Nat \ {0} /\ DOMAIN seq = 1 .. Len(seq) /\ seq[Len(seq)] \in S
  OBVIOUS
<1>2. /\ front \in Seq(S) /\ Len(front) = Len(seq) - 1 /\ DOMAIN front = 1 .. Len(seq) - 1
      /\ \A i \in 1 .. Len(seq) - 1 : front[i] = seq[i]
  BY <1>1
<1> HIDE DEF front
<1>3. Range(front) \cup {seq[Len(seq)]} \subseteq Range(seq)
  BY <1>1, <1>2 DEF Range
<1>4. ASSUME NEW i \in DOMAIN seq PROVE seq[i] \in Range(front) \cup {seq[Len(seq)]}
  <2>1. CASE i = Len(seq)
    BY <2>1
  <2>2. CASE i # Len(seq)
    <3>1. i \in 1 .. Len(seq) - 1
      BY <1>1, <2>2
    <3> QED
      BY <3>1, <1>2 DEF Range
  <2> QED
    BY <2>1, <2>2
<1>5. Range(seq) \subseteq Range(front) \cup {seq[Len(seq)]}
  BY <1>4 DEF Range
<1> QED
  BY <1>1, <1>2, <1>3, <1>5 DEF front

LEMMA RestFacts ==
  ASSUME NEW S, NEW seq \in Seq(S), NEW k \in DOMAIN seq
  PROVE  LET rest == SubSeq(seq, k, Len(seq))
         IN  /\ Len(seq) \in Nat /\ k \in 1 .. Len(seq)
             /\ rest \in Seq(S)
             /\ Len(rest) = Len(seq) - k + 1
             /\ \A i \in 1 .. Len(seq) - k + 1 : rest[i] = seq[k + i - 1]
<1>1. Len(seq) \in Nat /\ k \in 1 .. Len(seq)
  OBVIOUS
<1> QED
  BY <1>1

-----------------------------------------------------------------------------
\* The circle that is reported is one: the services from dep's own entry on depend on
\* each other in turn, and the last of them on dep.
LEMMA CircleFromIsCircle ==
  ASSUME SearchInv, path # <<>>, NEW dep \in visiting, dep \in depends[path[Len(path)]]
  PROVE  LET c == CircleFrom(dep)
         IN  /\ c \in Seq(Services) /\ Len(c) > 1 /\ c[1] = c[Len(c)]
             /\ \A i \in 1 .. Len(c) - 1 : c[i + 1] \in depends[c[i]]
<1> DEFINE k == CHOOSE i \in DOMAIN path : path[i] = dep
           n == Len(path)
           rest == SubSeq(path, k, n)
           c == CircleFrom(dep)
<1>1. path \in Seq(Services) /\ n \in Nat /\ DOMAIN path = 1 .. n
  BY DEF SearchInv, TypeOK
<1>2. k \in DOMAIN path /\ path[k] = dep
  BY DEF visiting, Range
<1>3. dep \in Services
  BY <1>1, <1>2
<1>4. Chained
  BY DEF SearchInv
<1>5. c = Append(rest, dep)
  BY DEF CircleFrom
<1> HIDE DEF k, c
<1>6. /\ k \in 1 .. n /\ rest \in Seq(Services) /\ Len(rest) = n - k + 1
      /\ \A i \in 1 .. n - k + 1 : rest[i] = path[k + i - 1]
  BY <1>1, <1>2, RestFacts
<1> HIDE DEF rest
<1>7. /\ c \in Seq(Services) /\ Len(c) = n - k + 2
      /\ \A i \in 1 .. n - k + 1 : c[i] = rest[i]
      /\ c[n - k + 2] = dep
  <2>1. n - k + 1 \in Nat
    BY <1>1, <1>6
  <2> QED
    BY <1>3, <1>5, <1>6, <2>1, AppendFacts
<1>8. c[1] = dep /\ Len(c) > 1
  <2>1. 1 \in 1 .. n - k + 1 /\ k + 1 - 1 = k
    BY <1>1, <1>6
  <2> QED
    BY <2>1, <1>1, <1>2, <1>6, <1>7
<1>9. ASSUME NEW i \in 1 .. Len(c) - 1 PROVE c[i + 1] \in depends[c[i]]
  <2>1. i \in 1 .. n - k + 1 /\ c[i] = path[k + i - 1]
    BY <1>1, <1>6, <1>7
  <2>2. CASE i = n - k + 1
    <3>1. k + i - 1 = n /\ c[i + 1] = dep
      BY <1>1, <1>6, <1>7, <2>2
    <3> QED
      BY <3>1, <2>1
  <2>3. CASE i # n - k + 1
    <3>0. n \in Nat /\ k \in 1 .. n /\ i \in 1 .. n - k + 1
      BY <1>1, <1>6, <2>1
    <3>1. i + 1 \in 1 .. n - k + 1 /\ k + i - 1 \in 1 .. Len(path) - 1 /\ (k + i - 1) + 1 = k + (i + 1) - 1
      BY <3>0, <2>3
    <3>2. c[i + 1] = path[(k + i - 1) + 1]
      BY <1>6, <1>7, <3>1
    <3> QED
      BY <3>1, <3>2, <2>1, <1>4 DEF Chained
  <2> QED
    BY <2>2, <2>3
<1> QED
  BY <1>7, <1>8, <1>9 DEF c

-----------------------------------------------------------------------------
LEMMA InitEstablishes == Init => SearchInv
<1> SUFFICES ASSUME Init PROVE SearchInv
  OBVIOUS
<1>1. path = <<>> /\ order = <<>> /\ circle = <<>> /\ visiting = {} /\ visited = {}
  BY DEF Init, visiting, visited, Range
<1>2. TypeOK
  <2>1. <<>> \in Seq(Services) /\ DOMAIN <<>> = {}
    OBVIOUS
  <2> QED
    BY <1>1, <2>1 DEF Init, TypeOK
<1>3. Len(path) = 0 /\ DOMAIN path = {} /\ DOMAIN order = {} /\ 1 .. Len(path) - 1 = {}
  BY <1>1
<1>4. DependenciesFirst /\ Looked /\ Chained
  BY <1>3 DEF DependenciesFirst, Looked, Chained
<1>5. Untouched /\ CircleIsReal
  BY DEF Init, Untouched, CircleIsReal
<1> QED
  BY <1>2, <1>4, <1>5 DEF SearchInv

\* A call of `visit` is entered: its service was neither visited nor under way, so
\* nothing of it has been looked at.
LEMMA EnterKeeps ==
  ASSUME SearchInv, NEW name \in Services, name \notin visited \cup visiting, status = "searching",
         path # <<>> => name \in depends[path[Len(path)]],
         status # "circular" =>
           \A i \in DOMAIN path : \A dep \in depends[path[i]] \ left'[path[i]] :
             dep \in visited \/ (i < Len(path) /\ dep = path[i + 1]) \/ (i = Len(path) /\ dep = name),
         path' = Append(path, name),
         left' \in [Services -> SUBSET Services],
         \A s \in Services : left'[s] \subseteq left[s],
         \A s \in Services \ visiting : left'[s] = left[s],
         UNCHANGED <<depends, order, circle, status>>
  PROVE  SearchInv'
<1>1. path \in Seq(Services) /\ Len(path) \in Nat /\ DOMAIN path = 1 .. Len(path)
  BY DEF SearchInv, TypeOK
<1>2. /\ path' \in Seq(Services) /\ Len(path') = Len(path) + 1
      /\ DOMAIN path' = 1 .. Len(path) + 1
      /\ \A i \in 1 .. Len(path) : path'[i] = path[i]
      /\ path'[Len(path) + 1] = name
      /\ Range(path') = Range(path) \cup {name}
  BY <1>1, AppendFacts
<1>3. visiting' = visiting \cup {name} /\ visited' = visited
  BY <1>2 DEF visiting, visited
<1>4. \A i \in 1 .. Len(path) : path'[i] \in visiting /\ path'[i] # name
  BY <1>1, <1>2 DEF visiting, Range
<1>5. TypeOK'
  <2>1. \A i, j \in DOMAIN path' : path'[i] = path'[j] => i = j
    <3> SUFFICES ASSUME NEW i \in DOMAIN path', NEW j \in DOMAIN path', path'[i] = path'[j] PROVE i = j
      OBVIOUS
    <3>1. \A x, y \in DOMAIN path : path[x] = path[y] => x = y
      BY DEF SearchInv, TypeOK
    <3>2. i \in 1 .. Len(path) \/ i = Len(path) + 1
      BY <1>1, <1>2
    <3>3. j \in 1 .. Len(path) \/ j = Len(path) + 1
      BY <1>1, <1>2
    <3> QED
      BY <1>1, <1>2, <1>4, <3>1, <3>2, <3>3
  <2>2. visiting' \cap visited' = {}
    BY <1>3 DEF SearchInv, TypeOK
  <2> QED
    BY <2>1, <2>2, <1>2 DEF SearchInv, TypeOK
<1>6. DependenciesFirst' /\ CircleIsReal'
  BY DEF SearchInv, DependenciesFirst, CircleIsReal
<1>7. Untouched'
  BY <1>3 DEF SearchInv, Untouched
<1>8. Chained'
  <2> SUFFICES ASSUME NEW i \in 1 .. Len(path') - 1 PROVE path'[i + 1] \in depends[path'[i]]
    BY DEF Chained
  <2>1. i \in 1 .. Len(path) /\ path'[i] = path[i]
    BY <1>1, <1>2
  <2>2. CASE i = Len(path)
    BY <1>1, <1>2, <2>1, <2>2
  <2>3. CASE i # Len(path)
    <3>1. i \in 1 .. Len(path) - 1 /\ i + 1 \in 1 .. Len(path)
      BY <1>1, <2>1, <2>3
    <3> QED
      BY <3>1, <1>2, <2>1 DEF SearchInv, Chained
  <2> QED
    BY <2>2, <2>3
<1>9. Looked'
  <2> SUFFICES ASSUME NEW i \in DOMAIN path', NEW dep \in depends[path'[i]] \ left'[path'[i]]
               PROVE dep \in visited \/ (i < Len(path') /\ dep = path'[i + 1])
    BY <1>3 DEF Looked
  <2>1. CASE i = Len(path) + 1
    <3>1. path'[i] = name /\ name \notin visiting /\ left'[name] = depends[name]
      BY <1>2, <2>1 DEF SearchInv, Untouched
    <3> QED
      BY <3>1
  <2>2. CASE i \in 1 .. Len(path)
    <3>1. path'[i] = path[i] /\ i < Len(path')
      BY <1>1, <1>2, <2>2
    <3>2. dep \in visited \/ (i < Len(path) /\ dep = path[i + 1]) \/ (i = Len(path) /\ dep = name)
      BY <1>1, <2>2, <3>1
    <3>3. ASSUME i < Len(path), dep = path[i + 1] PROVE dep = path'[i + 1]
      <4>1. i + 1 \in 1 .. Len(path)
        BY <1>1, <2>2, <3>3
      <4> QED
        BY <4>1, <1>2, <3>3
    <3>4. ASSUME i = Len(path), dep = name PROVE dep = path'[i + 1]
      BY <1>2, <3>4
    <3> QED
      BY <3>1, <3>2, <3>3, <3>4
  <2> QED
    BY <1>1, <1>2, <2>1, <2>2
<1> QED
  BY <1>5, <1>6, <1>7, <1>8, <1>9 DEF SearchInv

LEMMA VisitRootKeeps ==
  ASSUME SearchInv, NEW name \in Services, VisitRoot(name)
  PROVE  SearchInv'
<1>1. path = <<>> /\ name \notin visited /\ path' = Append(path, name) /\ left' = left /\ status = "searching"
  BY DEF VisitRoot
<1>2. visiting = {} /\ DOMAIN path = {}
  BY <1>1 DEF visiting, Range
<1>3. left \in [Services -> SUBSET Services]
  BY DEF SearchInv, TypeOK
<1> QED
  BY <1>1, <1>2, <1>3, EnterKeeps DEF VisitRoot

LEMMA VisitDependencyKeeps ==
  ASSUME SearchInv, NEW dep \in Services, VisitDependency(dep)
  PROVE  SearchInv'
<1> DEFINE n == Len(path)
           name == path[n]
<1>1. /\ status = "searching" /\ path # <<>> /\ dep \in left[name]
      /\ left' = [left EXCEPT ![name] = @ \ {dep}]
      /\ UNCHANGED <<depends, order>>
  BY DEF VisitDependency
<1>2. path \in Seq(Services) /\ n \in Nat \ {0} /\ DOMAIN path = 1 .. n
  BY <1>1 DEF SearchInv, TypeOK
<1>3. n \in DOMAIN path /\ name \in Services /\ name \in visiting
  BY <1>2 DEF visiting, Range
<1>4. left \in [Services -> SUBSET Services]
  BY DEF SearchInv, TypeOK
<1>5. /\ left' \in [Services -> SUBSET Services]
      /\ left'[name] = left[name] \ {dep}
      /\ \A s \in Services : left'[s] \subseteq left[s]
      /\ \A s \in Services \ {name} : left'[s] = left[s]
  BY <1>1, <1>3, <1>4
<1>6. dep \in depends[name]
  BY <1>1, <1>3 DEF SearchInv, Untouched
<1>7. \A i, j \in DOMAIN path : path[i] = path[j] => i = j
  BY DEF SearchInv, TypeOK
<1>8. ASSUME NEW i \in DOMAIN path, NEW d \in depends[path[i]] \ left'[path[i]]
      PROVE d \in visited \/ (i < n /\ d = path[i + 1]) \/ (i = n /\ d = dep)
  <2>1. path[i] \in Services
    BY <1>2
  <2>2. d \in left[path[i]] => i = n /\ d = dep
    <3> SUFFICES ASSUME d \in left[path[i]] PROVE i = n /\ d = dep
      OBVIOUS
    <3>1. path[i] = name
      BY <1>5, <2>1
    <3> QED
      BY <3>1, <1>3, <1>5, <1>7
  <2>3. d \notin left[path[i]] => d \in visited \/ (i < n /\ d = path[i + 1])
    BY <1>1 DEF SearchInv, Looked
  <2> QED
    BY <2>2, <2>3
<1>9. CASE dep \in visiting
  <2>1. status' = "circular" /\ circle' = CircleFrom(dep) /\ path' = path
    BY <1>9 DEF VisitDependency
  <2>2. visiting' = visiting /\ visited' = visited
    BY <1>1, <2>1 DEF visiting, visited
  <2>3. /\ circle' \in Seq(Services) /\ Len(circle') > 1 /\ circle'[1] = circle'[Len(circle')]
        /\ \A i \in 1 .. Len(circle') - 1 : circle'[i + 1] \in depends[circle'[i]]
    BY <1>1, <1>6, <1>9, <2>1, CircleFromIsCircle
  <2>4. TypeOK'
    BY <1>1, <1>5, <2>1, <2>2, <2>3 DEF SearchInv, TypeOK
  <2>5. DependenciesFirst' /\ Looked' /\ Chained' /\ CircleIsReal'
    BY <1>1, <2>1, <2>3 DEF SearchInv, DependenciesFirst, Looked, Chained, CircleIsReal
  <2>6. Untouched'
    BY <1>1, <1>3, <1>5, <2>2 DEF SearchInv, Untouched
  <2> QED
    BY <2>4, <2>5, <2>6 DEF SearchInv
<1>10. CASE dep \notin visiting /\ dep \in visited
  <2>1. UNCHANGED <<path, circle, status>>
    BY <1>10 DEF VisitDependency
  <2>2. visiting' = visiting /\ visited' = visited
    BY <1>1, <2>1 DEF visiting, visited
  <2>3. TypeOK'
    BY <1>1, <1>5, <2>1, <2>2 DEF SearchInv, TypeOK
  <2>4. DependenciesFirst' /\ Chained' /\ CircleIsReal'
    BY <1>1, <2>1 DEF SearchInv, DependenciesFirst, Chained, CircleIsReal
  <2>5. Looked'
    BY <1>1, <1>8, <1>10, <2>1, <2>2 DEF Looked
  <2>6. Untouched'
    BY <1>1, <1>3, <1>5, <2>2 DEF SearchInv, Untouched
  <2> QED
    BY <2>3, <2>4, <2>5, <2>6 DEF SearchInv
<1>11. CASE dep \notin visiting /\ dep \notin visited
  <2>1. path' = Append(path, dep) /\ UNCHANGED <<circle, status>>
    BY <1>11 DEF VisitDependency
  <2> QED
    BY <1>1, <1>3, <1>5, <1>6, <1>8, <1>11, <2>1, EnterKeeps
<1> QED
  BY <1>9, <1>10, <1>11

\* A call that returns has looked at every dependency, and all of them are visited.
LEMMA LeaveKeeps ==
  ASSUME SearchInv, Leave
  PROVE  SearchInv'
<1> DEFINE n == Len(path)
           name == path[n]
           m == Len(order)
<1>1. /\ status = "searching" /\ path # <<>> /\ left[name] = {}
      /\ path' = SubSeq(path, 1, n - 1) /\ order' = Append(order, name)
      /\ UNCHANGED <<depends, left, circle, status>>
  BY DEF Leave
<1>2. path \in Seq(Services) /\ order \in Seq(Services) /\ DOMAIN path = 1 .. n
      /\ m \in Nat /\ DOMAIN order = 1 .. m
  BY DEF SearchInv, TypeOK
<1>3. /\ n \in Nat \ {0} /\ name \in Services
      /\ path' \in Seq(Services) /\ Len(path') = n - 1 /\ DOMAIN path' = 1 .. n - 1
      /\ \A i \in 1 .. n - 1 : path'[i] = path[i]
      /\ visiting = visiting' \cup {name}
  BY <1>1, <1>2, FrontFacts DEF visiting
<1>4. /\ order' \in Seq(Services) /\ DOMAIN order' = 1 .. m + 1
      /\ \A i \in 1 .. m : order'[i] = order[i]
      /\ order'[m + 1] = name
      /\ visited' = visited \cup {name}
  BY <1>1, <1>2, <1>3, AppendFacts DEF visited
<1>5. name \notin visited /\ name \in visiting
  BY <1>3 DEF SearchInv, TypeOK
<1>6. \A i, j \in DOMAIN path : path[i] = path[j] => i = j
  BY DEF SearchInv, TypeOK
<1>7. name \notin visiting'
  <2> SUFFICES ASSUME NEW i \in 1 .. n - 1, path'[i] = name PROVE FALSE
    BY <1>3 DEF visiting, Range
  <2>1. n \in Nat \ {0} /\ DOMAIN path = 1 .. n
    BY <1>2, <1>3
  <2> HIDE DEF n
  <2>2. i \in 1 .. n /\ n \in 1 .. n /\ i # n
    BY <2>1
  <2>3. i \in DOMAIN path /\ n \in DOMAIN path
    BY <2>1, <2>2
  <2> QED
    BY <2>2, <2>3, <1>3, <1>6
<1>8. TypeOK'
  <2>1. visiting' \cap visited' = {}
    BY <1>3, <1>4, <1>7 DEF SearchInv, TypeOK
  <2>2. \A i, j \in DOMAIN path' : path'[i] = path'[j] => i = j
    BY <1>2, <1>3, <1>6
  <2> QED
    BY <1>1, <1>3, <1>4, <2>1, <2>2 DEF SearchInv, TypeOK
<1>9. depends[name] \subseteq visited
  <2> SUFFICES ASSUME NEW dep \in depends[name] PROVE dep \in visited
    OBVIOUS
  <2>1. n \in DOMAIN path /\ dep \in depends[path[n]] \ left[path[n]]
    BY <1>1, <1>2, <1>3
  <2> QED
    BY <1>1, <1>3, <2>1 DEF SearchInv, Looked
<1>10. DependenciesFirst'
  <2> SUFFICES ASSUME NEW i \in 1 .. m + 1
               PROVE  /\ depends[order'[i]] \subseteq {order'[j] : j \in 1 .. i - 1}
                      /\ \A j \in 1 .. i - 1 : order'[j] # order'[i]
    BY <1>1, <1>4 DEF DependenciesFirst
  <2>1. \A j \in 1 .. i - 1 : j \in 1 .. m /\ order'[j] = order[j]
    BY <1>2, <1>4
  <2>2. CASE i \in 1 .. m
    <3>1. /\ depends[order[i]] \subseteq {order[j] : j \in 1 .. i - 1}
          /\ \A j \in 1 .. i - 1 : order[j] # order[i]
      BY <1>2, <2>2 DEF SearchInv, DependenciesFirst
    <3> QED
      BY <1>4, <2>1, <2>2, <3>1
  <2>3. CASE i = m + 1
    <3>1. 1 .. i - 1 = 1 .. m /\ order'[i] = name
      BY <1>2, <1>4, <2>3
    <3>2. visited = {order[j] : j \in 1 .. m}
      BY <1>2 DEF visited, Range
    <3>3. {order'[j] : j \in 1 .. m} = {order[j] : j \in 1 .. m}
      BY <1>4
    <3>4. \A j \in 1 .. m : order[j] \in visited
      BY <3>2
    <3> QED
      BY <1>4, <1>5, <1>9, <3>1, <3>2, <3>3, <3>4
  <2> QED
    BY <1>2, <2>2, <2>3
<1>11. Looked'
  <2> SUFFICES ASSUME NEW i \in DOMAIN path', NEW dep \in depends[path'[i]] \ left[path'[i]]
               PROVE dep \in visited' \/ (i < Len(path') /\ dep = path'[i + 1])
    BY <1>1 DEF Looked
  <2>1. i \in DOMAIN path /\ i \in 1 .. n - 1 /\ path'[i] = path[i]
    BY <1>2, <1>3
  <2>2. dep \in visited \/ dep = path[i + 1]
    BY <1>1, <2>1 DEF SearchInv, Looked
  <2>3. CASE i = n - 1
    BY <1>3, <1>4, <2>2, <2>3
  <2>4. CASE i # n - 1
    <3>1. i < Len(path') /\ i + 1 \in 1 .. n - 1
      BY <1>3, <2>1, <2>4
    <3> QED
      BY <1>3, <1>4, <2>2, <3>1
  <2> QED
    BY <2>3, <2>4
<1>12. Chained'
  <2> SUFFICES ASSUME NEW i \in 1 .. Len(path') - 1 PROVE path'[i + 1] \in depends[path'[i]]
    BY <1>1 DEF Chained
  <2>1. i \in 1 .. n - 1 /\ i + 1 \in 1 .. n - 1 /\ i \in 1 .. Len(path) - 1
    BY <1>3
  <2> QED
    BY <1>3, <2>1 DEF SearchInv, Chained
<1>13. Untouched' /\ CircleIsReal'
  BY <1>1, <1>3, <1>4 DEF SearchInv, Untouched, CircleIsReal
<1> QED
  BY <1>8, <1>10, <1>11, <1>12, <1>13 DEF SearchInv

-----------------------------------------------------------------------------
LEMMA NextKeeps == SearchInv /\ [Next]_vars => SearchInv'
<1> SUFFICES ASSUME SearchInv, [Next]_vars PROVE SearchInv'
  OBVIOUS
<1>1. ASSUME NEW name \in Services, VisitRoot(name) PROVE SearchInv'
  BY <1>1, VisitRootKeeps
<1>2. ASSUME NEW dep \in Services, VisitDependency(dep) PROVE SearchInv'
  BY <1>2, VisitDependencyKeeps
<1>3. CASE Leave
  BY <1>3, LeaveKeeps
<1>4. ASSUME Return \/ UNCHANGED vars PROVE SearchInv'
  <2>1. UNCHANGED <<depends, path, left, order, circle>> /\ status' \in {status, "sorted"}
        /\ (status' = "circular" => status = "circular") /\ (status = "circular" => status' = status)
    BY <1>4 DEF Return, vars
  <2>2. visiting' = visiting /\ visited' = visited
    BY <2>1 DEF visiting, visited
  <2> QED
    BY <2>1, <2>2 DEF SearchInv, TypeOK, DependenciesFirst, Looked, Chained, Untouched, CircleIsReal
<1> QED
  BY <1>1, <1>2, <1>3, <1>4 DEF Next

LEMMA SearchInvariant == Spec => []SearchInv
<1> QED
  BY InitEstablishes, NextKeeps, PTL DEF Spec

\* The types, and that a service is visited once and never while it is under way.
THEOREM SearchTypes == Spec => []TypeOK
<1>1. SearchInv => TypeOK
  BY DEF SearchInv
<1> QED
  BY <1>1, SearchInvariant, PTL

\* Whatever the configuration, _resolve_service_order never appends a service ahead of
\* one it depends on, nor twice.
THEOREM SearchSorts == Spec => []DependenciesFirst
<1>1. SearchInv => DependenciesFirst
  BY DEF SearchInv
<1> QED
  BY <1>1, SearchInvariant, PTL

\* Whatever the configuration, the circle validate_depends_on reports is one.
THEOREM ReportedCircle == Spec => []CircleIsReal
<1>1. SearchInv => CircleIsReal
  BY DEF SearchInv
<1> QED
  BY <1>1, SearchInvariant, PTL

\* A non-empty set of positions has a first one.
LEMMA FirstPosition ==
  ASSUME NEW S \in SUBSET Nat, S # {}
  PROVE  \E m \in S : \A n \in S : m <= n
<1>1. PICK m \in S : \A n \in S : ~ (<<n, m>> \in OpToRel(<, Nat))
  BY NatLessThanWellFounded, WFMin
<1>2. \A n \in S : ~ (n < m)
  BY <1>1 DEF OpToRel
<1> QED
  BY <1>2

\* A sorted configuration has no circle: of the services of one, take the first in the
\* order; what it depends on comes before it.
LEMMA SortedHasNoCircle ==
  ASSUME SearchInv, visited = Services
  PROVE  ~Circular
<1> SUFFICES ASSUME NEW S \in SUBSET Services, S # {}, \A s \in S : depends[s] \cap S # {}
             PROVE  FALSE
  BY DEF Circular
<1>1. order \in Seq(Services) /\ DOMAIN order \subseteq Nat
  BY DEF SearchInv, TypeOK
<1>2. \A s \in S : \E i \in DOMAIN order : order[i] = s
  BY DEF visited, Range
<1>3. PICK i \in {j \in DOMAIN order : order[j] \in S} :
        \A j \in {k \in DOMAIN order : order[k] \in S} : i <= j
  <2> DEFINE P == {j \in DOMAIN order : order[j] \in S}
  <2>1. P \in SUBSET Nat /\ P # {}
    BY <1>1, <1>2
  <2> HIDE DEF P
  <2>2. \E m \in P : \A n \in P : m <= n
    BY <2>1, FirstPosition
  <2> QED
    BY <2>2 DEF P
<1>4. PICK d \in S : d \in depends[order[i]]
  OBVIOUS
<1>5. PICK j \in 1 .. i - 1 : order[j] = d
  BY <1>3, <1>4 DEF SearchInv, DependenciesFirst
<1>6. DOMAIN order = 1 .. Len(order) /\ Len(order) \in Nat /\ i \in 1 .. Len(order)
  BY <1>1, <1>3
<1>7. j \in DOMAIN order /\ j < i
  BY <1>6
<1> QED
  BY <1>1, <1>3, <1>5, <1>7

\* The services of a circle that was reported depend on each other.
LEMMA ReportedIsCircular ==
  ASSUME SearchInv, status = "circular"
  PROVE  Circular
<1> DEFINE S == {circle[i] : i \in 1 .. Len(circle) - 1}
<1>1. /\ circle \in Seq(Services) /\ Len(circle) \in Nat
      /\ Len(circle) > 1 /\ circle[1] = circle[Len(circle)]
      /\ \A i \in 1 .. Len(circle) - 1 : circle[i + 1] \in depends[circle[i]]
  BY DEF SearchInv, TypeOK, CircleIsReal
<1>2. S \in (SUBSET Services) \ {{}}
  <2>1. \A i \in 1 .. Len(circle) - 1 : circle[i] \in Services
    BY <1>1
  <2>2. circle[1] \in S
    BY <1>1
  <2> QED
    BY <2>1, <2>2
<1>3. ASSUME NEW i \in 1 .. Len(circle) - 1 PROVE depends[circle[i]] \cap S # {}
  <2>1. circle[i + 1] \in S
    <3>1. CASE i + 1 \in 1 .. Len(circle) - 1
      BY <3>1
    <3>2. CASE i + 1 = Len(circle)
      BY <1>1, <3>2
    <3> QED
      BY <1>1, <3>1, <3>2
  <2> QED
    BY <1>1, <2>1
<1>4. \A s \in S : depends[s] \cap S # {}
  BY <1>3
<1> HIDE DEF S
<1> QED
  BY <1>2, <1>4 DEF Circular

\* The search decides whether the configuration has a circle: it sorts those that have
\* none, and refuses, with a circle of them, those that have.
THEOREM SearchDecides == Spec => []Decides
<1> DEFINE SortedInv == status = "sorted" => visited = Services
<1>1. Init => SortedInv
  BY DEF Init
<1>2. SortedInv /\ [Next]_vars => SortedInv'
  BY DEF Next, VisitRoot, VisitDependency, Leave, Return, vars, visited, Range
<1>3. SearchInv /\ SortedInv => Decides
  BY SortedHasNoCircle, ReportedIsCircular DEF Decides
<1> QED
  BY <1>1, <1>2, <1>3, SearchInvariant, PTL DEF Spec
=============================================================================
