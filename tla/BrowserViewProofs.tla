-------------------------- MODULE BrowserViewProofs --------------------------
(***************************************************************************)
(* The Drive browser, for every set of ids and folders, every tree Drive   *)
(* may hold and any number of calls in flight.  First the scope check: the *)
(* bounded climb of isWithinRoot finds the root exactly when it is         *)
(* reachable.  Induction is by least counterexample (LeastNat).            *)
(***************************************************************************)
EXTENDS BrowserView, FiniteSetTheorems, WellFoundedInduction, TLAPS

LEMMA LeastNat ==
  ASSUME NEW S \in SUBSET Nat, S # {}
  PROVE  \E m \in S : \A k \in S : m <= k
<1> DEFINE R == OpToRel(<, Nat)
<1>1. IsWellFoundedOn(R, Nat)
  BY NatLessThanWellFounded, Zenon
<1> HIDE DEF R
<1>2. PICK m \in S : \A k \in S : ~ (<<k, m>> \in R)
  BY <1>1, WFMin
<1>3. \A k, n \in Nat : k < n => <<k, n>> \in R
  BY DEF R, OpToRel
<1>4. ASSUME NEW k \in S PROVE m <= k
  <2>1. k \in Nat /\ m \in Nat
    OBVIOUS
  <2>2. ~(k < m)
    BY <1>2, <1>3, <2>1
  <2> QED  BY <2>1, <2>2
<1> QED  BY <1>4

-----------------------------------------------------------------------------
(* The climb of isWithinRoot *)

Height == Cardinality(Ids)
Places == Ids \cup {NoId}

\* One iteration of the loop.
Above(rt, up, i) == IF i \in {NoId, rt} THEN i ELSE up[i]

\* WithinRoot's climb under a name of its own.
Climb(rt, up, id) ==
  CHOOSE c : c = [n \in 0 .. Height |->
                    IF n = 0 THEN id
                    ELSE IF c[n - 1] \in {NoId, rt} THEN c[n - 1] ELSE up[c[n - 1]]]

LEMMA HeightIsNat == Height \in Nat
  BY BrowserAssumption, FS_CardinalityType DEF Height

LEMMA WithinRootClimbs ==
  ASSUME NEW rt, NEW up, NEW id
  PROVE  WithinRoot(rt, up, id) <=> rt # NoId /\ Climb(rt, up, id)[Height] = rt
  BY DEF WithinRoot, Climb, Height

\* The recursion has a solution for every number of steps.
LEMMA ClimbsOfEveryLength ==
  ASSUME NEW rt, NEW up \in [Ids -> Places], NEW id \in Ids, NEW len \in Nat
  PROVE  \E g \in [0 .. len -> Places] :
           g[0] = id /\ \A k \in 1 .. len : g[k] = Above(rt, up, g[k - 1])
<1> DEFINE Sol(n) == {g \in [0 .. n -> Places] :
                        g[0] = id /\ \A k \in 1 .. n : g[k] = Above(rt, up, g[k - 1])}
           Bad == {n \in Nat : Sol(n) = {}}
<1>1. ASSUME Bad # {} PROVE FALSE
  <2>1. PICK m \in Bad : \A k \in Bad : m <= k
    <3> HIDE DEF Bad
    <3>1. Bad \in SUBSET Nat
      BY DEF Bad
    <3> QED  BY <1>1, <3>1, LeastNat
  <2>2. m \in Nat /\ Sol(m) = {}
    BY <2>1
  <2>3. CASE m = 0
    <3>1. [k \in 0 .. 0 |-> id] \in Sol(0)
      BY DEF Places
    <3> QED  BY <2>2, <2>3, <3>1
  <2>4. CASE m # 0
    <3>1. m - 1 \in Nat /\ m - 1 \notin Bad
      BY <2>1, <2>2, <2>4
    <3>2. PICK g \in Sol(m - 1) : TRUE
      BY <3>1
    <3> DEFINE h == [k \in 0 .. m |-> IF k = m THEN Above(rt, up, g[m - 1]) ELSE g[k]]
    <3>3. g \in [0 .. m - 1 -> Places] /\ g[0] = id
          /\ \A k \in 1 .. m - 1 : g[k] = Above(rt, up, g[k - 1])
      BY <3>2
    <3>4. g[m - 1] \in Places
      BY <3>1, <3>3
    <3>5. Above(rt, up, g[m - 1]) \in Places
      BY <3>4 DEF Above, Places
    <3> HIDE DEF Places
    <3>6. h \in [0 .. m -> Places]
      BY <2>2, <2>4, <3>3, <3>5
    <3>7. h[0] = id
      BY <2>2, <2>4, <3>3
    <3>8. ASSUME NEW k \in 1 .. m PROVE h[k] = Above(rt, up, h[k - 1])
      <4>1. h[k - 1] = g[k - 1]
        BY <2>2, <2>4
      <4>2. CASE k = m
        BY <2>2, <2>4, <4>1, <4>2
      <4>3. CASE k # m
        <5>1. k \in 1 .. m - 1 /\ h[k] = g[k]
          BY <2>2, <4>3
        <5> QED  BY <3>3, <4>1, <5>1
      <4> QED  BY <4>2, <4>3
    <3>9. h \in Sol(m)
      BY <3>6, <3>7, <3>8
    <3> QED  BY <2>2, <3>9
  <2> QED  BY <2>3, <2>4
<1>2. Sol(len) # {}
  BY <1>1
<1> QED  BY <1>2

LEMMA ClimbSteps ==
  ASSUME NEW rt, NEW up \in [Ids -> Places], NEW id \in Ids
  PROVE  LET c == Climb(rt, up, id) IN
         /\ c[0] = id
         /\ \A k \in 1 .. Height : c[k] = Above(rt, up, c[k - 1])
         /\ c \in [0 .. Height -> Places]
<1> DEFINE IsClimb(c) == c = [n \in 0 .. Height |->
                    IF n = 0 THEN id
                    ELSE IF c[n - 1] \in {NoId, rt} THEN c[n - 1] ELSE up[c[n - 1]]]
           c == Climb(rt, up, id)
<1>1. \E g : IsClimb(g)
  <2>1. PICK g \in [0 .. Height -> Places] :
          g[0] = id /\ \A k \in 1 .. Height : g[k] = Above(rt, up, g[k - 1])
    <3>1. \A len \in Nat : \E g \in [0 .. len -> Places] :
            g[0] = id /\ \A k \in 1 .. len : g[k] = Above(rt, up, g[k - 1])
      BY ClimbsOfEveryLength
    <3> QED  BY <3>1, HeightIsNat
  <2> DEFINE h == [n \in 0 .. Height |->
                    IF n = 0 THEN id
                    ELSE IF g[n - 1] \in {NoId, rt} THEN g[n - 1] ELSE up[g[n - 1]]]
  <2>2. \A n \in 0 .. Height : g[n] = h[n]
    BY <2>1, HeightIsNat DEF Above
  <2>3. g = h
    BY <2>2
  <2> QED  BY <2>3
<1>2. IsClimb(c)
  BY <1>1 DEF Climb
<1> HIDE DEF c
<1>3. c[0] = id
  BY <1>2, HeightIsNat
<1>4. ASSUME NEW k \in 1 .. Height PROVE c[k] = Above(rt, up, c[k - 1])
  BY <1>2, HeightIsNat DEF Above
<1>5. \A k \in 0 .. Height : c[k] \in Places
  <2> DEFINE Bad == {k \in 0 .. Height : c[k] \notin Places}
  <2>1. SUFFICES ASSUME Bad # {} PROVE FALSE
    OBVIOUS
  <2>2. PICK m \in Bad : \A k \in Bad : m <= k
    <3>1. Bad \in SUBSET Nat
      BY HeightIsNat
    <3> HIDE DEF Bad
    <3> QED  BY <2>1, <3>1, LeastNat
  <2>3. m # 0
    BY <1>3, <2>2 DEF Places
  <2>4. m - 1 \in 0 .. Height /\ m \in 1 .. Height /\ m - 1 \notin Bad
    BY <2>2, <2>3, HeightIsNat
  <2>5. c[m - 1] \in Places
    BY <2>4
  <2>6. c[m] \in Places
    BY <1>4, <2>4, <2>5 DEF Above, Places
  <2> QED  BY <2>2, <2>6
<1>6. c \in [0 .. Height -> Places]
  <2>1. c = [n \in 0 .. Height |-> c[n]]
    BY <1>2
  <2> QED  BY <1>5, <2>1
<1> QED  BY <1>3, <1>4, <1>6 DEF c

\* A chain of n recorded parents from i to rt.
IsPath(f, n, i, rt, up) ==
  /\ f \in [0 .. n -> Ids]
  /\ f[0] = i /\ f[n] = rt
  /\ \A k \in 0 .. n - 1 : f[k + 1] = up[f[k]]

\* What the climb finds is below the root: every set that holds the root and is
\* closed under children holds each id the climb passed.
LEMMA ClimbIsSound ==
  ASSUME NEW rt \in Ids, NEW up \in [Ids -> Places], NEW id \in Ids,
         WithinRoot(rt, up, id)
  PROVE  id \in Descendants(rt, up)
<1> DEFINE c == Climb(rt, up, id)
<1>1. /\ c[0] = id
      /\ \A k \in 1 .. Height : c[k] = Above(rt, up, c[k - 1])
      /\ c \in [0 .. Height -> Places]
      /\ c[Height] = rt
  BY ClimbSteps, WithinRootClimbs
<1> HIDE DEF c
<1> SUFFICES ASSUME NEW S \in SUBSET Ids, rt \in S,
                    \A j \in Ids : up[j] \in S => j \in S
             PROVE  id \in S
  BY DEF Descendants
<1> DEFINE Hit == {n \in 0 .. Height : c[n] \in S}
<1>2. PICK m \in Hit : \A k \in Hit : m <= k
  <2>1. Hit \in SUBSET Nat /\ Height \in Hit
    BY <1>1, HeightIsNat
  <2> HIDE DEF Hit
  <2> QED  BY <2>1, LeastNat
<1>3. CASE m = 0
  BY <1>1, <1>2, <1>3
<1>4. CASE m # 0
  <2>1. m \in 1 .. Height /\ m - 1 \in 0 .. Height /\ m - 1 \notin Hit /\ c[m] \in S
    BY <1>2, <1>4, HeightIsNat
  <2>2. c[m - 1] \in Places /\ c[m - 1] \notin S /\ c[m] = Above(rt, up, c[m - 1])
    BY <1>1, <2>1
  <2>3. c[m - 1] \in Ids
    BY <2>1, <2>2, BrowserAssumption DEF Places, Above
  <2> QED  BY <2>1, <2>2, <2>3, BrowserAssumption DEF Above
<1> QED  BY <1>3, <1>4

\* Whatever is below the root reaches it along recorded parents.
LEMMA DescendantsHavePaths ==
  ASSUME NEW rt \in Ids, NEW up \in [Ids -> Places], NEW id \in Descendants(rt, up)
  PROVE  \E n \in Nat : \E f : IsPath(f, n, id, rt, up)
<1> DEFINE S == {i \in Ids : \E n \in Nat : \E f : IsPath(f, n, i, rt, up)}
<1>1. rt \in S
  <2>1. IsPath([k \in 0 .. 0 |-> rt], 0, rt, rt, up)
    BY DEF IsPath
  <2> QED  BY <2>1
<1>2. ASSUME NEW j \in Ids, up[j] \in S PROVE j \in S
  <2>1. PICK n \in Nat : \E f : IsPath(f, n, up[j], rt, up)
    BY <1>2
  <2>2. PICK f : IsPath(f, n, up[j], rt, up)
    BY <2>1
  <2> DEFINE g == [k \in 0 .. n + 1 |-> IF k = 0 THEN j ELSE f[k - 1]]
  <2>3. f \in [0 .. n -> Ids] /\ f[0] = up[j] /\ f[n] = rt
        /\ \A k \in 0 .. n - 1 : f[k + 1] = up[f[k]]
    BY <2>2 DEF IsPath
  <2>4. g \in [0 .. n + 1 -> Ids]
    BY <2>3
  <2>5. g[0] = j /\ g[n + 1] = rt
    BY <2>3
  <2>6. ASSUME NEW k \in 0 .. n + 1 - 1 PROVE g[k + 1] = up[g[k]]
    <3>1. g[k + 1] = f[k]
      OBVIOUS
    <3>2. CASE k = 0
      BY <2>3, <3>1, <3>2
    <3>3. CASE k # 0
      <4>1. k - 1 \in 0 .. n - 1 /\ g[k] = f[k - 1]
        BY <3>3
      <4>2. f[k - 1 + 1] = up[f[k - 1]]
        BY <2>3, <4>1
      <4> QED  BY <3>1, <4>1, <4>2
    <3> QED  BY <3>2, <3>3
  <2>7. IsPath(g, n + 1, j, rt, up)
    BY <2>4, <2>5, <2>6 DEF IsPath
  <2> QED  BY <2>7
<1>3. S \in SUBSET Ids
  OBVIOUS
<1> HIDE DEF S
<1>4. id \in S
  BY <1>1, <1>2, <1>3 DEF Descendants
<1> QED  BY <1>4 DEF S

\* A chain longer than the ids there are repeats one, and leaving out what lies
\* between the repetitions shortens it.
LEMMA LongPathsShorten ==
  ASSUME NEW rt \in Ids, NEW up \in [Ids -> Places], NEW id \in Ids,
         NEW n \in Nat, NEW f, IsPath(f, n, id, rt, up), n >= Height
  PROVE  \E m \in Nat : m < n /\ \E g : IsPath(g, m, id, rt, up)
<1>1. f \in [0 .. n -> Ids] /\ f[0] = id /\ f[n] = rt
      /\ \A k \in 0 .. n - 1 : f[k + 1] = up[f[k]]
  BY DEF IsPath
<1>2. IsFiniteSet(0 .. n) /\ Cardinality(0 .. n) = n + 1
  BY FS_Interval
<1>3. \E x, y \in 0 .. n : x # y /\ f[x] = f[y]
  BY <1>1, <1>2, HeightIsNat, BrowserAssumption, FS_PigeonHole DEF Height
<1>4. PICK x \in 0 .. n, y \in 0 .. n : x < y /\ f[x] = f[y]
  BY <1>3
<1> DEFINE m == n - (y - x)
           g == [k \in 0 .. m |-> IF k <= x THEN f[k] ELSE f[k + (y - x)]]
<1>5. m \in Nat /\ m < n /\ x <= m
  BY <1>4
<1>6. \A k \in 0 .. m : k \in 0 .. n /\ k + (y - x) \in 0 .. n
  BY <1>4
<1>7. g \in [0 .. m -> Ids]
  BY <1>1, <1>6
<1>8. g[0] = id
  BY <1>1, <1>5
<1>9. g[m] = rt
  <2>1. CASE m <= x
    <3>1. m = x /\ y = n
      BY <1>4, <1>5, <2>1
    <3> QED  BY <1>1, <1>4, <1>5, <3>1
  <2>2. CASE ~(m <= x)
    <3>1. m + (y - x) = n
      BY <1>4
    <3> QED  BY <1>1, <1>5, <2>2, <3>1
  <2> QED  BY <2>1, <2>2
<1>10. ASSUME NEW k \in 0 .. m - 1 PROVE g[k + 1] = up[g[k]]
  <2>1. k \in 0 .. m /\ k + 1 \in 0 .. m /\ k \in 0 .. n - 1 /\ k + (y - x) \in 0 .. n - 1
    BY <1>4, <1>5
  <2>2. CASE k + 1 <= x
    <3>1. g[k + 1] = f[k + 1] /\ g[k] = f[k]
      BY <2>1, <2>2
    <3> QED  BY <1>1, <2>1, <3>1
  <2>3. CASE ~(k + 1 <= x)
    <3>1. g[k + 1] = f[k + 1 + (y - x)] /\ k + 1 + (y - x) = k + (y - x) + 1
      BY <1>4, <2>1, <2>3
    <3>2. g[k] = f[k + (y - x)]
      <4>1. CASE k = x
        <5>1. k + (y - x) = y
          BY <1>4, <4>1
        <5> QED  BY <1>4, <2>1, <4>1, <5>1
      <4>2. CASE k # x
        BY <1>4, <2>1, <2>3, <4>2
      <4> QED  BY <4>1, <4>2
    <3>3. f[k + (y - x) + 1] = up[f[k + (y - x)]]
      BY <1>1, <2>1
    <3> QED  BY <3>1, <3>2, <3>3
  <2> QED  BY <2>2, <2>3
<1>11. IsPath(g, m, id, rt, up)
  BY <1>7, <1>8, <1>9, <1>10 DEF IsPath
<1> QED  BY <1>5, <1>11

\* The climb follows a shortest chain to its end and stays there.
LEMMA ClimbIsComplete ==
  ASSUME NEW rt \in Ids, NEW up \in [Ids -> Places], NEW id \in Descendants(rt, up)
  PROVE  WithinRoot(rt, up, id)
<1>0. id \in Ids
  BY DEF Descendants
<1> DEFINE Lengths == {n \in Nat : \E f : IsPath(f, n, id, rt, up)}
<1>1. PICK n \in Lengths : \A k \in Lengths : n <= k
  <2>1. Lengths \in SUBSET Nat /\ Lengths # {}
    BY DescendantsHavePaths
  <2> HIDE DEF Lengths
  <2> QED  BY <2>1, LeastNat
<1>2. PICK f : IsPath(f, n, id, rt, up)
  BY <1>1
<1>3. n \in Nat /\ f \in [0 .. n -> Ids] /\ f[0] = id /\ f[n] = rt
      /\ \A k \in 0 .. n - 1 : f[k + 1] = up[f[k]]
  BY <1>1, <1>2 DEF IsPath
<1>4. n < Height
  <2>1. SUFFICES ASSUME n >= Height PROVE FALSE
    BY <1>3, HeightIsNat
  <2>2. PICK m \in Nat : m < n /\ \E g : IsPath(g, m, id, rt, up)
    BY <1>0, <1>2, <1>3, <2>1, LongPathsShorten
  <2> QED  BY <1>1, <1>3, <2>2
<1>5. ASSUME NEW k \in 0 .. n - 1 PROVE f[k] # rt
  <2>1. SUFFICES ASSUME f[k] = rt PROVE FALSE
    OBVIOUS
  <2> DEFINE g == [j \in 0 .. k |-> f[j]]
  <2>2. IsPath(g, k, id, rt, up)
    BY <1>3, <2>1 DEF IsPath
  <2>3. k \in Lengths /\ k < n
    BY <1>3, <2>2
  <2> QED  BY <1>1, <1>3, <2>3
<1> DEFINE c == Climb(rt, up, id)
<1>6. /\ c[0] = id
      /\ \A k \in 1 .. Height : c[k] = Above(rt, up, c[k - 1])
  BY <1>0, ClimbSteps
<1> HIDE DEF c, Lengths
<1> DEFINE Bad == {k \in 0 .. Height : c[k] # (IF k <= n THEN f[k] ELSE rt)}
<1>7. Bad = {}
  <2>1. SUFFICES ASSUME Bad # {} PROVE FALSE
    OBVIOUS
  <2>2. PICK m \in Bad : \A k \in Bad : m <= k
    <3>1. Bad \in SUBSET Nat
      BY HeightIsNat
    <3> HIDE DEF Bad
    <3> QED  BY <2>1, <3>1, LeastNat
  <2>3. m # 0
    BY <1>3, <1>6, <2>2
  <2>4. m \in 1 .. Height /\ m - 1 \in 0 .. Height /\ m - 1 \notin Bad
    BY <2>2, <2>3, HeightIsNat
  <2>5. c[m] = Above(rt, up, c[m - 1])
    BY <1>6, <2>4
  <2>6. CASE m <= n
    <3>1. m - 1 \in 0 .. n - 1 /\ c[m - 1] = f[m - 1]
      BY <1>3, <2>4, <2>6
    <3>2. f[m - 1] # rt /\ f[m - 1] \in Ids /\ f[m - 1 + 1] = up[f[m - 1]]
      BY <1>3, <1>5, <3>1
    <3>3. c[m] = f[m]
      BY <2>4, <2>5, <3>1, <3>2, BrowserAssumption DEF Above
    <3> QED  BY <2>2, <2>6, <3>3
  <2>7. CASE ~(m <= n)
    <3>1. c[m - 1] = rt
      BY <1>3, <2>4, <2>7
    <3> QED  BY <2>2, <2>5, <2>7, <3>1 DEF Above
  <2> QED  BY <2>6, <2>7
<1>8. c[Height] = rt
  BY <1>4, <1>7, <1>3, HeightIsNat
<1> QED  BY <1>8, WithinRootClimbs, BrowserAssumption DEF c

\* isWithinRoot, on any recorded parents and whatever cycles they have, accepts
\* exactly the ids that reach the root along them.
LEMMA ClimbDecidesReachability ==
  ASSUME NEW rt \in Places, NEW up \in [Ids -> Places], NEW id \in Ids
  PROVE  WithinRoot(rt, up, id) <=> rt # NoId /\ id \in Descendants(rt, up)
<1>1. WithinRoot(rt, up, id) => rt # NoId
  BY WithinRootClimbs
<1> QED  BY <1>1, ClimbIsSound, ClimbIsComplete DEF Places

-----------------------------------------------------------------------------
(* The inductive invariant *)

Kinds == {"none", "root", "folder", "download"}

Awaits == {"idle", "authorize", "resolve", "list", "metadata", "content", "publish"}

Call == [pc : Awaits, kind : Kinds, gen : Gens, id : Places]

PublishPcs == {"idle", "start", "write", "statTemp", "recheck", "copy", "statFinal",
               "remove", "done", "cleanup", "failed"}

File == [by : Calls \cup {Nobody}, whole : BOOLEAN]

BrowserTypeOK ==
  /\ parent \in [Ids -> {NoId} \cup Folders]
  /\ moves \in Nat
  /\ gen \in Gens
  /\ named \in [Gens -> Roots \cup {NoId}]
  /\ root \in [Gens -> Places]
  /\ parentOf \in [Gens -> [Ids -> Places]]
  /\ index \subseteq Ids
  /\ calls \in [Calls -> Call]
  /\ rows \subseteq Ids
  /\ listedBy \in Gens \cup {NoId}

PublishTypeOK ==
  /\ pc \in [Calls -> PublishPcs]
  /\ final \in [Paths -> File]
  /\ temp \in [Calls -> File]
  /\ deletes \in Nat
  /\ removed \subseteq Calls

\* A call belongs to a controller that exists; one that lists has a folder to
\* list, one that fetches content was started for a file.
CallOK ==
  \A c \in Calls :
    /\ calls[c].gen <= gen
    /\ calls[c].kind \in {"folder", "download"} => calls[c].id \in Ids
    /\ calls[c].kind = "download" => calls[c].id \in Paths
    /\ calls[c].pc = "list" => calls[c].id \in Ids
    /\ calls[c].pc = "resolve" => calls[c].kind = "root"
    /\ calls[c].pc \in {"metadata", "content", "publish"} => calls[c].kind = "download"

\* A scope's root, once resolved, is the folder its root name denotes.
ScopeOK ==
  /\ \A g \in Gens : g <= gen => named[g] \in Roots
  /\ \A g \in Gens : root[g] # NoId => g <= gen /\ root[g] = named[g]

\* Until something is moved, what the scopes recorded is what Drive holds.
EdgesAreTrue ==
  moves = 0 => \A g \in Gens, i \in Ids : parentOf[g][i] \in {NoId, parent[i]}

\* The rows of the current controller's listing, in terms of reachability.
RowsBelowRoot ==
  /\ listedBy # NoId => listedBy <= gen
  /\ moves = 0 /\ listedBy = gen =>
       /\ root[gen] # NoId
       /\ rows \subseteq Descendants(root[gen], parentOf[gen])
       /\ rows \subseteq index

\* A publication is its download's, and what it copied stays until deleted.
PublishOK ==
  \A c \in Calls :
    /\ pc[c] # "idle" => calls[c].pc = "publish"
    /\ pc[c] = "statFinal" => final[calls[c].id].by = c \/ c \in removed
    /\ pc[c] \in {"done", "remove"} =>
         final[calls[c].id] = [by |-> c, whole |-> TRUE] \/ c \in removed

DriveInv ==
  /\ BrowserTypeOK /\ CallOK /\ ScopeOK
  /\ DownloadsStayInScope /\ EdgesAreTrue /\ RowsBelowRoot

-----------------------------------------------------------------------------
(* The controller's part *)

LEMMA DriveInitially == ViewInit => DriveInv
<1> SUFFICES ASSUME ViewInit PROVE DriveInv
  OBVIOUS
<1>1. PICK r \in Roots : named = [g \in Gens |-> IF g = 0 THEN r ELSE NoId]
  BY DEF ViewInit, DriveInit
<1>2. NoCall \in Call /\ 0 \in Gens /\ Unmapped \in [Ids -> Places]
  BY BrowserAssumption DEF NoCall, Call, Awaits, Kinds, Places, Gens, Unmapped
<1>3. BrowserTypeOK
  BY <1>1, <1>2, BrowserAssumption
     DEF ViewInit, DriveInit, BrowserTypeOK, Places
<1>4. CallOK /\ DownloadsStayInScope
  BY <1>2 DEF ViewInit, DriveInit, CallOK, DownloadsStayInScope, NoCall, Gens
<1>5. ScopeOK
  BY <1>1 DEF ViewInit, DriveInit, ScopeOK, Gens
<1>6. EdgesAreTrue /\ RowsBelowRoot
  BY <1>2, BrowserAssumption
     DEF ViewInit, DriveInit, EdgesAreTrue, RowsBelowRoot, Unmapped, Gens
<1> QED  BY <1>3, <1>4, <1>5, <1>6 DEF DriveInv

\* More recorded parents never take an id out of scope, as long as none of the
\* recorded ones changes.
LEMMA DescendantsGrow ==
  ASSUME NEW rt, NEW up \in [Ids -> Places], NEW vp \in [Ids -> Places],
         \A i \in Ids : up[i] # NoId => vp[i] = up[i],
         NEW id \in Descendants(rt, up)
  PROVE  id \in Descendants(rt, vp)
<1> SUFFICES ASSUME NEW S \in SUBSET Ids, rt \in S,
                    \A j \in Ids : vp[j] \in S => j \in S
             PROVE  id \in S
  BY DEF Descendants
<1>1. \A j \in Ids : up[j] \in S => j \in S
  BY BrowserAssumption
<1> QED  BY <1>1 DEF Descendants

LEMMA ChildrenAreDescendants ==
  ASSUME NEW rt, NEW up \in [Ids -> Places], NEW folder \in Descendants(rt, up),
         NEW i \in Ids, up[i] = folder
  PROVE  i \in Descendants(rt, up)
  BY DEF Descendants

\* What a call's entry must satisfy, given the scopes as they are.
EntryOK(e) ==
  /\ e \in Call /\ e.gen <= gen
  /\ e.kind \in {"folder", "download"} => e.id \in Ids
  /\ e.kind = "download" => e.id \in Paths
  /\ e.pc = "list" => e.id \in Ids
  /\ e.pc = "resolve" => e.kind = "root"
  /\ e.pc \in {"metadata", "content", "publish"} =>
       /\ e.kind = "download" /\ root[e.gen] # NoId
       /\ e.id = root[e.gen] \/ parentOf[e.gen][e.id] # NoId

LEMMA EveryEntryOK ==
  ASSUME BrowserTypeOK, CallOK, DownloadsStayInScope, NEW c \in Calls
  PROVE  EntryOK(calls[c])
  BY DEF BrowserTypeOK, CallOK, DownloadsStayInScope, EntryOK

\* A step of one call: its entry is replaced, a root may be resolved, and the
\* rows stay or are emptied.
LEMMA CallStep ==
  ASSUME DriveInv, NEW c \in Calls, NEW e, EntryOK(e),
         calls' = [calls EXCEPT ![c] = e],
         root' \in [Gens -> Places],
         \A g \in Gens : root[g] # NoId => root'[g] = root[g],
         \A g \in Gens : root'[g] # NoId => g <= gen /\ root'[g] = named[g],
         UNCHANGED <<parent, moves, gen, named, parentOf, index>>,
         UNCHANGED <<rows, listedBy>> \/ (rows' = {} /\ listedBy' = NoId)
  PROVE  DriveInv'
<1>1. \A d \in Calls : EntryOK(calls[d])
  BY EveryEntryOK DEF DriveInv
<1>2. \A d \in Calls : EntryOK(calls'[d])
  BY <1>1 DEF DriveInv, BrowserTypeOK
<1>3. calls' \in [Calls -> Call]
  BY DEF DriveInv, BrowserTypeOK, EntryOK
<1>4. BrowserTypeOK'
  BY <1>3 DEF DriveInv, BrowserTypeOK
<1>5. CallOK'
  BY <1>2 DEF EntryOK, CallOK
<1>6. DownloadsStayInScope'
  BY <1>2, <1>3 DEF EntryOK, DownloadsStayInScope, Call
<1>7. ScopeOK' /\ EdgesAreTrue'
  BY DEF DriveInv, ScopeOK, EdgesAreTrue
<1>8. RowsBelowRoot'
  BY BrowserAssumption DEF DriveInv, RowsBelowRoot, BrowserTypeOK, Gens
<1> QED  BY <1>4, <1>5, <1>6, <1>7, <1>8 DEF DriveInv

LEMMA NoCallOK ==
  ASSUME BrowserTypeOK
  PROVE  EntryOK(NoCall)
  BY BrowserAssumption
     DEF BrowserTypeOK, EntryOK, NoCall, Call, Awaits, Kinds, Places, Gens

\* The entry of a call that has just been started.
Started(kind, id) == [NoCall EXCEPT !.pc = "authorize", !.kind = kind, !.id = id]

LEMMA StartedEntry ==
  ASSUME NEW k \in Kinds, NEW id \in Places
  PROVE  /\ Started(k, id) \in Call
         /\ Started(k, id).pc = "authorize" /\ Started(k, id).kind = k
         /\ Started(k, id).gen = 0 /\ Started(k, id).id = id
<1>1. \A e \in Call : LET s == [e EXCEPT !.pc = "authorize", !.kind = k, !.id = id] IN
        s \in Call /\ s.pc = "authorize" /\ s.kind = k /\ s.gen = e.gen /\ s.id = id
  BY DEF Call, Awaits
<1>2. NoCall \in Call /\ NoCall.gen = 0
  BY BrowserAssumption DEF NoCall, Call, Awaits, Kinds, Gens, Places
<1> QED  BY <1>1, <1>2 DEF Started

LEMMA StartsKeepDrive ==
  ASSUME DriveInv, NEW c \in Calls, LoadRoot(c) \/ \E id \in Ids : ClickRow(c, id)
  PROVE  DriveInv'
<1>0. gen \in Nat /\ BrowserTypeOK
  BY DEF DriveInv, BrowserTypeOK, Gens
<1>1. CASE LoadRoot(c)
  <2>1. EntryOK(Started("root", NoId))
    BY <1>0, StartedEntry DEF EntryOK, Kinds, Places
  <2>2. calls' = [calls EXCEPT ![c] = Started("root", NoId)]
        /\ UNCHANGED <<parent, moves, gen, named, root, parentOf, index, rows, listedBy>>
    BY <1>1 DEF LoadRoot, Starts, viewVars, Started
  <2> QED  BY <2>1, <2>2, CallStep DEF DriveInv, BrowserTypeOK, ScopeOK
<1>2. CASE \E id \in Ids : ClickRow(c, id)
  <2>1. PICK id \in Ids : ClickRow(c, id)
    BY <1>2
  <2> DEFINE k == IF id \in Folders THEN "folder" ELSE "download"
  <2>2. k \in Kinds /\ (k = "download" => id \in Paths)
    BY ViewAssumption DEF Kinds
  <2>3. calls' = [calls EXCEPT ![c] = Started(k, id)]
        /\ UNCHANGED <<parent, moves, gen, named, root, parentOf, index, rows, listedBy>>
    BY <2>1 DEF ClickRow, Starts, Started
  <2> HIDE DEF k
  <2>4. EntryOK(Started(k, id))
    BY <1>0, <2>2, StartedEntry DEF EntryOK, Places
  <2> QED  BY <2>3, <2>4, CallStep DEF DriveInv, BrowserTypeOK, ScopeOK
<1> QED  BY <1>1, <1>2

\* The entry of a call that goes on.
Moved(e, x, g, id) == [e EXCEPT !.pc = x, !.gen = g, !.id = id]

LEMMA MovedEntry ==
  ASSUME NEW e \in Call, NEW x \in Awaits, NEW g \in Gens, NEW id \in Places
  PROVE  /\ Moved(e, x, g, id) \in Call
         /\ Moved(e, x, g, id).pc = x /\ Moved(e, x, g, id).kind = e.kind
         /\ Moved(e, x, g, id).gen = g /\ Moved(e, x, g, id).id = id
  BY DEF Moved, Call

LEMMA GoesReplaces ==
  ASSUME BrowserTypeOK, NEW c \in Calls, NEW x, NEW g, NEW id, Goes(c, x, g, id)
  PROVE  calls' = [calls EXCEPT ![c] = Moved(calls[c], x, g, id)]
  BY DEF BrowserTypeOK, Goes, Moved

\* A check that the scope passed: the id is the root or was listed.
LEMMA InScopeWasListed ==
  ASSUME NEW rt \in Places, NEW up \in [Ids -> Places], NEW id \in Ids,
         WithinRoot(rt, up, id)
  PROVE  rt # NoId /\ (id = rt \/ up[id] # NoId)
<1>1. rt # NoId /\ id \in Descendants(rt, up)
  BY ClimbDecidesReachability
<1>2. SUFFICES ASSUME id # rt, up[id] = NoId PROVE FALSE
  BY <1>1
<1> DEFINE S == Ids \ {id}
<1>3. rt \in S /\ \A j \in Ids : up[j] \in S => j \in S
  BY <1>1, <1>2, BrowserAssumption DEF Places
<1> QED  BY <1>1, <1>3 DEF Descendants

LEMMA ProgressKeepsDrive ==
  ASSUME DriveInv, NEW c \in Calls, CallProceeds(c) \/ ContentRead(c),
         UNCHANGED <<rows, listedBy>>
  PROVE  DriveInv'
<1> DEFINE e == calls[c]
<1>1. EntryOK(e) /\ e \in Call /\ e.id \in Places /\ e.gen \in Gens
      /\ gen \in Gens /\ gen \in Nat /\ BrowserTypeOK
  BY EveryEntryOK DEF DriveInv, BrowserTypeOK, Call, Gens
<1>2. ASSUME NEW x \in Awaits, NEW g \in Gens, NEW id \in Places, Goes(c, x, g, id),
             EntryOK(Moved(e, x, g, id)),
             UNCHANGED <<parent, moves, gen, named, root, parentOf, index>>
      PROVE  DriveInv'
  BY <1>1, <1>2, GoesReplaces, CallStep DEF DriveInv, BrowserTypeOK, ScopeOK
<1> HIDE DEF e
<1>3. CASE OpenRoot(c)
  <2>1. e.kind = "root"
    BY <1>3 DEF OpenRoot, Reaches, e
  <2>2. CASE root[gen] = NoId /\ Goes(c, "resolve", gen, NoId)
    <3>1. "resolve" \in Awaits /\ NoId \in Places
      BY DEF Awaits, Places
    <3>2. EntryOK(Moved(e, "resolve", gen, NoId))
      BY <1>1, <2>1, <3>1, MovedEntry DEF EntryOK
    <3>3. UNCHANGED <<parent, moves, gen, named, root, parentOf, index>>
      BY <1>3 DEF OpenRoot
    <3> QED  BY <1>1, <1>2, <2>2, <3>1, <3>2, <3>3
  <2>3. CASE root[gen] # NoId /\ Goes(c, "list", gen, root[gen])
    <3>1. "list" \in Awaits /\ root[gen] \in Places /\ root[gen] \in Ids
      BY <1>1, <2>3 DEF Awaits, Places, BrowserTypeOK
    <3>2. EntryOK(Moved(e, "list", gen, root[gen]))
      BY <1>1, <2>1, <3>1, MovedEntry DEF EntryOK
    <3>3. UNCHANGED <<parent, moves, gen, named, root, parentOf, index>>
      BY <1>3 DEF OpenRoot
    <3> QED  BY <1>1, <1>2, <2>3, <3>1, <3>2, <3>3
  <2> QED  BY <1>3, <2>2, <2>3 DEF OpenRoot
<1>4. CASE RootResolved(c)
  <2>0. PICK g \in Gens : g = e.gen
    BY <1>1
  <2> DEFINE m == Moved(e, "list", g, named[g])
  <2>1. /\ e.pc = "resolve"
        /\ root' = [root EXCEPT ![g] = named[g]]
        /\ Goes(c, "list", g, named[g])
        /\ UNCHANGED <<parent, moves, gen, named, parentOf, index>>
    BY <1>4, <2>0 DEF RootResolved, e
  <2>2. named[g] \in Ids /\ named[g] \in Places /\ named[g] # NoId /\ g <= gen
        /\ e.kind = "root"
    BY <1>1, <2>0, <2>1, BrowserAssumption DEF DriveInv, ScopeOK, EntryOK, Places
  <2>3. EntryOK(m)
    <3>1. "list" \in Awaits
      BY DEF Awaits
    <3>2. PICK id \in Places : id = named[g]
      BY <2>2
    <3>3. LET q == Moved(e, "list", g, id) IN
          q \in Call /\ q.pc = "list" /\ q.kind = e.kind /\ q.gen = g /\ q.id = id
      BY <1>1, <3>1, MovedEntry
    <3>4. /\ m \in Call /\ m.pc = "list" /\ m.kind = "root"
          /\ m.gen = g /\ m.id = named[g]
      BY <2>2, <3>2, <3>3
    <3> HIDE DEF m
    <3> QED  BY <2>2, <3>4 DEF EntryOK
  <2>4. calls' = [calls EXCEPT ![c] = m]
    BY <1>1, <2>1, GoesReplaces DEF e
  <2>5. /\ root' \in [Gens -> Places]
        /\ \A h \in Gens : root[h] # NoId => root'[h] = root[h]
        /\ \A h \in Gens : root'[h] # NoId => h <= gen /\ root'[h] = named[h]
    BY <1>1, <2>1, <2>2 DEF DriveInv, ScopeOK, BrowserTypeOK
  <2> HIDE DEF m
  <2> QED  BY <2>1, <2>3, <2>4, <2>5, CallStep
<1>5. CASE OpenFolder(c)
  <2>1. e.kind = "folder" /\ Goes(c, "list", gen, e.id)
        /\ UNCHANGED <<parent, moves, gen, named, root, parentOf, index>>
    BY <1>5 DEF OpenFolder, Reaches, e
  <2>2. EntryOK(Moved(e, "list", gen, e.id)) /\ "list" \in Awaits
    <3>1. "list" \in Awaits
      BY DEF Awaits
    <3> QED  BY <1>1, <2>1, <3>1, MovedEntry DEF EntryOK
  <2> QED  BY <1>1, <1>2, <2>1, <2>2
<1>6. CASE Download(c)
  <2>1. e.kind = "download" /\ Goes(c, "metadata", gen, e.id) /\ IsWithinRoot(gen, e.id)
        /\ UNCHANGED <<parent, moves, gen, named, root, parentOf, index>>
    BY <1>6 DEF Download, DownloadAllowed, Reaches, e
  <2>2. root[gen] \in Places /\ parentOf[gen] \in [Ids -> Places] /\ e.id \in Ids
    BY <1>1, <2>1 DEF BrowserTypeOK, EntryOK
  <2>3. root[gen] # NoId /\ (e.id = root[gen] \/ parentOf[gen][e.id] # NoId)
    BY <2>1, <2>2, InScopeWasListed DEF IsWithinRoot
  <2>4. EntryOK(Moved(e, "metadata", gen, e.id)) /\ "metadata" \in Awaits
    <3>1. "metadata" \in Awaits
      BY DEF Awaits
    <3> QED  BY <1>1, <2>1, <2>3, <3>1, MovedEntry DEF EntryOK
  <2> QED  BY <1>1, <1>2, <2>1, <2>4
<1>same. ASSUME NEW x \in Awaits
      PROVE  /\ Moved(e, x, e.gen, e.id) \in Call /\ Moved(e, x, e.gen, e.id).pc = x
             /\ Moved(e, x, e.gen, e.id).kind = e.kind
             /\ Moved(e, x, e.gen, e.id).gen = e.gen /\ Moved(e, x, e.gen, e.id).id = e.id
  <2>1. PICK g \in Gens, id \in Places : g = e.gen /\ id = e.id
    BY <1>1
  <2>2. /\ Moved(e, x, g, id) \in Call
        /\ Moved(e, x, g, id).pc = x /\ Moved(e, x, g, id).kind = e.kind
        /\ Moved(e, x, g, id).gen = g /\ Moved(e, x, g, id).id = id
    BY <1>1, MovedEntry
  <2> QED  BY <2>1, <2>2
<1>7. CASE MetadataRead(c)
  <2>1. e.pc = "metadata" /\ Goes(c, "content", e.gen, e.id)
        /\ UNCHANGED <<parent, moves, gen, named, root, parentOf, index>>
    BY <1>7 DEF MetadataRead, e
  <2>2. EntryOK(Moved(e, "content", e.gen, e.id)) /\ "content" \in Awaits
    <3> DEFINE m == Moved(e, "content", e.gen, e.id)
    <3>1. "content" \in Awaits
      BY DEF Awaits
    <3>2. /\ m \in Call /\ m.pc = "content" /\ m.kind = e.kind
          /\ m.gen = e.gen /\ m.id = e.id
      BY <1>same, <3>1
    <3> HIDE DEF m
    <3>3. EntryOK(m)
      BY <1>1, <2>1, <3>2 DEF EntryOK
    <3> QED  BY <3>1, <3>3 DEF m
  <2> QED  BY <1>1, <1>2, <2>1, <2>2
<1>8. CASE ContentRead(c)
  <2>1. e.pc = "content" /\ Goes(c, "publish", e.gen, e.id)
        /\ UNCHANGED <<parent, moves, gen, named, root, parentOf, index>>
    BY <1>8 DEF ContentRead, e
  <2>2. EntryOK(Moved(e, "publish", e.gen, e.id)) /\ "publish" \in Awaits
    <3> DEFINE m == Moved(e, "publish", e.gen, e.id)
    <3>1. "publish" \in Awaits
      BY DEF Awaits
    <3>2. /\ m \in Call /\ m.pc = "publish" /\ m.kind = e.kind
          /\ m.gen = e.gen /\ m.id = e.id
      BY <1>same, <3>1
    <3> HIDE DEF m
    <3>3. EntryOK(m)
      BY <1>1, <2>1, <3>2 DEF EntryOK
    <3> QED  BY <3>1, <3>3 DEF m
  <2> QED  BY <1>1, <1>2, <2>1, <2>2
<1> QED  BY <1>3, <1>4, <1>5, <1>6, <1>7, <1>8 DEF CallProceeds

LEMMA EndsKeepDrive ==
  ASSUME DriveInv, NEW c \in Calls, (CallFails(c) /\ FailureShown(c)) \/ DownloadEnds(c)
  PROVE  DriveInv'
<1>1. EntryOK(NoCall) /\ EntryOK(calls[c]) /\ calls[c].gen \in Gens /\ BrowserTypeOK
  BY NoCallOK, EveryEntryOK DEF DriveInv, BrowserTypeOK, Call
<1>2. calls' = [calls EXCEPT ![c] = NoCall]
  BY DEF CallFails, DownloadEnds, Return
<1>3. UNCHANGED <<parent, moves, gen, named, parentOf, index>>
  BY DEF CallFails, DownloadEnds
<1>4. UNCHANGED <<rows, listedBy>> \/ (rows' = {} /\ listedBy' = NoId)
  BY DEF FailureShown, Show, DownloadEnds
<1>5. root' = root \/ root' = [root EXCEPT ![calls[c].gen] = named[calls[c].gen]]
  BY DEF CallFails, DownloadEnds
<1>6. calls[c].gen <= gen /\ named[calls[c].gen] \in Roots /\ named[calls[c].gen] \in Places
  BY <1>1, BrowserAssumption DEF DriveInv, ScopeOK, EntryOK, Places
<1>7. /\ root' \in [Gens -> Places]
      /\ \A h \in Gens : root[h] # NoId => root'[h] = root[h]
      /\ \A h \in Gens : root'[h] # NoId => h <= gen /\ root'[h] = named[h]
  BY <1>1, <1>5, <1>6 DEF DriveInv, ScopeOK, BrowserTypeOK
<1> QED  BY <1>1, <1>2, <1>3, <1>4, <1>7, CallStep

\* An answered listing: its rows are indexed and shown, or it is refused after the
\* client's registration.
LEMMA ListingKeepsDrive ==
  ASSUME DriveInv, NEW c \in Calls, ClientRegisters(c),
         \/ index' = index \cup Children(c) /\ rows' = Children(c) /\ listedBy' = calls[c].gen
         \/ UNCHANGED <<index, rows, listedBy>>
         \/ UNCHANGED index /\ rows' = {} /\ listedBy' = NoId
  PROVE  DriveInv'
<1> DEFINE g == calls[c].gen
           folder == calls[c].id
           kids == Children(c)
<1>1. /\ calls[c].pc = "list" /\ IsWithinRoot(g, folder)
      /\ parentOf' = [parentOf EXCEPT ![g] =
                        [i \in Ids |-> IF i \in kids THEN folder ELSE parentOf[g][i]]]
      /\ calls' = [calls EXCEPT ![c] = NoCall]
      /\ UNCHANGED <<parent, moves, gen, named, root>>
      /\ \/ index' = index \cup kids /\ rows' = kids /\ listedBy' = g
         \/ UNCHANGED <<index, rows, listedBy>>
         \/ UNCHANGED index /\ rows' = {} /\ listedBy' = NoId
  BY DEF ClientRegisters, RegisterChildren, Return
<1>2. /\ BrowserTypeOK /\ EntryOK(NoCall) /\ EntryOK(calls[c])
      /\ g \in Gens /\ g <= gen /\ gen \in Nat /\ folder \in Ids
  BY <1>1, NoCallOK, EveryEntryOK
     DEF DriveInv, BrowserTypeOK, Call, EntryOK, Gens
<1>3. kids \subseteq Ids /\ \A i \in kids : parent[i] = folder
  BY DEF Children
<1> HIDE DEF kids, folder, g
<1>4. /\ parentOf' \in [Gens -> [Ids -> Places]]
      /\ \A h \in Gens, i \in Ids :
           parentOf'[h][i] = IF h = g /\ i \in kids THEN folder ELSE parentOf[h][i]
  BY <1>1, <1>2, <1>3 DEF BrowserTypeOK, Places
<1>5. \A h \in Gens, i \in Ids : parentOf[h][i] # NoId => parentOf'[h][i] # NoId
  BY <1>2, <1>4, BrowserAssumption
<1>6. BrowserTypeOK'
  BY <1>1, <1>2, <1>3, <1>4 DEF BrowserTypeOK, EntryOK
<1>7. ASSUME NEW d \in Calls
      PROVE  /\ EntryOK(calls'[d]) /\ calls'[d].gen \in Gens
             /\ calls'[d].kind = "download" => calls'[d].id \in Ids
  BY <1>1, <1>2, EveryEntryOK DEF DriveInv, BrowserTypeOK, EntryOK, Call
<1>8. CallOK'
  BY <1>1, <1>7 DEF CallOK, EntryOK
<1>9. DownloadsStayInScope'
  BY <1>1, <1>5, <1>7 DEF DownloadsStayInScope, EntryOK
<1>10. ScopeOK'
  BY <1>1 DEF DriveInv, ScopeOK
<1>11. EdgesAreTrue'
  BY <1>1, <1>3, <1>4 DEF DriveInv, EdgesAreTrue
<1>12. RowsBelowRoot'
  <2>1. listedBy' # NoId => listedBy' <= gen'
    BY <1>1, <1>2 DEF DriveInv, RowsBelowRoot
  <2>2. ASSUME moves' = 0, listedBy' = gen'
        PROVE  /\ root'[gen'] # NoId
               /\ rows' \subseteq Descendants(root'[gen'], parentOf'[gen'])
               /\ rows' \subseteq index'
    <3> DEFINE rt == root[gen]
               up == parentOf[gen]
               vp == parentOf'[gen]
    <3>1. gen' = gen /\ moves = 0 /\ root' = root /\ gen \in Gens /\ gen # NoId
      BY <1>1, <1>2, <2>2, BrowserAssumption DEF BrowserTypeOK, Gens
    <3>2. rt \in Places /\ up \in [Ids -> Places] /\ vp \in [Ids -> Places]
      BY <1>2, <1>4, <3>1 DEF BrowserTypeOK
    <3>3. \A i \in Ids : up[i] # NoId => vp[i] = up[i]
      BY <1>3, <1>4, <3>1 DEF DriveInv, EdgesAreTrue
    <3>4. CASE index' = index \cup kids /\ rows' = kids /\ listedBy' = g
      <4>1. gen = g
        BY <2>2, <3>1, <3>4
      <4>2. rt # NoId /\ folder \in Descendants(rt, up)
        BY <1>1, <1>2, <3>2, <4>1, ClimbDecidesReachability DEF IsWithinRoot
      <4>3. \A i \in kids : vp[i] = folder
        BY <1>3, <1>4, <3>1, <4>1
      <4> HIDE DEF rt, up, vp
      <4>4. folder \in Descendants(rt, vp)
        BY <3>2, <3>3, <4>2, DescendantsGrow
      <4>5. kids \subseteq Descendants(rt, vp)
        BY <1>3, <3>2, <4>3, <4>4, ChildrenAreDescendants
      <4> QED  BY <3>1, <3>4, <4>2, <4>5 DEF rt, vp
    <3>5. CASE UNCHANGED <<index, rows, listedBy>>
      <4>1. rt # NoId /\ rows \subseteq Descendants(rt, up) /\ rows \subseteq index
        BY <2>2, <3>1, <3>5 DEF DriveInv, RowsBelowRoot
      <4> HIDE DEF rt, up, vp
      <4>2. rows \subseteq Descendants(rt, vp)
        BY <3>2, <3>3, <4>1, DescendantsGrow
      <4> QED  BY <3>1, <3>5, <4>1, <4>2 DEF rt, vp
    <3> QED  BY <1>1, <2>2, <3>1, <3>4, <3>5
  <2> QED  BY <2>1, <2>2 DEF RowsBelowRoot, Descendants
<1> QED  BY <1>6, <1>8, <1>9, <1>10, <1>11, <1>12 DEF DriveInv

LEMMA HostKeepsDrive ==
  ASSUME DriveInv, Search \/ HostChanges \/ Elsewhere
  PROVE  DriveInv'
<1>0. gen \in Nat /\ moves \in Nat /\ gen \in Gens
  BY DEF DriveInv, BrowserTypeOK, Gens
<1>1. CASE Search
  <2>1. UNCHANGED driveVars /\ rows' \subseteq index /\ listedBy' = NoId
    BY <1>1 DEF Search, SearchResults, Show
  <2>2. BrowserTypeOK' /\ CallOK' /\ ScopeOK' /\ DownloadsStayInScope' /\ EdgesAreTrue'
    BY <2>1 DEF DriveInv, BrowserTypeOK, CallOK, ScopeOK, DownloadsStayInScope,
                EdgesAreTrue, driveVars
  <2>3. RowsBelowRoot'
    BY <1>0, <2>1, BrowserAssumption DEF RowsBelowRoot, driveVars, Gens
  <2> QED  BY <2>2, <2>3 DEF DriveInv
<1>2. CASE EnrolmentChanges /\ UNCHANGED <<rows, listedBy>>
  BY <1>2 DEF EnrolmentChanges, DriveInv, BrowserTypeOK, CallOK, ScopeOK,
              DownloadsStayInScope, EdgesAreTrue, RowsBelowRoot
<1>3. ASSUME NEW r \in Roots, SetUpDrive(r), UNCHANGED <<rows, listedBy>>
      PROVE  DriveInv'
  <2>1. /\ gen < MaxGen /\ gen' = gen + 1 /\ named' = [named EXCEPT ![gen + 1] = r]
        /\ UNCHANGED <<parent, moves, root, parentOf, index, calls, rows, listedBy>>
    BY <1>3 DEF SetUpDrive
  <2>2. gen + 1 \in Gens
    BY <1>0, <2>1, BrowserAssumption DEF Gens
  <2>3. BrowserTypeOK' /\ DownloadsStayInScope' /\ EdgesAreTrue'
    BY <2>1, <2>2 DEF DriveInv, BrowserTypeOK, DownloadsStayInScope, EdgesAreTrue
  <2>4. CallOK'
    <3>1. \A d \in Calls : calls[d].gen \in Nat
      BY DEF DriveInv, BrowserTypeOK, Call, Gens
    <3> QED  BY <1>0, <2>1, <3>1 DEF DriveInv, CallOK
  <2>5. ScopeOK'
    BY <1>0, <2>1, <2>2 DEF DriveInv, ScopeOK, BrowserTypeOK, Gens
  <2>6. RowsBelowRoot'
    <3>1. listedBy # NoId => listedBy \in Nat /\ listedBy <= gen
      BY DEF DriveInv, RowsBelowRoot, BrowserTypeOK, Gens
    <3>2. listedBy' # NoId => listedBy' < gen'
      BY <1>0, <2>1, <3>1
    <3>3. gen' # NoId
      BY <2>1, <2>2, BrowserAssumption DEF Gens
    <3> QED  BY <1>0, <2>1, <3>1, <3>2, <3>3 DEF RowsBelowRoot
  <2> QED  BY <2>3, <2>4, <2>5, <2>6 DEF DriveInv
<1>4. ASSUME NEW id \in Ids, NEW to \in Folders, MoveInDrive(id, to),
             UNCHANGED <<rows, listedBy>>
      PROVE  DriveInv'
  <2>1. /\ parent' = [parent EXCEPT ![id] = to] /\ moves' = moves + 1
        /\ UNCHANGED <<gen, named, root, parentOf, index, calls, rows, listedBy>>
    BY <1>4 DEF MoveInDrive
  <2>2. moves' \in Nat /\ moves' # 0
    BY <1>0, <2>1
  <2>3. BrowserTypeOK'
    BY <2>1, <2>2 DEF DriveInv, BrowserTypeOK
  <2>4. CallOK' /\ ScopeOK' /\ DownloadsStayInScope'
    BY <2>1 DEF DriveInv, CallOK, ScopeOK, DownloadsStayInScope
  <2>5. EdgesAreTrue' /\ RowsBelowRoot'
    BY <2>1, <2>2 DEF DriveInv, EdgesAreTrue, RowsBelowRoot
  <2> QED  BY <2>3, <2>4, <2>5 DEF DriveInv
<1>5. ASSUME UNCHANGED <<driveVars, viewVars>> PROVE DriveInv'
  BY <1>5 DEF driveVars, viewVars, DriveInv, BrowserTypeOK, CallOK, ScopeOK,
              DownloadsStayInScope, EdgesAreTrue, RowsBelowRoot
<1>6. CASE HostChanges
  BY <1>2, <1>3, <1>6 DEF HostChanges
<1>7. CASE Elsewhere
  BY <1>4, <1>5, <1>7 DEF Elsewhere, viewVars
<1> QED  BY <1>1, <1>6, <1>7

LEMMA DriveInductive == DriveInv /\ [ViewNext]_bvars => DriveInv'
<1> SUFFICES ASSUME DriveInv, [ViewNext]_bvars PROVE DriveInv'
  OBVIOUS
<1>1. ASSUME UNCHANGED <<driveVars, viewVars>> PROVE DriveInv'
  BY <1>1 DEF driveVars, viewVars, DriveInv, BrowserTypeOK, CallOK, ScopeOK,
              DownloadsStayInScope, EdgesAreTrue, RowsBelowRoot
<1>2. CASE UNCHANGED bvars
  BY <1>1, <1>2 DEF bvars
<1>3. ASSUME NEW c \in Calls, CallGoesOn(c) PROVE DriveInv'
  BY <1>3, ProgressKeepsDrive DEF CallGoesOn, viewVars
<1>4. ASSUME NEW c \in Calls, Publishes(c) PROVE DriveInv'
  BY <1>1, <1>4 DEF Publishes
<1>5. ASSUME NEW c \in Calls, ReadFails(c) PROVE DriveInv'
  <2>1. CASE CallFails(c) /\ FailureShown(c)
    BY <2>1, EndsKeepDrive
  <2>2. CASE ListingRefused(c) /\ FailureShown(c)
    BY <2>2, ListingKeepsDrive DEF ListingRefused, FailureShown, Show
  <2> QED  BY <1>5, <2>1, <2>2 DEF ReadFails
<1>6. ASSUME NEW c \in Calls, ListedAndShown(c) \/ DownloadEnds(c) PROVE DriveInv'
  <2>1. CASE ListedAndShown(c)
    BY <2>1, ListingKeepsDrive DEF ListedAndShown, Listed, Show
  <2>2. CASE DownloadEnds(c)
    BY <2>2, EndsKeepDrive
  <2> QED  BY <1>6, <2>1, <2>2
<1>7. ASSUME NEW c \in Calls, LoadRoot(c) \/ \E id \in Ids : ClickRow(c, id) PROVE DriveInv'
  BY <1>7, StartsKeepDrive
<1>8. CASE Search \/ HostChanges \/ Elsewhere
  BY <1>8, HostKeepsDrive
<1> QED
  BY <1>2, <1>3, <1>4, <1>5, <1>6, <1>7, <1>8 DEF ViewNext

LEMMA DriveAlways == ViewSpec => []DriveInv
  BY DriveInitially, DriveInductive, PTL DEF ViewSpec

\* DriveRootScope.isWithinRoot, as the controllers ever call it, accepts exactly
\* the ids that reach the root through recorded parents, whatever moves made in
\* Drive do to those records.
THEOREM ScopeCheckIsExact == ViewSpec => []ScopeIsReachability
<1>1. ASSUME DriveInv PROVE ScopeIsReachability
  <2>1. ASSUME NEW g \in Gens, NEW i \in Ids
        PROVE  IsWithinRoot(g, i) <=>
                 (root[g] # NoId /\ i \in Descendants(root[g], parentOf[g]))
    <3>1. root[g] \in Places /\ parentOf[g] \in [Ids -> Places]
      BY <1>1 DEF DriveInv, BrowserTypeOK
    <3> QED  BY <3>1, ClimbDecidesReachability DEF IsWithinRoot
  <2> QED  BY <2>1 DEF ScopeIsReachability
<1> QED  BY <1>1, DriveAlways, PTL

\* A controller fetches content only for its root or for what was listed below it.
THEOREM DownloadsInScope == ViewSpec => []DownloadsStayInScope
<1>1. DriveInv => DownloadsStayInScope
  BY DEF DriveInv
<1> QED  BY <1>1, DriveAlways, PTL

\* As long as nothing is moved in Drive, every row the current controller listed
\* passes the checks of download and openFolder, whichever answers came since.
THEOREM ListedRowsAreUsable == ViewSpec => []RowsAreUsable
<1>1. ASSUME DriveInv PROVE RowsAreUsable
  <2> SUFFICES ASSUME moves = 0, listedBy = gen, NEW i \in rows
               PROVE  DownloadAllowed(gen, i)
    BY DEF RowsAreUsable
  <2>1. /\ root[gen] \in Places /\ parentOf[gen] \in [Ids -> Places] /\ i \in Ids
        /\ root[gen] # NoId /\ i \in Descendants(root[gen], parentOf[gen])
        /\ i \in index
    BY <1>1 DEF DriveInv, BrowserTypeOK, RowsBelowRoot
  <2> QED  BY <2>1, ClimbDecidesReachability DEF DownloadAllowed, IsWithinRoot
<1> QED  BY <1>1, DriveAlways, PTL

-----------------------------------------------------------------------------
(* The cache's part *)

LEMMA PublishInitially == ViewInit => PublishTypeOK /\ PublishOK
  BY ViewAssumption, PublishAssumption
     DEF ViewInit, PublishInit, PublishTypeOK, PublishOK, PublishPcs, File, Absent

\* A path another download has filled is not Absent.
LEMMA OwnedIsNotAbsent ==
  ASSUME NEW f, NEW c \in Calls, final[f].by = c
  PROVE  final[f] # Absent
  BY ViewAssumption, PublishAssumption DEF Absent

\* Steps that leave the files alone and move one publication along.
LEMMA PcStep ==
  ASSUME PublishTypeOK, PublishOK, NEW c \in Calls, NEW x \in PublishPcs, Goto(c, x),
         calls[c].pc = "publish", UNCHANGED <<calls, final, deletes>>,
         removed' \subseteq Calls, \A d \in Calls : d # c => (d \in removed' <=> d \in removed),
         temp' \in [Calls -> File],
         x = "statFinal" => final[calls[c].id].by = c \/ c \in removed',
         x \in {"done", "remove"} =>
           final[calls[c].id] = [by |-> c, whole |-> TRUE] \/ c \in removed'
  PROVE  PublishTypeOK' /\ PublishOK'
<1>1. pc' = [pc EXCEPT ![c] = x] /\ pc' \in [Calls -> PublishPcs]
  BY DEF Goto, PublishTypeOK
<1>2. PublishTypeOK'
  BY <1>1 DEF PublishTypeOK
<1>3. \A d \in Calls : pc'[d] = IF d = c THEN x ELSE pc[d]
  BY <1>1 DEF PublishTypeOK
<1>4. PublishOK'
  BY <1>3 DEF PublishOK
<1> QED  BY <1>2, <1>4

LEMMA PublishingKeepsCache ==
  ASSUME DriveInv, PublishTypeOK, PublishOK, NEW c \in Calls, Publishes(c)
  PROVE  PublishTypeOK' /\ PublishOK'
<1> DEFINE f == calls[c].id
<1>1. calls[c].pc = "publish" /\ PublishStep(c, f) /\ UNCHANGED calls
  BY DEF Publishes, driveVars
<1>2. f \in Paths /\ final[f] \in File /\ temp[c] \in File
  BY <1>1 DEF DriveInv, CallOK, PublishTypeOK
<1>3. Absent \in File /\ \A w \in BOOLEAN : [by |-> c, whole |-> w] \in File
  BY DEF Absent, File
<1> HIDE DEF f
<1>4. CASE CheckAbsent(c, f) \/ RecheckAbsent(c, f)
  <2>1. PICK x \in {"write", "failed", "copy", "cleanup"} : Goto(c, x)
    BY <1>4 DEF CheckAbsent, RecheckAbsent
  <2>2. UNCHANGED <<final, temp, deletes, removed>>
    BY <1>4 DEF CheckAbsent, RecheckAbsent
  <2> QED  BY <1>1, <2>1, <2>2, PcStep DEF PublishPcs, PublishTypeOK
<1>5. CASE WriteTemp(c)
  <2>1. PICK x \in {"statTemp", "cleanup"} : Goto(c, x)
    BY <1>5 DEF WriteTemp
  <2>2. UNCHANGED <<final, deletes, removed>> /\ temp' \in [Calls -> File]
    BY <1>3, <1>5 DEF WriteTemp, PublishTypeOK
  <2> QED  BY <1>1, <2>1, <2>2, PcStep DEF PublishPcs, PublishTypeOK
<1>6. CASE StatTemp(c)
  <2>1. PICK x \in {"recheck", "cleanup"} : Goto(c, x)
    BY <1>6 DEF StatTemp
  <2>2. UNCHANGED <<final, temp, deletes, removed>>
    BY <1>6 DEF StatTemp
  <2> QED  BY <1>1, <2>1, <2>2, PcStep DEF PublishPcs, PublishTypeOK
<1>7. CASE Cleanup(c)
  <2>1. Goto(c, "failed") /\ UNCHANGED <<final, deletes, removed>> /\ temp' \in [Calls -> File]
    BY <1>3, <1>7 DEF Cleanup, PublishTypeOK
  <2> QED  BY <1>1, <2>1, PcStep DEF PublishPcs, PublishTypeOK
<1>8. CASE RemoveTemp(c)
  <2>1. PICK x \in {"done", "cleanup"} : Goto(c, x)
    BY <1>8 DEF RemoveTemp
  <2>2. pc[c] = "remove" /\ UNCHANGED <<final, deletes, removed>> /\ temp' \in [Calls -> File]
    BY <1>3, <1>8 DEF RemoveTemp, PublishTypeOK
  <2>3. final[calls[c].id] = [by |-> c, whole |-> TRUE] \/ c \in removed
    BY <2>2 DEF PublishOK
  <2> QED  BY <1>1, <2>1, <2>2, <2>3, PcStep DEF PublishPcs, PublishTypeOK
<1>9. CASE StatFinal(c, f)
  <2>1. pc[c] = "statFinal" /\ UNCHANGED <<final, temp, deletes, removed>>
    BY <1>9 DEF StatFinal
  <2>2. final[f].by = c \/ c \in removed
    BY <2>1 DEF PublishOK, f
  <2>3. CASE final[f].whole
    <3>1. Goto(c, "remove")
      BY <1>9, <2>3 DEF StatFinal, FinalVerified
    <3>2. final[f] = [by |-> c, whole |-> TRUE] \/ c \in removed
      BY <1>2, <2>2, <2>3 DEF File
    <3> QED  BY <1>1, <2>1, <3>1, <3>2, PcStep DEF PublishPcs, PublishTypeOK, f
  <2>4. CASE ~final[f].whole
    <3>1. Goto(c, "cleanup")
      BY <1>9, <2>4 DEF StatFinal, FinalVerified
    <3> QED  BY <1>1, <2>1, <3>1, PcStep DEF PublishPcs, PublishTypeOK
  <2> QED  BY <2>3, <2>4
<1>10. CASE CopyToFinal(c, f)
  <2>1. PICK x \in {"statFinal", "cleanup"} : Goto(c, x)
    BY <1>10 DEF CopyToFinal
  <2>2. UNCHANGED <<temp, deletes>> /\ removed' = removed \ {c} /\ x \in PublishPcs
    BY <1>10, <2>1 DEF CopyToFinal, PublishPcs
  <2>3. CASE UNCHANGED final /\ Goto(c, "cleanup")
    BY <1>1, <2>2, <2>3, PcStep DEF PublishPcs, PublishTypeOK
  <2>4. ASSUME NEW w \in BOOLEAN, CopyPermitted(f), PutAt(f, [by |-> c, whole |-> w])
        PROVE  PublishTypeOK' /\ PublishOK'
    <3>1. final[f] = Absent /\ final' = [final EXCEPT ![f] = [by |-> c, whole |-> w]]
      BY <2>4 DEF CopyPermitted, PutAt
    <3>2. pc' = [pc EXCEPT ![c] = x]
      BY <2>1 DEF Goto
    <3>3. PublishTypeOK'
      BY <1>3, <2>2, <3>1, <3>2 DEF PublishTypeOK
    <3>4. final'[f].by = c
      BY <1>2, <3>1 DEF PublishTypeOK
    <3>5. ASSUME NEW d \in Calls
          PROVE  /\ pc'[d] # "idle" => calls'[d].pc = "publish"
                 /\ pc'[d] = "statFinal" => final'[calls'[d].id].by = d \/ d \in removed'
                 /\ pc'[d] \in {"done", "remove"} =>
                      final'[calls'[d].id] = [by |-> d, whole |-> TRUE] \/ d \in removed'
      <4>1. CASE d = c
        <5>1. pc'[d] = x /\ calls' = calls
          BY <1>1, <3>2, <4>1 DEF PublishTypeOK
        <5> QED  BY <1>1, <2>1, <3>4, <4>1, <5>1 DEF f
      <4>2. CASE d # c
        <5>1. pc'[d] = pc[d] /\ calls' = calls /\ (d \in removed' <=> d \in removed)
          BY <1>1, <2>2, <3>2, <4>2 DEF PublishTypeOK
        <5>2. CASE calls[d].id = f
          <6>1. final[calls[d].id].by # d
            BY <3>1, <5>2, OwnedIsNotAbsent
          <6>2. final[calls[d].id] # [by |-> d, whole |-> TRUE]
            BY <6>1
          <6> QED  BY <5>1, <6>1, <6>2 DEF PublishOK
        <5>3. CASE calls[d].id # f
          <6>1. pc[d] # "idle" => final'[calls[d].id] = final[calls[d].id]
            <7>1. pc[d] # "idle" => calls[d].id \in Paths
              BY DEF PublishOK, DriveInv, CallOK
            <7> QED  BY <3>1, <5>3, <7>1 DEF PublishTypeOK
          <6> QED  BY <5>1, <6>1 DEF PublishOK
        <5> QED  BY <5>2, <5>3
      <4> QED  BY <4>1, <4>2
    <3> QED  BY <3>3, <3>5 DEF PublishOK
  <2>5. temp[c].whole \in BOOLEAN
    BY <1>2 DEF File
  <2> QED  BY <1>10, <2>3, <2>4, <2>5 DEF CopyToFinal
<1> QED  BY <1>1, <1>4, <1>5, <1>6, <1>7, <1>8, <1>9, <1>10 DEF PublishStep

\* Steps that leave the cache alone and touch only calls that publish nothing.
LEMMA OtherCallsKeepCache ==
  ASSUME PublishTypeOK, PublishOK, UNCHANGED publishVars,
         \A d \in Calls : calls[d].pc = "publish" => calls'[d] = calls[d]
  PROVE  PublishTypeOK' /\ PublishOK'
  BY DEF publishVars, PublishTypeOK, PublishOK

LEMMA CacheInductive ==
  DriveInv /\ PublishTypeOK /\ PublishOK /\ [ViewNext]_bvars => PublishTypeOK' /\ PublishOK'
<1> SUFFICES ASSUME DriveInv, PublishTypeOK, PublishOK, [ViewNext]_bvars
             PROVE  PublishTypeOK' /\ PublishOK'
  OBVIOUS
<1>0. calls \in [Calls -> Call] /\ BrowserTypeOK
  BY DEF DriveInv, BrowserTypeOK
<1>1. CASE UNCHANGED bvars \/ Search \/ HostChanges
  <2>1. UNCHANGED publishVars /\ UNCHANGED calls
    BY <1>1 DEF bvars, driveVars, Search, HostChanges, EnrolmentChanges, SetUpDrive
  <2> QED  BY <2>1, OtherCallsKeepCache
<1>2. CASE Elsewhere
  <2>1. ASSUME NEW id \in Ids, NEW to \in Folders, MoveInDrive(id, to), UNCHANGED publishVars
        PROVE  PublishTypeOK' /\ PublishOK'
    BY <2>1, OtherCallsKeepCache DEF MoveInDrive
  <2>2. ASSUME NEW f \in Paths, UserDeletes(f), UNCHANGED driveVars
        PROVE  PublishTypeOK' /\ PublishOK'
    <3>1. /\ deletes' = deletes + 1 /\ final' = [final EXCEPT ![f] = Absent]
          /\ removed' = removed \cup {c \in Calls : pc[c] # "idle" /\ final[f].by = c}
          /\ UNCHANGED <<pc, temp, calls>>
      BY <2>2, ViewAssumption DEF UserDeletes, PutAt, driveVars
    <3>2. Absent \in File /\ deletes' \in Nat
      BY <3>1 DEF PublishTypeOK, Absent, File
    <3>3. PublishTypeOK'
      BY <3>1, <3>2 DEF PublishTypeOK
    <3>4. ASSUME NEW d \in Calls, pc[d] # "idle", d \notin removed'
          PROVE  /\ d \notin removed
                 /\ \/ final'[calls[d].id] = final[calls[d].id]
                    \/ final[calls[d].id].by # d
      <4>1. calls[d].id \in Paths
        BY <3>4 DEF PublishOK, DriveInv, CallOK
      <4> QED  BY <3>1, <3>4, <4>1 DEF PublishTypeOK
    <3> QED  BY <3>1, <3>3, <3>4 DEF PublishOK
  <2> QED  BY <1>2, <2>1, <2>2 DEF Elsewhere
<1>3. ASSUME NEW c \in Calls, calls[c].pc # "publish", UNCHANGED publishVars,
             NEW e, calls' = [calls EXCEPT ![c] = e]
      PROVE  PublishTypeOK' /\ PublishOK'
  BY <1>0, <1>3, OtherCallsKeepCache
<1>4. ASSUME NEW c \in Calls, LoadRoot(c) \/ (\E id \in Ids : ClickRow(c, id))
      PROVE  PublishTypeOK' /\ PublishOK'
  <2>1. PICK k, id : Starts(c, k, id)
    BY <1>4 DEF LoadRoot, ClickRow
  <2> QED  BY <1>3, <2>1 DEF Starts
<1>5. ASSUME NEW c \in Calls, ListedAndShown(c) \/ ReadFails(c)
      PROVE  PublishTypeOK' /\ PublishOK'
  BY <1>3, <1>5 DEF ListedAndShown, Listed, ListingRefused, ClientRegisters, ReadFails,
                    CallFails, Return
<1>6. ASSUME NEW c \in Calls, CallProceeds(c), UNCHANGED publishVars
      PROVE  PublishTypeOK' /\ PublishOK'
  <2>1. calls[c].pc # "publish"
    BY <1>6 DEF CallProceeds, OpenRoot, RootResolved, OpenFolder, Download, MetadataRead, Reaches
  <2>2. PICK x, g, id : Goes(c, x, g, id)
    BY <1>6 DEF CallProceeds, OpenRoot, RootResolved, OpenFolder, Download, MetadataRead
  <2> QED  BY <1>0, <1>3, <1>6, <2>1, <2>2, GoesReplaces
<1>7. ASSUME NEW c \in Calls, ContentRead(c), Publish(c)
      PROVE  PublishTypeOK' /\ PublishOK'
  <2> DEFINE e == Moved(calls[c], "publish", calls[c].gen, calls[c].id)
  <2>1. calls' = [calls EXCEPT ![c] = e]
    BY <1>0, <1>7, GoesReplaces DEF ContentRead
  <2>2. calls[c] \in Call /\ e.pc = "publish"
    BY <1>0 DEF Moved, Call
  <2> HIDE DEF e
  <2>3. pc' = [pc EXCEPT ![c] = "start"] /\ UNCHANGED <<final, temp, deletes, removed>>
    BY <1>7 DEF Publish, Goto
  <2>4. PublishTypeOK'
    BY <2>3 DEF PublishTypeOK, PublishPcs
  <2>5. ASSUME NEW d \in Calls
        PROVE  /\ pc'[d] # "idle" => calls'[d].pc = "publish"
               /\ pc'[d] = "statFinal" => final'[calls'[d].id].by = d \/ d \in removed'
               /\ pc'[d] \in {"done", "remove"} =>
                    final'[calls'[d].id] = [by |-> d, whole |-> TRUE] \/ d \in removed'
    BY <1>0, <2>1, <2>2, <2>3 DEF PublishOK, PublishTypeOK
  <2> QED  BY <2>4, <2>5 DEF PublishOK
<1>8. ASSUME NEW c \in Calls, DownloadEnds(c) PROVE PublishTypeOK' /\ PublishOK'
  <2>1. /\ pc' = [pc EXCEPT ![c] = "idle"] /\ calls' = [calls EXCEPT ![c] = NoCall]
        /\ removed' = removed \ {c} /\ UNCHANGED <<final, temp, deletes>>
    BY <1>8 DEF DownloadEnds, Return, Goto
  <2>2. PublishTypeOK'
    BY <2>1 DEF PublishTypeOK, PublishPcs
  <2>3. \A d \in Calls : \/ pc'[d] = "idle"
                         \/ /\ pc'[d] = pc[d] /\ calls'[d] = calls[d]
                            /\ d \in removed' <=> d \in removed
    BY <1>0, <2>1 DEF PublishTypeOK
  <2> QED  BY <2>1, <2>2, <2>3 DEF PublishOK
<1>9. ASSUME NEW c \in Calls, CallGoesOn(c) PROVE PublishTypeOK' /\ PublishOK'
  BY <1>6, <1>7, <1>9 DEF CallGoesOn
<1> QED
  BY <1>1, <1>2, <1>4, <1>5, <1>8, <1>9, PublishingKeepsCache DEF ViewNext

LEMMA CacheAlways == ViewSpec => [](DriveInv /\ PublishTypeOK /\ PublishOK)
<1>1. ViewInit => DriveInv /\ PublishTypeOK /\ PublishOK
  BY DriveInitially, PublishInitially
<1>2. DriveInv /\ PublishTypeOK /\ PublishOK /\ [ViewNext]_bvars
        => (DriveInv /\ PublishTypeOK /\ PublishOK)'
  BY DriveInductive, CacheInductive
<1> QED  BY <1>1, <1>2, PTL DEF ViewSpec

\* publishCacheFile reports success only for its own, whole bytes under the path
\* of its file, however many downloads of that file were started.
THEOREM SuccessIsPublication == ViewSpec => []SuccessMeansPublished
<1>1. PublishOK => SuccessMeansPublished
  BY DEF PublishOK, SuccessMeansPublished
<1> QED  BY <1>1, CacheAlways, PTL
=============================================================================
