---------------------- MODULE ResourceCoordinatorProofs ----------------------
(***************************************************************************)
(* For any capacities, requests and leases: types; the counter beside the  *)
(* leases is their sum; the two pools of a provider keep to their combined *)
(* capacity, whatever is lent and in whatever order leases return; an      *)
(* exclusive lease is alone on its key; borrowing yields to the reserve's  *)
(* own requests; ties between roots pass the turn on.                      *)
(*                                                                         *)
(* Two definitions are recursive: what is retained of a queue, and the sum *)
(* of the units of a set of leases.  What they compute is proved by        *)
(* induction on sets: a set that holds 0 and with n also n + 1 holds every *)
(* number (CountingUp); one that holds {} and, with all T \ {x}, also T    *)
(* holds every finite set (SetInduction).                                  *)
(***************************************************************************)
EXTENDS ResourceCoordinator, FiniteSetTheorems, WellFoundedInduction, TLAPS

-----------------------------------------------------------------------------
(* Induction.                                                              *)

\* A set of numbers that is not empty has a least one.
LEMMA LeastNumber ==
    ASSUME NEW A \in SUBSET Nat, A # {}
    PROVE  \E m \in A : \A n \in A : m <= n
<1> DEFINE Less == {ss \in Nat \X Nat : ss[1] < ss[2]}
<1>1. OpToRel(<, Nat) = Less
  BY Zenon DEF OpToRel
<1>2. IsWellFoundedOn(Less, Nat)
  BY <1>1, NatLessThanWellFounded, Zenon
<1> HIDE DEF Less
<1>3. \E m \in A : \A n \in A : <<n, m>> \notin Less
  BY <1>2, WFMin, Zenon
<1>4. ASSUME NEW n \in Nat, NEW m \in Nat, n < m PROVE <<n, m>> \in Less
  <2>1. <<n, m>> \in Nat \X Nat /\ <<n, m>>[1] = n /\ <<n, m>>[2] = m
    OBVIOUS
  <2> QED
    BY <1>4, <2>1 DEF Less
<1>5. PICK m \in A : \A n \in A : <<n, m>> \notin Less
  BY <1>3
<1>6. \A n \in A : ~ (n < m)
  BY <1>4, <1>5
<1>7. \A n \in A : m <= n
  BY <1>6
<1> QED
  BY <1>7

\* A set that holds 0, and with each number the next, holds all of them.
LEMMA CountingUp ==
    ASSUME NEW G, 0 \in G, \A n \in Nat : n \in G => n + 1 \in G
    PROVE  \A n \in Nat : n \in G
<1> DEFINE Bad == Nat \ G
<1>1. SUFFICES ASSUME Bad # {} PROVE FALSE
  OBVIOUS
<1>2. PICK m \in Bad : \A n \in Bad : m <= n
  BY <1>1, LeastNumber
<1>3. m \in Nat /\ m # 0 /\ m \notin G
  BY <1>2
<1>4. m - 1 \in Nat /\ m - 1 \notin Bad
  BY <1>2, <1>3
<1>5. (m - 1) + 1 \in G
  BY <1>4
<1> QED
  BY <1>3, <1>5

\* A family of sets that holds {}, and a set whenever it holds what is left of it
\* without any one member, holds every finite set.
LEMMA SetInduction ==
    ASSUME NEW S, IsFiniteSet(S), NEW G, {} \in G,
           \A T \in SUBSET S : T # {} /\ (\A x \in T : T \ {x} \in G) => T \in G
    PROVE  S \in G
<1> DEFINE Sized == {n \in Nat : \A T \in SUBSET S : Cardinality(T) = n => T \in G}
<1>0. \A T \in SUBSET S : IsFiniteSet(T) /\ Cardinality(T) \in Nat
  BY FS_Subset, FS_CardinalityType
<1>1. 0 \in Sized
  BY <1>0, FS_EmptySet
<1>2. ASSUME NEW n \in Nat, n \in Sized PROVE n + 1 \in Sized
  <2>1. SUFFICES ASSUME NEW T \in SUBSET S, Cardinality(T) = n + 1 PROVE T \in G
    OBVIOUS
  <2>2. T # {}
    <3>1. 0 # n + 1
      OBVIOUS
    <3> QED
      BY <2>1, <3>1, FS_EmptySet
  <2>3. ASSUME NEW x \in T PROVE T \ {x} \in G
    <3>1. Cardinality(T \ {x}) = n
      BY <1>0, <2>1, FS_RemoveElement
    <3> QED
      BY <1>2, <3>1
  <2> QED
    BY <2>2, <2>3
<1> HIDE DEF Sized
<1>3. \A n \in Nat : n \in Sized
  BY <1>1, <1>2, CountingUp, Zenon
<1>4. Cardinality(S) \in Sized
  BY <1>0, <1>3
<1> QED
  BY <1>4 DEF Sized

-----------------------------------------------------------------------------
(* The units held by the leases of a set.                                  *)

\* The units the leases in S hold when they are granted as a says
Held(a, S) == MapThenSumSet(LAMBDA l : Ask[a[l]].units, S)

\* the recursive function of MapThenSumSet
Iter(a, S) == CHOOSE g : g = [s \in SUBSET S |->
      IF s = {} THEN 0 ELSE Ask[a[CHOOSE x \in s : TRUE]].units + g[s \ {CHOOSE x \in s : TRUE}]]

\* The sum of the units is the value of the recursive function of MapThenSumSet.
LEMMA HeldIsIter == ASSUME NEW a, NEW S PROVE Held(a, S) = Iter(a, S)[S]
BY Zenon DEF Held, Iter, MapThenSumSet, MapThenFoldSet

\* the member that MapThenSumSet takes first
Chosen(s) == CHOOSE x \in s : TRUE

\* what the function adds for the first member
HeldStep(a, g, s) ==
    IF s = {} THEN 0
    ELSE Ask[a[Chosen(s)]].units + g[s \ {Chosen(s)}]

\* the sets that a function defined up to size n knows
Small(S, n) == {s \in SUBSET S : Cardinality(s) <= n}

\* The recursive function exists on the subsets of a finite set, and is what its
\* equation says.
LEMMA IterExists ==
    ASSUME NEW a, NEW S, IsFiniteSet(S)
    PROVE  \A s \in SUBSET S : Iter(a, S)[s] = HeldStep(a, Iter(a, S), s)
<1> DEFINE Sized == {n \in Nat : \E g : g = [s \in Small(S, n) |-> HeldStep(a, g, s)]}
<1>0. \A T \in SUBSET S : IsFiniteSet(T) /\ Cardinality(T) \in Nat /\ Cardinality(T) <= Cardinality(S)
  BY FS_Subset, FS_CardinalityType
<1>1. 0 \in Sized
  <2> DEFINE g == [s \in Small(S, 0) |-> 0]
  <2>1. \A s \in Small(S, 0) : s = {}
    BY <1>0, FS_EmptySet DEF Small
  <2>2. g = [s \in Small(S, 0) |-> HeldStep(a, g, s)]
    BY <2>1 DEF HeldStep
  <2> HIDE DEF g
  <2> QED
    BY <2>2
<1>2. ASSUME NEW n \in Nat, n \in Sized PROVE n + 1 \in Sized
  <2>1. PICK g : g = [s \in Small(S, n) |-> HeldStep(a, g, s)]
    BY <1>2
  <2> DEFINE h == [s \in Small(S, n + 1) |-> HeldStep(a, g, s)]
  <2>2. ASSUME NEW s \in Small(S, n + 1) PROVE HeldStep(a, g, s) = HeldStep(a, h, s)
    <3>1. CASE s = {}
      BY <3>1 DEF HeldStep
    <3>2. CASE s # {}
      <4> DEFINE c == Chosen(s)
      <4>1. c \in s
        BY <3>2 DEF Chosen
      <4> HIDE DEF c
      <4>2. s \ {c} \in Small(S, n)
        BY <4>1, <1>0, FS_RemoveElement DEF Small
      <4>3. s \ {c} \in Small(S, n + 1)
        BY <4>2, <1>0 DEF Small
      <4>4. g[s \ {c}] = HeldStep(a, g, s \ {c})
        BY <2>1, <4>2
      <4>5. h[s \ {c}] = HeldStep(a, g, s \ {c})
        BY <4>3
      <4> QED
        BY <3>2, <4>4, <4>5 DEF HeldStep, c
    <3> QED
      BY <3>1, <3>2
  <2>3. h = [s \in Small(S, n + 1) |-> HeldStep(a, h, s)]
    BY <2>2
  <2> HIDE DEF h
  <2> QED
    BY <2>3
<1> HIDE DEF Sized
<1>3. \A n \in Nat : n \in Sized
  BY <1>1, <1>2, CountingUp, Zenon
<1>4. PICK g : g = [s \in Small(S, Cardinality(S)) |-> HeldStep(a, g, s)]
  BY <1>0, <1>3 DEF Sized
<1>5. Small(S, Cardinality(S)) = SUBSET S
  BY <1>0 DEF Small
<1>6. g = [s \in SUBSET S |-> HeldStep(a, g, s)]
  BY <1>4, <1>5
<1>7. Iter(a, S) = CHOOSE f : f = [s \in SUBSET S |-> HeldStep(a, f, s)]
  BY Zenon DEF Iter, HeldStep, Chosen
<1> DEFINE f == Iter(a, S)
<1>8. f = [s \in SUBSET S |-> HeldStep(a, f, s)]
  BY <1>6, <1>7, Zenon
<1> HIDE DEF f
<1>9. \A s \in SUBSET S : f[s] = HeldStep(a, f, s)
  BY <1>8
<1> QED
  BY <1>9 DEF f

\* The sum over a subset does not depend on the set it is taken from.
LEMMA IterAgrees ==
    ASSUME NEW a, NEW S, IsFiniteSet(S), NEW R, R \subseteq S
    PROVE  Iter(a, S)[R] = Iter(a, R)[R]
<1> DEFINE f == Iter(a, S)
           g == Iter(a, R)
           G == {T \in SUBSET R : f[T] = g[T]}
<1>0. IsFiniteSet(R)
  BY FS_Subset
<1>1. /\ \A s \in SUBSET S : f[s] = HeldStep(a, f, s)
      /\ \A s \in SUBSET R : g[s] = HeldStep(a, g, s)
  BY <1>0, IterExists, Zenon
<1> HIDE DEF f, g
<1>2. {} \in G
  <2>1. f[{}] = HeldStep(a, f, {}) /\ g[{}] = HeldStep(a, g, {})
    BY <1>1
  <2> QED
    BY <2>1 DEF HeldStep
<1>3. ASSUME NEW T \in SUBSET R, T # {}, \A x \in T : T \ {x} \in G PROVE T \in G
  <2> DEFINE c == Chosen(T)
  <2>1. c \in T
    BY <1>3 DEF Chosen
  <2>2. f[T] = HeldStep(a, f, T) /\ g[T] = HeldStep(a, g, T)
    BY <1>1
  <2>3. f[T] = Ask[a[c]].units + f[T \ {c}] /\ g[T] = Ask[a[c]].units + g[T \ {c}]
    BY <1>3, <2>2 DEF HeldStep
  <2>4. f[T \ {c}] = g[T \ {c}]
    BY <1>3, <2>1
  <2> QED
    BY <2>3, <2>4
<1> HIDE DEF G
<1>4. R \in G
  BY <1>0, <1>2, <1>3, SetInduction, Zenon
<1> QED
  BY <1>4 DEF f, g, G

\* No lease holds nothing; otherwise one lease is counted, and the others.
LEMMA HeldUnfolds ==
    ASSUME NEW a, NEW S, IsFiniteSet(S)
    PROVE  /\ S = {} => Held(a, S) = 0
           /\ S # {} => /\ Chosen(S) \in S
                        /\ Held(a, S) = Ask[a[Chosen(S)]].units + Held(a, S \ {Chosen(S)})
<1>1. Held(a, S) = HeldStep(a, Iter(a, S), S)
  BY S \in SUBSET S, IterExists, HeldIsIter
<1>2. Held(a, S \ {Chosen(S)}) = Iter(a, S)[S \ {Chosen(S)}]
  BY IterAgrees, HeldIsIter, S \ {Chosen(S)} \subseteq S
<1>3. S # {} => Chosen(S) \in S
  BY DEF Chosen
<1> QED
  BY <1>1, <1>2, <1>3 DEF HeldStep

\* The units add up to a number (active_units of a key or a root).
LEMMA HeldType ==
    ASSUME NEW a, NEW S, IsFiniteSet(S), \A x \in S : Ask[a[x]].units \in Nat
    PROVE  Held(a, S) \in Nat
<1> DEFINE G == {T \in SUBSET S : Held(a, T) \in Nat}
<1>0. \A T \in SUBSET S : IsFiniteSet(T)
  BY FS_Subset
<1>1. {} \in G
  <2>1. Held(a, {}) = 0
    BY <1>0, HeldUnfolds
  <2> QED
    BY <2>1
<1>2. ASSUME NEW T \in SUBSET S, T # {}, \A x \in T : T \ {x} \in G PROVE T \in G
  <2> DEFINE c == Chosen(T)
  <2>1. c \in T /\ Held(a, T) = Ask[a[c]].units + Held(a, T \ {c})
    BY <1>0, <1>2, HeldUnfolds
  <2> QED
    BY <1>2, <2>1
<1> HIDE DEF G
<1>3. S \in G
  BY <1>1, <1>2, SetInduction, Zenon
<1> QED
  BY <1>3 DEF G

\* Any lease can be counted first: the order in which a set is summed does not
\* matter.
LEMMA HeldRemove ==
    ASSUME NEW a, NEW S, IsFiniteSet(S), \A x \in S : Ask[a[x]].units \in Nat, NEW y \in S
    PROVE  Held(a, S) = Ask[a[y]].units + Held(a, S \ {y})
<1> DEFINE G == {T \in SUBSET S : \A z \in T : Held(a, T) = Ask[a[z]].units + Held(a, T \ {z})}
<1>0. \A T \in SUBSET S : IsFiniteSet(T) /\ Held(a, T) \in Nat
  BY FS_Subset, HeldType
<1>1. {} \in G
  OBVIOUS
<1>2. ASSUME NEW T \in SUBSET S, T # {}, \A x \in T : T \ {x} \in G PROVE T \in G
  <2> DEFINE c == Chosen(T)
  <2>1. c \in T /\ Held(a, T) = Ask[a[c]].units + Held(a, T \ {c})
    BY <1>0, <1>2, HeldUnfolds
  <2> HIDE DEF c
  <2>2. SUFFICES ASSUME NEW z \in T, z # c
                 PROVE  Held(a, T) = Ask[a[z]].units + Held(a, T \ {z})
    BY <2>1
  <2>3. (T \ {c}) \ {z} = (T \ {z}) \ {c}
    OBVIOUS
  <2>4. Held(a, T \ {c}) = Ask[a[z]].units + Held(a, (T \ {c}) \ {z})
    BY <1>2, <2>1, <2>2
  <2>5. Held(a, T \ {z}) = Ask[a[c]].units + Held(a, (T \ {c}) \ {z})
    BY <1>2, <2>1, <2>2, <2>3
  <2>6. /\ Ask[a[z]].units \in Nat /\ Ask[a[c]].units \in Nat
        /\ Held(a, T \ {c}) \in Nat /\ Held(a, T \ {z}) \in Nat
        /\ Held(a, (T \ {c}) \ {z}) \in Nat
    <3>1. T \ {c} \in SUBSET S /\ T \ {z} \in SUBSET S /\ (T \ {c}) \ {z} \in SUBSET S
      OBVIOUS
    <3> QED
      BY <1>0, <2>1, <3>1
  <2> QED
    BY <2>1, <2>4, <2>5, <2>6
<1> HIDE DEF G
<1>3. S \in G
  BY <1>1, <1>2, SetInduction, Zenon
<1> QED
  BY <1>3 DEF G

\* The sum reads no more than the leases in the set.
LEMMA HeldSame ==
    ASSUME NEW a, NEW b, NEW S, IsFiniteSet(S), \A x \in S : a[x] = b[x]
    PROVE  Held(a, S) = Held(b, S)
<1> DEFINE G == {T \in SUBSET S : Held(a, T) = Held(b, T)}
<1>0. \A T \in SUBSET S : IsFiniteSet(T)
  BY FS_Subset
<1>1. {} \in G
  BY <1>0, HeldUnfolds
<1>2. ASSUME NEW T \in SUBSET S, T # {}, \A x \in T : T \ {x} \in G PROVE T \in G
  <2> DEFINE c == Chosen(T)
  <2>1. c \in T /\ Held(a, T) = Ask[a[c]].units + Held(a, T \ {c})
        /\ Held(b, T) = Ask[b[c]].units + Held(b, T \ {c})
    BY <1>0, <1>2, HeldUnfolds
  <2> QED
    BY <1>2, <2>1
<1> HIDE DEF G
<1>3. S \in G
  BY <1>1, <1>2, SetInduction, Zenon
<1> QED
  BY <1>3 DEF G

-----------------------------------------------------------------------------
(* What is retained of a queue.                                           *)

\* what the function keeps of the first n requests
KeepStep(s, S, g, n) ==
    IF n = 0 THEN << >>
    ELSE IF s[n] \in S THEN g[n - 1] ELSE Append(g[n - 1], s[n])

\* the recursive function of Retained
Keep(s, S) == CHOOSE g : g = [n \in 0..Len(s) |->
    IF n = 0 THEN << >>
    ELSE IF s[n] \in S THEN g[n - 1] ELSE Append(g[n - 1], s[n])]

\* The recursive function of Retained exists, and is what its equation says.
LEMMA KeepUnfolds ==
    ASSUME NEW s, NEW S, Len(s) \in Nat
    PROVE  /\ Retained(s, S) = Keep(s, S)[Len(s)]
           /\ \A n \in 0..Len(s) : Keep(s, S)[n] = KeepStep(s, S, Keep(s, S), n)
<1> DEFINE Sized == {n \in Nat : \E g : g = [m \in 0..n |-> KeepStep(s, S, g, m)]}
<1>1. 0 \in Sized
  <2> DEFINE g == [m \in 0..0 |-> << >>]
  <2>1. g = [m \in 0..0 |-> KeepStep(s, S, g, m)]
    BY DEF KeepStep
  <2> HIDE DEF g
  <2> QED
    BY <2>1
<1>2. ASSUME NEW n \in Nat, n \in Sized PROVE n + 1 \in Sized
  <2>1. PICK g : g = [m \in 0..n |-> KeepStep(s, S, g, m)]
    BY <1>2
  <2> DEFINE h == [m \in 0..(n + 1) |-> KeepStep(s, S, g, m)]
  <2>2. ASSUME NEW m \in 0..(n + 1) PROVE KeepStep(s, S, g, m) = KeepStep(s, S, h, m)
    <3>1. CASE m = 0
      BY <3>1 DEF KeepStep
    <3>2. CASE m # 0
      <4>1. m - 1 \in 0..n /\ m - 1 \in 0..(n + 1)
        BY <3>2
      <4>2. g[m - 1] = KeepStep(s, S, g, m - 1)
        BY <2>1, <4>1
      <4>3. h[m - 1] = KeepStep(s, S, g, m - 1)
        BY <4>1
      <4> HIDE DEF h
      <4> QED
        BY <3>2, <4>2, <4>3 DEF KeepStep
    <3> QED
      BY <3>1, <3>2
  <2>3. h = [m \in 0..(n + 1) |-> KeepStep(s, S, h, m)]
    BY <2>2
  <2> HIDE DEF h
  <2> QED
    BY <2>3
<1> HIDE DEF Sized
<1>3. \A n \in Nat : n \in Sized
  BY <1>1, <1>2, CountingUp, Zenon
<1>4. PICK g : g = [n \in 0..Len(s) |-> KeepStep(s, S, g, n)]
  BY <1>3 DEF Sized
<1>5. Keep(s, S) = CHOOSE f : f = [n \in 0..Len(s) |-> KeepStep(s, S, f, n)]
  BY Zenon DEF Keep, KeepStep
<1> DEFINE f == Keep(s, S)
<1>6. f = [n \in 0..Len(s) |-> KeepStep(s, S, f, n)]
  BY <1>4, <1>5, Zenon
<1>7. Retained(s, S) = f[Len(s)]
  BY Zenon DEF Retained, Keep
<1> HIDE DEF f
<1>8. \A n \in 0..Len(s) : f[n] = KeepStep(s, S, f, n)
  BY <1>6
<1> QED
  BY <1>7, <1>8 DEF f

\* u holds what is left of the first n of s without S: nothing else, everything,
\* and in the same order.
IsKept(T, s, S, n, u) ==
    /\ u \in Seq(T)
    /\ \A i \in 1..Len(u) : \E j \in 1..n : u[i] = s[j] /\ s[j] \notin S
    /\ \A j \in 1..n : s[j] \notin S => \E i \in 1..Len(u) : u[i] = s[j]
    /\ \A i1, i2 \in 1..Len(u) : i1 < i2 =>
          \E j1, j2 \in 1..n : j1 < j2 /\ u[i1] = s[j1] /\ u[i2] = s[j2]

\* A request in S is left out (retain).
LEMMA KeptSkips ==
    ASSUME NEW T, NEW s, NEW S, NEW n \in Nat, NEW u, IsKept(T, s, S, n, u), s[n + 1] \in S
    PROVE  IsKept(T, s, S, n + 1, u)
<1>1. \A j \in 1..n : j \in 1..(n + 1)
  OBVIOUS
<1>2. \A j \in 1..(n + 1) : j = n + 1 \/ j \in 1..n
  OBVIOUS
<1>3. \A i \in 1..Len(u) : \E j \in 1..(n + 1) : u[i] = s[j] /\ s[j] \notin S
  BY <1>1 DEF IsKept
<1>4. \A j \in 1..(n + 1) : s[j] \notin S => \E i \in 1..Len(u) : u[i] = s[j]
  BY <1>2 DEF IsKept
<1>5. ASSUME NEW i1 \in 1..Len(u), NEW i2 \in 1..Len(u), i1 < i2
      PROVE  \E j1, j2 \in 1..(n + 1) : j1 < j2 /\ u[i1] = s[j1] /\ u[i2] = s[j2]
  <2>1. PICK j1 \in 1..n, j2 \in 1..n : j1 < j2 /\ u[i1] = s[j1] /\ u[i2] = s[j2]
    BY <1>5 DEF IsKept
  <2> QED
    BY <1>1, <2>1
<1> QED
  BY <1>3, <1>4, <1>5 DEF IsKept

\* A request outside S stays, behind those before it (retain).
LEMMA KeptAppends ==
    ASSUME NEW T, NEW s, NEW S, NEW n \in Nat, NEW u, IsKept(T, s, S, n, u),
           s[n + 1] \in T, s[n + 1] \notin S
    PROVE  IsKept(T, s, S, n + 1, Append(u, s[n + 1]))
<1> DEFINE v == Append(u, s[n + 1])
<1>1. u \in Seq(T)
  BY DEF IsKept
<1>2. /\ v \in Seq(T) /\ Len(v) = Len(u) + 1 /\ Len(u) \in Nat
      /\ v[Len(u) + 1] = s[n + 1]
      /\ \A i \in 1..Len(u) : v[i] = u[i]
  BY <1>1
<1> HIDE DEF v
<1>3. \A i \in 1..Len(v) : i = Len(u) + 1 \/ i \in 1..Len(u)
  BY <1>2
<1>4. \A j \in 1..(n + 1) : j = n + 1 \/ j \in 1..n
  OBVIOUS
<1>5. ASSUME NEW i \in 1..Len(v) PROVE \E j \in 1..(n + 1) : v[i] = s[j] /\ s[j] \notin S
  <2>1. CASE i = Len(u) + 1
    BY <1>2, <2>1
  <2>2. CASE i \in 1..Len(u)
    <3>1. PICK j \in 1..n : u[i] = s[j] /\ s[j] \notin S
      BY <2>2 DEF IsKept
    <3> QED
      BY <1>2, <2>2, <3>1
  <2> QED
    BY <1>3, <2>1, <2>2
<1>6. ASSUME NEW j \in 1..(n + 1), s[j] \notin S PROVE \E i \in 1..Len(v) : v[i] = s[j]
  <2>1. CASE j = n + 1
    BY <1>2, <2>1
  <2>2. CASE j \in 1..n
    <3>1. PICK i \in 1..Len(u) : u[i] = s[j]
      BY <1>6, <2>2 DEF IsKept
    <3> QED
      BY <1>2, <3>1
  <2> QED
    BY <1>4, <2>1, <2>2
<1>7. ASSUME NEW i1 \in 1..Len(v), NEW i2 \in 1..Len(v), i1 < i2
      PROVE  \E j1, j2 \in 1..(n + 1) : j1 < j2 /\ v[i1] = s[j1] /\ v[i2] = s[j2]
  <2>1. i1 \in 1..Len(u)
    BY <1>2, <1>7
  <2>2. CASE i2 = Len(u) + 1
    <3>1. PICK j1 \in 1..n : u[i1] = s[j1]
      BY <2>1 DEF IsKept
    <3>2. j1 < n + 1 /\ j1 \in 1..(n + 1) /\ n + 1 \in 1..(n + 1)
      OBVIOUS
    <3> QED
      BY <1>2, <2>1, <2>2, <3>1, <3>2
  <2>3. CASE i2 \in 1..Len(u)
    <3>1. PICK j1 \in 1..n, j2 \in 1..n : j1 < j2 /\ u[i1] = s[j1] /\ u[i2] = s[j2]
      BY <1>7, <2>1, <2>3 DEF IsKept
    <3>2. j1 \in 1..(n + 1) /\ j2 \in 1..(n + 1) /\ v[i1] = s[j1] /\ v[i2] = s[j2]
      BY <1>2, <2>1, <2>3, <3>1
    <3> QED
      BY <3>1, <3>2
  <2> QED
    BY <1>3, <2>2, <2>3
<1>8. IsKept(T, s, S, n + 1, v)
  BY <1>2, <1>5, <1>6, <1>7 DEF IsKept
<1> QED
  BY <1>8 DEF v

\* Retained takes out S and nothing else, and leaves the order as it was (retain).
LEMMA RetainedFacts ==
    ASSUME NEW T, NEW s \in Seq(T), NEW S
    PROVE  IsKept(T, s, S, Len(s), Retained(s, S))
<1> DEFINE f == Keep(s, S)
           G == {n \in Nat : n <= Len(s) => IsKept(T, s, S, n, f[n])}
<1>0. Len(s) \in Nat /\ DOMAIN s = 1..Len(s) /\ \A n \in 1..Len(s) : s[n] \in T
  OBVIOUS
<1>1. Retained(s, S) = f[Len(s)] /\ \A n \in 0..Len(s) : f[n] = KeepStep(s, S, f, n)
  BY <1>0, KeepUnfolds
<1> HIDE DEF f
<1>2. 0 \in G
  <2>1. f[0] = << >>
    BY <1>0, <1>1 DEF KeepStep
  <2>2. IsKept(T, s, S, 0, << >>)
    BY DEF IsKept
  <2> QED
    BY <2>1, <2>2
<1>3. ASSUME NEW n \in Nat, n \in G PROVE n + 1 \in G
  <2>1. SUFFICES ASSUME n + 1 <= Len(s) PROVE IsKept(T, s, S, n + 1, f[n + 1])
    OBVIOUS
  <2>2. IsKept(T, s, S, n, f[n]) /\ n + 1 \in 1..Len(s) /\ s[n + 1] \in T
    BY <1>0, <1>3, <2>1
  <2>3. f[n + 1] = IF s[n + 1] \in S THEN f[n] ELSE Append(f[n], s[n + 1])
    <3>1. n + 1 \in 0..Len(s) /\ n + 1 # 0 /\ (n + 1) - 1 = n
      BY <2>2, <1>0
    <3> QED
      BY <1>1, <3>1 DEF KeepStep
  <2> QED
    BY <2>2, <2>3, KeptSkips, KeptAppends
<1> HIDE DEF G
<1>4. Len(s) \in G
  BY <1>0, <1>2, <1>3, CountingUp, Zenon
<1> QED
  BY <1>0, <1>1, <1>4 DEF G

-----------------------------------------------------------------------------
(* The queues.                                                             *)

\* A queue of k: requests for k, one of a task at most
Orderly(s, k) ==
    /\ s \in Seq(Request)
    /\ \A i \in DOMAIN s : Ask[s[i]].key = k
    /\ \A i, j \in DOMAIN s : i # j => Ask[s[i]].task # Ask[s[j]].task

QueuesTyped(q) == q \in [Key -> Seq(Request)] /\ \A k \in Key : Orderly(q[k], k)

\* What a retained queue still holds is what it held outside S, once each
\* (retain in cancel_task and grant_next_at).
LEMMA RetainedQueue ==
    ASSUME NEW k, NEW s, Orderly(s, k), NEW S
    PROVE  /\ Orderly(Retained(s, S), k)
           /\ \A r : (\E i \in DOMAIN Retained(s, S) : Retained(s, S)[i] = r)
                        <=> (r \notin S /\ \E j \in DOMAIN s : s[j] = r)
<1> DEFINE u == Retained(s, S)
<1>0. s \in Seq(Request)
  BY DEF Orderly
<1>1. IsKept(Request, s, S, Len(s), u)
  BY <1>0, RetainedFacts
<1> HIDE DEF u
<1>2. DOMAIN s = 1..Len(s) /\ u \in Seq(Request)
  BY <1>0, <1>1 DEF IsKept
<1>3. DOMAIN u = 1..Len(u) /\ Len(u) \in Nat /\ Len(s) \in Nat
  BY <1>0, <1>2
<1>4. ASSUME NEW i \in DOMAIN u, NEW j \in DOMAIN u, i < j
      PROVE  Ask[u[i]].task # Ask[u[j]].task
  <2>0. i \in 1..Len(u) /\ j \in 1..Len(u)
    BY <1>3
  <2>1. PICK a \in 1..Len(s), b \in 1..Len(s) : a < b /\ u[i] = s[a] /\ u[j] = s[b]
    BY <1>1, <1>4, <2>0 DEF IsKept
  <2>2. a # b
    BY <1>3, <2>1
  <2> QED
    BY <1>2, <2>1, <2>2 DEF Orderly
<1>5. \A i, j \in DOMAIN u : i # j => Ask[u[i]].task # Ask[u[j]].task
  <2> SUFFICES ASSUME NEW i \in DOMAIN u, NEW j \in DOMAIN u, i # j
               PROVE  Ask[u[i]].task # Ask[u[j]].task
    OBVIOUS
  <2>1. i < j \/ j < i
    BY <1>3
  <2> QED
    BY <1>4, <2>1
<1>6. ASSUME NEW r
      PROVE  (\E i \in DOMAIN u : u[i] = r) <=> (r \notin S /\ \E j \in DOMAIN s : s[j] = r)
  <2>1. ASSUME NEW i \in 1..Len(u), u[i] = r
        PROVE  r \notin S /\ \E j \in 1..Len(s) : s[j] = r
    BY <1>1, <2>1 DEF IsKept
  <2>2. ASSUME r \notin S, NEW j \in 1..Len(s), s[j] = r
        PROVE  \E i \in 1..Len(u) : u[i] = r
    BY <1>1, <2>2 DEF IsKept
  <2> QED
    BY <1>2, <1>3, <2>1, <2>2
<1>7. \A i \in DOMAIN u : Ask[u[i]].key = k
  BY <1>6 DEF Orderly
<1>8. Orderly(u, k)
  BY <1>2, <1>5, <1>7 DEF Orderly
<1> QED
  BY <1>6, <1>8 DEF u

\* Dropping S from the queue of k takes its requests out of that queue and leaves
\* the other queues alone (grant_next_at).
LEMMA DroppedFacts ==
    ASSUME NEW q, QueuesTyped(q), NEW k \in Key, NEW S
    PROVE  /\ QueuesTyped(Dropped(q, k, S))
           /\ Waiting(Dropped(q, k, S), k) = Waiting(q, k) \ S
           /\ \A j \in Key \ {k} : Waiting(Dropped(q, k, S), j) = Waiting(q, j)
<1> DEFINE u == Retained(q[k], S)
           p == Dropped(q, k, S)
<1>1. q \in [Key -> Seq(Request)] /\ Orderly(q[k], k)
  BY DEF QueuesTyped
<1>2. /\ Orderly(u, k)
      /\ \A r : (\E i \in DOMAIN u : u[i] = r) <=> (r \notin S /\ \E j \in DOMAIN q[k] : q[k][j] = r)
  BY <1>1, RetainedQueue
<1>3. p = [q EXCEPT ![k] = u]
  BY DEF Dropped
<1> HIDE DEF u, p
<1>4. p[k] = u /\ \A j \in Key \ {k} : p[j] = q[j]
  BY <1>1, <1>3
<1>5. p \in [Key -> Seq(Request)]
  BY <1>1, <1>2, <1>3 DEF Orderly
<1>6. QueuesTyped(p)
  BY <1>2, <1>4, <1>5 DEF QueuesTyped
<1>7. Waiting(p, k) = Waiting(q, k) \ S
  BY <1>2, <1>4 DEF Waiting
<1>8. \A j \in Key \ {k} : Waiting(p, j) = Waiting(q, j)
  BY <1>4 DEF Waiting
<1> QED
  BY <1>6, <1>7, <1>8 DEF p

\* A task that is cancelled stands in no queue, and the others where they did
\* (cancel_task).
LEMMA WithoutFacts ==
    ASSUME NEW q, QueuesTyped(q), NEW t
    PROVE  /\ QueuesTyped(Without(q, t))
           /\ \A k \in Key : Waiting(Without(q, t), k) = {r \in Waiting(q, k) : Ask[r].task # t}
<1> DEFINE S == {r \in Request : Ask[r].task = t}
           p == Without(q, t)
<1>1. q \in [Key -> Seq(Request)]
  BY DEF QueuesTyped
<1>2. p = [k \in Key |-> Retained(q[k], S)]
  BY DEF Without
<1> HIDE DEF S, p
<1>3. ASSUME NEW k \in Key
      PROVE  /\ Orderly(p[k], k)
             /\ \A r : (\E i \in DOMAIN p[k] : p[k][i] = r)
                          <=> (r \notin S /\ \E j \in DOMAIN q[k] : q[k][j] = r)
  <2>1. Orderly(q[k], k)
    BY DEF QueuesTyped
  <2>2. p[k] = Retained(q[k], S)
    BY <1>2
  <2> QED
    BY <2>1, <2>2, RetainedQueue
<1>4. QueuesTyped(p)
  <2>1. p \in [Key -> Seq(Request)]
    BY <1>2, <1>3 DEF Orderly
  <2> QED
    BY <1>3, <2>1 DEF QueuesTyped
<1>5. ASSUME NEW k \in Key
      PROVE  Waiting(p, k) = {r \in Waiting(q, k) : Ask[r].task # t}
  BY <1>3 DEF Waiting, S
<1> QED
  BY <1>4, <1>5 DEF p

\* A request whose task is not in its queue joins it at the end, and no other
\* queue (enqueue_with_priority_for_parent_at).
LEMMA EnqueuedFacts ==
    ASSUME NEW q, QueuesTyped(q), NEW r \in Request,
           \A s \in Waiting(q, Ask[r].key) : Ask[s].task # Ask[r].task
    PROVE  /\ QueuesTyped(Enqueued(q, r))
           /\ Waiting(Enqueued(q, r), Ask[r].key) = Waiting(q, Ask[r].key) \cup {r}
           /\ \A k \in Key \ {Ask[r].key} : Waiting(Enqueued(q, r), k) = Waiting(q, k)
<1> DEFINE k == Ask[r].key
           s == q[k]
           u == Append(s, r)
           p == Enqueued(q, r)
<1>0. k \in Key
  BY AskAssumption DEF QueuedRequest
<1>1. q \in [Key -> Seq(Request)] /\ Orderly(s, k) /\ s \in Seq(Request)
  BY <1>0 DEF QueuesTyped, Orderly
<1>2. /\ u \in Seq(Request) /\ Len(s) \in Nat
      /\ DOMAIN u = 1..(Len(s) + 1) /\ DOMAIN s = 1..Len(s)
      /\ u[Len(s) + 1] = r
      /\ \A i \in 1..Len(s) : u[i] = s[i] /\ s[i] \in Request
  BY <1>1
<1>3. p = [q EXCEPT ![k] = u]
  BY DEF Enqueued
<1> HIDE DEF k, s, u, p
<1>4. p[k] = u /\ \A j \in Key \ {k} : p[j] = q[j]
  BY <1>0, <1>1, <1>3
<1>5. \A i \in DOMAIN u : i = Len(s) + 1 \/ i \in DOMAIN s
  BY <1>2
<1>6. \A i \in DOMAIN s : Ask[s[i]].key = k /\ Ask[s[i]].task # Ask[r].task
  BY <1>1, <1>2 DEF Orderly, Waiting, s, k
<1>7. \A i, j \in DOMAIN s : i # j => Ask[s[i]].task # Ask[s[j]].task
  BY <1>1 DEF Orderly
<1>8. \A i \in DOMAIN u : Ask[u[i]].key = k
  BY <1>2, <1>5, <1>6 DEF k
<1>9. \A i, j \in DOMAIN u : i # j => Ask[u[i]].task # Ask[u[j]].task
  BY <1>2, <1>5, <1>6, <1>7
<1>10. Orderly(u, k)
  BY <1>2, <1>8, <1>9 DEF Orderly
<1>11. QueuesTyped(p)
  <2>1. p \in [Key -> Seq(Request)]
    BY <1>1, <1>2, <1>3
  <2> QED
    BY <1>4, <1>10, <2>1 DEF QueuesTyped
<1>12. \A e : (\E i \in DOMAIN u : u[i] = e) <=> (e = r \/ \E i \in DOMAIN s : s[i] = e)
  <2>1. Len(s) + 1 \in DOMAIN u /\ \A i \in DOMAIN s : i \in DOMAIN u /\ u[i] = s[i]
    BY <1>2
  <2> QED
    BY <1>2, <1>5, <2>1
<1>13. Waiting(p, k) = Waiting(q, k) \cup {r}
  BY <1>4, <1>12 DEF Waiting, s, k
<1>14. \A j \in Key \ {k} : Waiting(p, j) = Waiting(q, j)
  BY <1>4 DEF Waiting
<1> QED
  BY <1>11, <1>13, <1>14 DEF p, k

\* Nobody waits in a queue that is not his.
LEMMA WaitingFacts ==
    ASSUME NEW q, QueuesTyped(q), NEW k \in Key
    PROVE  /\ \A i \in DOMAIN q[k] : q[k][i] \in Waiting(q, k)
           /\ \A r, s \in Waiting(q, k) : Ask[r].task = Ask[s].task => r = s
           /\ IsFiniteSet(Waiting(q, k))
<1>1. Orderly(q[k], k) /\ q[k] \in Seq(Request)
  BY DEF QueuesTyped, Orderly
<1>2. \A i \in DOMAIN q[k] : q[k][i] \in Request
  BY <1>1
<1>3. \A i \in DOMAIN q[k] : q[k][i] \in Waiting(q, k)
  BY <1>1, <1>2 DEF Orderly, Waiting
<1>4. \A r, s \in Waiting(q, k) : Ask[r].task = Ask[s].task => r = s
  BY <1>1 DEF Orderly, Waiting
<1>5. IsFiniteSet(Waiting(q, k))
  <2> DEFINE E == {q[k][i] : i \in 1..Len(q[k])}
  <2>1. Len(q[k]) \in Nat /\ DOMAIN q[k] = 1..Len(q[k])
    BY <1>1
  <2>2. IsFiniteSet(1..Len(q[k]))
    BY <2>1, FS_Interval
  <2>3. IsFiniteSet(E)
    <3>1. q[k] \in Surjection(1..Len(q[k]), E)
      BY <1>1, <2>1 DEF Surjection
    <3> QED
      BY <2>2, <3>1, FS_Surjection
  <2>4. Waiting(q, k) \subseteq E
    BY <2>1 DEF Waiting
  <2> QED
    BY <2>3, <2>4, FS_Subset
<1> QED
  BY <1>3, <1>4, <1>5

-----------------------------------------------------------------------------
(* Types.                                                                  *)

LeasesTyped ==
    /\ active \in [LeaseId -> Request \cup {NoLease}]
    /\ inUse  \in [Key -> Nat]

CursorsTyped ==
    /\ lastRoot   \in [Key -> RootSession \cup {NoOne}]
    /\ lastParent \in [Key -> [RootSession -> Parent \cup {NoOne}]]

TypeInv ==
    /\ QueuesTyped(queues)
    /\ boost \in [Request -> 0..MaxBoost]
    /\ expired \subseteq Request
    /\ LeasesTyped
    /\ CursorsTyped

\* What a request asks for.
LEMMA AskFacts ==
    ASSUME NEW r \in Request
    PROVE  /\ Ask[r].key \in Key /\ Ask[r].task \in Task /\ Ask[r].parent \in Parent
           /\ Ask[r].root \in RootSession /\ Ask[r].units \in Nat \ {0}
           /\ Ask[r].priority \in DOMAIN Weight
BY AskAssumption DEF QueuedRequest

\* Moving the rotation keeps it to roots and parents (grant_next_at).
LEMMA CursorTyped ==
    ASSUME CursorsTyped, NEW k \in Key, NEW r \in Request, CursorMoved(k, r)
    PROVE  CursorsTyped'
<1>1. Ask[r].root \in RootSession /\ Ask[r].parent \in Parent
  BY AskFacts
<1>2. lastRoot' \in [Key -> RootSession \cup {NoOne}]
  BY <1>1 DEF CursorMoved, CursorsTyped
<1>3. lastParent' \in [Key -> [RootSession -> Parent \cup {NoOne}]]
  BY <1>1 DEF CursorMoved, CursorsTyped
<1> QED
  BY <1>2, <1>3 DEF CursorsTyped

\* A grant from the queues q leaves them orderly, without the request and the
\* expired ones (grant_next_at).
LEMMA GrantTyped ==
    ASSUME TypeInv, NEW q, QueuesTyped(q), NEW k \in Key, NEW r \in Request, NEW id \in LeaseId,
           Grant(q, k, r, id), UNCHANGED <<boost, expired>>
    PROVE  TypeInv'
<1>1. QueuesTyped(queues')
  BY DroppedFacts DEF Grant
<1>2. LeasesTyped'
  <2>1. Ask[r].units \in Nat
    BY AskFacts
  <2> QED
    BY <2>1 DEF Grant, TypeInv, LeasesTyped
<1>3. CursorsTyped'
  BY CursorTyped DEF Grant, TypeInv
<1> QED
  BY <1>1, <1>2, <1>3 DEF TypeInv

\* When nothing can be granted only expired requests leave (grant_next_at).
LEMMA GrantNoneTyped ==
    ASSUME TypeInv, NEW q, QueuesTyped(q), NEW k \in Key,
           GrantNone(q, k), UNCHANGED <<boost, expired>>
    PROVE  TypeInv'
<1>1. QueuesTyped(queues')
  BY DroppedFacts DEF GrantNone
<1> QED
  BY <1>1 DEF TypeInv, GrantNone, LeasesTyped, CursorsTyped

\* A release leaves a counter that is a number (release).
LEMMA ReleaseTyped ==
    ASSUME TypeInv, NEW id \in LeaseId, Release(id)
    PROVE  TypeInv'
<1> DEFINE r == active[id]
<1>1. r \in Request
  BY DEF TypeInv, LeasesTyped, Release, ReleaseLease
<1>2. Ask[r].key \in Key /\ Ask[r].units \in Nat
  BY <1>1, AskFacts
<1>3. active' \in [LeaseId -> Request \cup {NoLease}]
  BY DEF TypeInv, LeasesTyped, Release, ReleaseLease
<1>4. inUse' \in [Key -> Nat]
  BY <1>2 DEF TypeInv, LeasesTyped, Release, ReleaseLease, Monus
<1> QED
  BY <1>3, <1>4 DEF TypeInv, LeasesTyped, CursorsTyped, Release

\* A cancellation leaves orderly queues (cancel_task).
LEMMA CancelTyped ==
    ASSUME TypeInv, NEW t, CancelTaskRequests(t)
    PROVE  TypeInv'
<1>1. QueuesTyped(queues')
  BY WithoutFacts DEF CancelTaskRequests, TypeInv
<1> QED
  BY <1>1 DEF TypeInv, LeasesTyped, CursorsTyped, CancelTaskRequests

\* Every step leaves orderly queues, numbers and cursors (ResourceCoordinator).
LEMMA TypeInvariant == Spec => []TypeInv
<1>1. Init => TypeInv
  <2> SUFFICES ASSUME Init PROVE TypeInv
    OBVIOUS
  <2>1. QueuesTyped(queues)
    BY DEF Init, QueuesTyped, Orderly
  <2>2. LeasesTyped
    BY DEF Init, LeasesTyped
  <2>3. CursorsTyped
    BY CursorAssumption DEF Init, CursorsTyped
  <2>4. boost \in [Request -> 0..MaxBoost]
    BY DEF Init, MaxBoost
  <2> QED
    BY <2>1, <2>2, <2>3, <2>4 DEF Init, TypeInv
<1>2. TypeInv /\ [Next]_resources => TypeInv'
  <2> SUFFICES ASSUME TypeInv, [Next]_resources PROVE TypeInv'
    OBVIOUS
  <2>1. ASSUME NEW r \in Request, Enqueue(r) PROVE TypeInv'
    <3>1. QueuesTyped(queues')
      BY <2>1, EnqueuedFacts DEF Enqueue, TypeInv
    <3>2. boost' \in [Request -> 0..MaxBoost]
      BY <2>1 DEF Enqueue, TypeInv, MaxBoost
    <3> QED
      BY <2>1, <3>1, <3>2 DEF Enqueue, TypeInv, LeasesTyped, CursorsTyped
  <2>2. ASSUME NEW t \in Task, CancelTaskRequests(t) PROVE TypeInv'
    BY <2>2, CancelTyped
  <2>3. ASSUME NEW k \in Key, GrantNext(k) PROVE TypeInv'
    <3>1. QueuesTyped(queues) /\ UNCHANGED <<boost, expired>>
      BY <2>3 DEF TypeInv, GrantNext
    <3>2. CASE GrantNone(queues, k)
      BY <3>1, <3>2, GrantNoneTyped
    <3>3. CASE \E r \in Waiting(queues, k), id \in LeaseId : Grant(queues, k, r, id)
      <4>1. PICK r \in Request, id \in LeaseId : Grant(queues, k, r, id)
        BY <3>3 DEF Waiting
      <4> QED
        BY <3>1, <4>1, GrantTyped
    <3> QED
      BY <2>3, <3>2, <3>3 DEF GrantNext
  <2>4. ASSUME NEW id \in LeaseId, Release(id) PROVE TypeInv'
    BY <2>4, ReleaseTyped
  <2>5. ASSUME NEW k \in Key, Age(k) PROVE TypeInv'
    <3>1. boost' \in [Request -> 0..MaxBoost]
      BY <2>5, BoostsAssumption DEF Age, TypeInv
    <3> QED
      BY <2>5, <3>1 DEF Age, TypeInv, LeasesTyped, CursorsTyped
  <2>6. ASSUME NEW r \in Request, Expire(r) PROVE TypeInv'
    BY <2>6 DEF Expire, TypeInv, LeasesTyped, CursorsTyped
  <2>7. CASE UNCHANGED resources
    BY <2>7 DEF resources, TypeInv, LeasesTyped, CursorsTyped
  <2> QED
    BY <2>1, <2>2, <2>3, <2>4, <2>5, <2>6, <2>7 DEF Next
<1> QED
  BY <1>1, <1>2, PTL DEF Spec

\* Types, and a queue never holds two requests of one task, whatever is
\* enqueued, granted, cancelled and released (ResourceCoordinator).
THEOREM CoordinatorTypeCorrect == Spec => []TypeOK
<1>1. TypeInv => TypeOK
  BY DEF TypeInv, TypeOK, QueuesTyped, Orderly, LeasesTyped, CursorsTyped
<1> QED
  BY <1>1, TypeInvariant, PTL

-----------------------------------------------------------------------------
(* The counter.                                                            *)

CountInv ==
    /\ LeasesTyped
    /\ \A k \in Key : IsFiniteSet(Leases(k)) /\ inUse[k] = Held(active, Leases(k))

\* A grant adds its units to the counter of its key, and its lease to the leases.
LEMMA GrantCounts ==
    ASSUME CountInv, NEW q, NEW k \in Key, NEW r \in Request, NEW id \in LeaseId,
           Grant(q, k, r, id)
    PROVE  CountInv'
<1>0. LeasesTyped
  BY DEF CountInv
<1>1. active' = [active EXCEPT ![id] = r] /\ active[id] = NoLease
      /\ inUse' = [inUse EXCEPT ![k] = @ + Ask[r].units] /\ Ask[r].key = k
  BY DEF Grant, Eligible, Waiting
<1>2. active'[id] = r /\ \A l \in LeaseId \ {id} : active'[l] = active[l]
  BY <1>0, <1>1 DEF LeasesTyped
<1>3. Leases(k)' = Leases(k) \cup {id} /\ \A j \in Key : id \notin Leases(j)
  BY <1>1, <1>2, NullAssumption DEF Leases
<1>4. \A j \in Key \ {k} : Leases(j)' = Leases(j)
  BY <1>1, <1>2 DEF Leases
<1>5. ASSUME NEW j \in Key
      PROVE  Held(active', Leases(j)) = Held(active, Leases(j))
  <2>1. IsFiniteSet(Leases(j))
    BY DEF CountInv
  <2>2. \A l \in Leases(j) : active'[l] = active[l]
    BY <1>2, <1>3 DEF Leases
  <2> QED
    BY <2>1, <2>2, HeldSame
<1>6. Held(active', Leases(k)') = Ask[r].units + Held(active, Leases(k))
  <2>1. IsFiniteSet(Leases(k) \cup {id})
    BY FS_AddElement DEF CountInv
  <2>2. \A l \in Leases(k) \cup {id} : active'[l] \in Request
    BY <1>0, <1>2, <1>3 DEF Leases, LeasesTyped
  <2>3. \A l \in Leases(k) \cup {id} : Ask[active'[l]].units \in Nat
    BY <2>2, AskFacts
  <2>4. (Leases(k) \cup {id}) \ {id} = Leases(k)
    BY <1>3
  <2>5. Held(active', Leases(k) \cup {id}) = Ask[active'[id]].units + Held(active', (Leases(k) \cup {id}) \ {id})
    BY <2>1, <2>3, HeldRemove
  <2> QED
    BY <1>2, <1>3, <1>5, <2>4, <2>5
<1>7. inUse'[k] = Held(active', Leases(k)')
  <2>1. inUse[k] = Held(active, Leases(k)) /\ inUse[k] \in Nat /\ Ask[r].units \in Nat
    BY <1>0, AskFacts DEF CountInv, LeasesTyped
  <2>2. inUse'[k] = inUse[k] + Ask[r].units
    BY <1>0, <1>1 DEF LeasesTyped
  <2> QED
    BY <1>6, <2>1, <2>2
<1>8. \A j \in Key \ {k} : inUse'[j] = inUse[j]
  BY <1>0, <1>1 DEF LeasesTyped
<1>9. \A j \in Key : IsFiniteSet(Leases(j)')
  BY <1>3, <1>4, FS_AddElement DEF CountInv
<1>10. \A j \in Key : inUse'[j] = Held(active', Leases(j)')
  <2> SUFFICES ASSUME NEW j \in Key \ {k} PROVE inUse'[j] = Held(active', Leases(j)')
    BY <1>7
  <2>1. inUse[j] = Held(active, Leases(j))
    BY DEF CountInv
  <2> QED
    BY <1>4, <1>5, <1>8, <2>1
<1>11. LeasesTyped'
  <2>1. Ask[r].units \in Nat
    BY AskFacts
  <2> QED
    BY <1>0, <1>1, <2>1 DEF LeasesTyped
<1> QED
  BY <1>9, <1>10, <1>11 DEF CountInv

\* A release takes what the lease was granted off the counter, no more and no less.
LEMMA ReleaseCounts ==
    ASSUME CountInv, NEW id \in LeaseId, ReleaseLease(id)
    PROVE  CountInv'
<1>0. LeasesTyped
  BY DEF CountInv
<1>a. active[id] \in Request
  BY <1>0 DEF LeasesTyped, ReleaseLease
<1>b. PICK r \in Request : r = active[id]
  BY <1>a
<1>c. PICK k \in Key : k = Ask[r].key
  BY AskFacts
<1>1. Ask[r].units \in Nat
  BY AskFacts
<1>2. /\ active' = [active EXCEPT ![id] = NoLease]
      /\ inUse' = [inUse EXCEPT ![k] = Monus(@, Ask[r].units)]
      /\ active[id] = r /\ r # NoLease
  BY <1>b, <1>c DEF ReleaseLease
<1>3. active'[id] = NoLease /\ \A l \in LeaseId \ {id} : active'[l] = active[l]
  BY <1>0, <1>2 DEF LeasesTyped
<1>4. id \in Leases(k) /\ \A j \in Key : Leases(j)' = Leases(j) \ {id}
  BY <1>2, <1>3, <1>c DEF Leases
<1>5. \A j \in Key \ {k} : id \notin Leases(j)
  BY <1>2, <1>c DEF Leases
<1>6. ASSUME NEW j \in Key
      PROVE  Held(active', Leases(j)') = Held(active, Leases(j) \ {id})
  <2>1. IsFiniteSet(Leases(j) \ {id})
    BY FS_Subset, Leases(j) \ {id} \subseteq Leases(j) DEF CountInv
  <2>2. \A l \in Leases(j) \ {id} : active'[l] = active[l]
    BY <1>3 DEF Leases
  <2>3. Held(active', Leases(j) \ {id}) = Held(active, Leases(j) \ {id})
    BY <2>1, <2>2, HeldSame
  <2> QED
    BY <1>4, <2>3
<1>7. \A j \in Key : \A l \in Leases(j) : Ask[active[l]].units \in Nat
  BY <1>0, AskFacts DEF Leases, LeasesTyped
<1>8. Held(active, Leases(k)) = Ask[r].units + Held(active, Leases(k) \ {id})
  BY <1>2, <1>4, <1>7, HeldRemove DEF CountInv
<1>9. Held(active, Leases(k) \ {id}) \in Nat
  BY <1>1, <1>7, FS_Subset, HeldType, Leases(k) \ {id} \subseteq Leases(k) DEF CountInv
<1>10. inUse'[k] = Held(active', Leases(k)')
  <2>1. inUse[k] = Held(active, Leases(k))
    BY <1>1 DEF CountInv
  <2>2. inUse'[k] = Monus(inUse[k], Ask[r].units)
    BY <1>0, <1>1, <1>2 DEF LeasesTyped
  <2>3. Monus(inUse[k], Ask[r].units) = Held(active, Leases(k) \ {id})
    BY <1>1, <1>8, <1>9, <2>1 DEF Monus
  <2> QED
    BY <1>1, <1>6, <2>2, <2>3
<1>11. ASSUME NEW j \in Key \ {k} PROVE inUse'[j] = Held(active', Leases(j)')
  <2>1. inUse'[j] = inUse[j]
    BY <1>0, <1>2 DEF LeasesTyped
  <2>2. Leases(j) \ {id} = Leases(j)
    BY <1>5
  <2> QED
    BY <1>6, <2>1, <2>2 DEF CountInv
<1>12. \A j \in Key : IsFiniteSet(Leases(j)')
  BY <1>4, FS_Subset, \A j \in Key : Leases(j) \ {id} \subseteq Leases(j) DEF CountInv
<1>13. LeasesTyped'
  <2>1. inUse' \in [Key -> Nat]
    BY <1>0, <1>1, <1>2 DEF LeasesTyped, Monus
  <2> QED
    BY <1>0, <1>2, <2>1 DEF LeasesTyped
<1> QED
  BY <1>10, <1>11, <1>12, <1>13 DEF CountInv

\* Every step keeps the counters equal to the sums of finitely many leases.
LEMMA CountInvariant == Spec => []CountInv
<1>1. Init => CountInv
  <2> SUFFICES ASSUME Init PROVE CountInv
    OBVIOUS
  <2>1. LeasesTyped
    BY DEF Init, LeasesTyped
  <2>2. \A k \in Key : Leases(k) = {} /\ inUse[k] = 0
    BY DEF Init, Leases
  <2>3. IsFiniteSet({}) /\ Held(active, {}) = 0
    BY FS_EmptySet, HeldUnfolds
  <2> QED
    BY <2>1, <2>2, <2>3 DEF CountInv
<1>2. ASSUME CountInv, UNCHANGED <<active, inUse>> PROVE CountInv'
  BY <1>2 DEF CountInv, LeasesTyped, Leases
<1>3. CountInv /\ [Next]_resources => CountInv'
  <2> SUFFICES ASSUME CountInv, [Next]_resources PROVE CountInv'
    OBVIOUS
  <2>1. ASSUME NEW r \in Request, Enqueue(r) PROVE CountInv'
    BY <1>2, <2>1 DEF Enqueue
  <2>2. ASSUME NEW t \in Task, CancelTaskRequests(t) PROVE CountInv'
    BY <1>2, <2>2 DEF CancelTaskRequests
  <2>3. ASSUME NEW k \in Key, GrantNext(k) PROVE CountInv'
    <3>1. CASE GrantNone(queues, k)
      BY <1>2, <3>1 DEF GrantNone
    <3>2. CASE \E r \in Waiting(queues, k), id \in LeaseId : Grant(queues, k, r, id)
      <4>1. PICK r \in Request, id \in LeaseId : Grant(queues, k, r, id)
        BY <3>2 DEF Waiting
      <4> QED
        BY <4>1, GrantCounts
    <3> QED
      BY <2>3, <3>1, <3>2 DEF GrantNext
  <2>4. ASSUME NEW id \in LeaseId, Release(id) PROVE CountInv'
    BY <2>4, ReleaseCounts DEF Release
  <2>5. ASSUME NEW k \in Key, Age(k) PROVE CountInv'
    BY <1>2, <2>5 DEF Age
  <2>6. ASSUME NEW r \in Request, Expire(r) PROVE CountInv'
    BY <1>2, <2>6 DEF Expire
  <2>7. CASE UNCHANGED resources
    BY <1>2, <2>7 DEF resources
  <2> QED
    BY <2>1, <2>2, <2>3, <2>4, <2>5, <2>6, <2>7 DEF Next
<1> QED
  BY <1>1, <1>3, PTL DEF Spec

\* The counter is the sum of the leases: no unit is lost or made up, in whatever
\* order leases are granted, lent and released (active_units, grant_next_at,
\* release).
THEOREM InUseCountsLeasesCorrect == Spec => []InUseCountsLeases
<1>1. CountInv => InUseCountsLeases
  BY DEF CountInv, InUseCountsLeases, Held
<1> QED
  BY <1>1, CountInvariant, PTL

-----------------------------------------------------------------------------
(* The capacities.                                                         *)

CapacityInv == LeasesTyped /\ CombinedCapacity

-----------------------------------------------------------------------------

\* What saturating subtraction returns.
LEMMA MonusFacts ==
    ASSUME NEW a \in Int, NEW b \in Int
    PROVE  /\ Monus(a, b) \in Nat
           /\ a >= b => Monus(a, b) = a - b
           /\ a < b  => Monus(a, b) = 0
BY DEF Monus

\* What grant_next may hand out.  On a key without a partner it is what is
\* left; on the regular key what is left of it, or of the reserve once it is
\* used up; on the coordination key what is left and not lent.
LEMMA AvailableFacts ==
    ASSUME inUse \in [Key -> Nat], CombinedCapacity, NEW q, NEW k \in Key
    PROVE  /\ Available(q, k) \in Nat
           /\ k # Regular => inUse[k] + Available(q, k) <= Capacity[k]
           /\ k \in {Regular, Coordination} /\ Available(q, k) > 0 =>
                 inUse[Regular] + inUse[Coordination] + Available(q, k)
                    <= Capacity[Regular] + Capacity[Coordination]
<1> DEFINE R == Capacity[Regular]
           C == Capacity[Coordination]
           r == inUse[Regular]
           c == inUse[Coordination]
<1>1. Regular \in Key /\ Coordination \in Key /\ Regular # Coordination
  BY KeyAssumption DEF Key
<1>2. R \in Nat /\ C \in Nat /\ r \in Nat /\ c \in Nat
      /\ Capacity[k] \in Nat /\ inUse[k] \in Nat
  BY <1>1, CapacityAssumption
<1>3. r + c <= R + C /\ c <= C /\ (k # Regular => inUse[k] <= Capacity[k])
  BY <1>1 DEF CombinedCapacity
<1>4. CASE k = Regular
  <2>1. Lent(k) = 0
    BY <1>1, <1>4 DEF Lent
  <2>2. CASE r < R
    <3>1. Borrowable(q, k) = 0
      BY <1>4, <2>2 DEF Borrowable
    <3>2. Available(q, k) = R - r
      BY <1>2, <1>4, <2>1, <2>2, <3>1 DEF Available, Monus
    <3> QED
      BY <1>1, <1>2, <1>3, <1>4, <2>2, <3>2
  <2>3. CASE r >= R
    <3>1. Borrowable(q, k) \in {0, Monus(Monus(C, c), Monus(r, R))}
      BY <1>4 DEF Borrowable
    <3>2. Monus(Monus(C, c), Monus(r, R)) = (C - c) - (r - R)
      BY <1>2, <1>3, <2>3 DEF Monus
    <3>3. Monus(Monus(Capacity[k], inUse[k]), Lent(k)) = 0
      BY <1>2, <1>4, <2>1, <2>3 DEF Monus
    <3>4. Available(q, k) \in {0, (C - c) - (r - R)}
      BY <1>2, <3>1, <3>2, <3>3 DEF Available
    <3> QED
      BY <1>2, <1>3, <1>4, <3>4
  <2> QED
    BY <1>2, <2>2, <2>3
<1>5. CASE k = Coordination
  <2>1. Lent(k) = Monus(r, R) /\ Borrowable(q, k) = 0
    BY <1>1, <1>5 DEF Lent, Borrowable
  <2>2. Available(q, k) = Monus(C - c, Monus(r, R))
    BY <1>2, <1>3, <1>5, <2>1 DEF Available, Monus
  <2>3. CASE r < R
    <3>1. Available(q, k) = C - c
      BY <1>2, <1>3, <2>2, <2>3 DEF Monus
    <3> QED
      BY <1>1, <1>2, <1>3, <1>5, <2>3, <3>1
  <2>4. CASE r >= R
    <3>1. Available(q, k) = (C - c) - (r - R)
      BY <1>2, <1>3, <2>2, <2>4 DEF Monus
    <3> QED
      BY <1>1, <1>2, <1>3, <1>5, <2>4, <3>1
  <2> QED
    BY <1>2, <2>3, <2>4
<1>6. CASE k \notin {Regular, Coordination}
  <2>1. Lent(k) = 0 /\ Borrowable(q, k) = 0
    BY <1>6 DEF Lent, Borrowable
  <2>2. Available(q, k) = Capacity[k] - inUse[k]
    BY <1>2, <1>3, <1>6, <2>1 DEF Available, Monus
  <2> QED
    BY <1>2, <1>3, <1>6, <2>2
<1> QED
  BY <1>4, <1>5, <1>6

-----------------------------------------------------------------------------

\* A grant takes no more than is available, on its own key.
LEMMA GrantKeepsCapacity ==
    ASSUME CapacityInv,
           NEW k \in Key, NEW r \in Request, NEW id \in LeaseId, NEW q,
           Grant(q, k, r, id)
    PROVE  CapacityInv'
<1>1. r \in Eligible(q, k) /\ inUse' = [inUse EXCEPT ![k] = @ + Ask[r].units]
      /\ active' = [active EXCEPT ![id] = r]
  BY DEF Grant
<1>2. Ask[r].units <= Available(q, k) /\ Ask[r].units \in Nat \ {0}
  BY <1>1, AskAssumption DEF Eligible, QueuedRequest
<1>3. inUse \in [Key -> Nat] /\ CombinedCapacity
  BY DEF CapacityInv, LeasesTyped
<1>4. LeasesTyped'
  BY <1>1, <1>2 DEF CapacityInv, LeasesTyped
<1>5. Regular \in Key /\ Coordination \in Key /\ Regular # Coordination
  BY KeyAssumption DEF Key
<1>6. /\ Available(q, k) \in Nat
      /\ k # Regular => inUse[k] + Available(q, k) <= Capacity[k]
      /\ k \in {Regular, Coordination} /\ Available(q, k) > 0 =>
            inUse[Regular] + inUse[Coordination] + Available(q, k)
               <= Capacity[Regular] + Capacity[Coordination]
  BY <1>3, AvailableFacts
<1>7. inUse'[k] = inUse[k] + Ask[r].units /\ \A j \in Key \ {k} : inUse'[j] = inUse[j]
  BY <1>1, <1>3
<1>8. inUse'[Regular] + inUse'[Coordination] <= Capacity[Regular] + Capacity[Coordination]
  <2>1. CASE k \in {Regular, Coordination}
    BY <2>1, <1>2, <1>3, <1>5, <1>6, <1>7, CapacityAssumption
  <2>2. CASE k \notin {Regular, Coordination}
    BY <2>2, <1>3, <1>5, <1>7 DEF CombinedCapacity
  <2> QED
    BY <2>1, <2>2
<1>9. ASSUME NEW j \in Key \ {Regular}
      PROVE  inUse'[j] <= Capacity[j]
  <2>1. CASE j = k
    BY <2>1, <1>2, <1>3, <1>6, <1>7, CapacityAssumption
  <2>2. CASE j # k
    BY <2>2, <1>3, <1>7 DEF CombinedCapacity
  <2> QED
    BY <2>1, <2>2
<1> QED
  BY <1>4, <1>8, <1>9 DEF CapacityInv, CombinedCapacity

\* A release takes no unit from another key and adds none to its own.
LEMMA ReleaseKeepsCapacity ==
    ASSUME CapacityInv, NEW id \in LeaseId, ReleaseLease(id)
    PROVE  CapacityInv'
<1> DEFINE r == active[id]
<1>1. r \in Request /\ Ask[r].units \in Nat /\ Ask[r].key \in Key
  BY AskAssumption DEF CapacityInv, LeasesTyped, ReleaseLease, QueuedRequest
<1>2. inUse' = [inUse EXCEPT ![Ask[r].key] = Monus(@, Ask[r].units)]
  BY DEF ReleaseLease
<1>3. inUse \in [Key -> Nat] /\ CombinedCapacity
  BY DEF CapacityInv, LeasesTyped
<1>4. \A j \in Key : inUse'[j] \in Nat /\ inUse'[j] <= inUse[j]
  BY <1>1, <1>2, <1>3 DEF Monus
<1>5. LeasesTyped'
  <2>1. inUse' \in [Key -> Nat]
    BY <1>2, <1>3, <1>4
  <2>2. active' \in [LeaseId -> Request \cup {NoLease}]
    BY DEF CapacityInv, LeasesTyped, ReleaseLease
  <2> QED
    BY <2>1, <2>2 DEF LeasesTyped
<1>6. CombinedCapacity'
  <2>1. Regular \in Key /\ Coordination \in Key
    BY DEF Key
  <2> QED
    BY <1>3, <1>4, <2>1, CapacityAssumption DEF CombinedCapacity
<1> QED
  BY <1>5, <1>6 DEF CapacityInv

\* Every step keeps the pools of a provider to their combined capacity, and the
\* reserve to its own.
LEMMA CapacityInvariant == Spec => []CapacityInv
<1>1. Init => CapacityInv
  <2>1. Regular \in Key /\ Coordination \in Key
    BY DEF Key
  <2> QED
    BY <2>1, CapacityAssumption DEF Init, CapacityInv, LeasesTyped, CombinedCapacity
<1>2. CapacityInv /\ [Next]_resources => CapacityInv'
  <2> SUFFICES ASSUME CapacityInv, [Next]_resources PROVE CapacityInv'
    OBVIOUS
  <2>1. ASSUME NEW r \in Request, Enqueue(r) PROVE CapacityInv'
    BY <2>1 DEF Enqueue, CapacityInv, LeasesTyped, CombinedCapacity
  <2>2. ASSUME NEW t \in Task, CancelTaskRequests(t) PROVE CapacityInv'
    BY <2>2 DEF CancelTaskRequests, CapacityInv, LeasesTyped, CombinedCapacity
  <2>3. ASSUME NEW k \in Key, GrantNext(k) PROVE CapacityInv'
    <3>1. CASE GrantNone(queues, k)
      BY <3>1 DEF GrantNone, CapacityInv, LeasesTyped, CombinedCapacity
    <3>2. CASE \E r \in Waiting(queues, k), id \in LeaseId : Grant(queues, k, r, id)
      <4>1. PICK r \in Request, id \in LeaseId : Grant(queues, k, r, id)
        BY <3>2 DEF Waiting
      <4> QED
        BY <4>1, GrantKeepsCapacity
    <3> QED
      BY <2>3, <3>1, <3>2 DEF GrantNext
  <2>4. ASSUME NEW id \in LeaseId, Release(id) PROVE CapacityInv'
    BY <2>4, ReleaseKeepsCapacity DEF Release
  <2>5. ASSUME NEW k \in Key, Age(k) PROVE CapacityInv'
    BY <2>5 DEF Age, CapacityInv, LeasesTyped, CombinedCapacity
  <2>6. ASSUME NEW r \in Request, Expire(r) PROVE CapacityInv'
    BY <2>6 DEF Expire, CapacityInv, LeasesTyped, CombinedCapacity
  <2>7. CASE UNCHANGED resources
    BY <2>7 DEF resources, CapacityInv, LeasesTyped, CombinedCapacity
  <2> QED
    BY <2>1, <2>2, <2>3, <2>4, <2>5, <2>6, <2>7 DEF Next
<1> QED
  BY <1>1, <1>2, PTL DEF Spec

\* The two pools of a provider never exceed its profile, and every other key
\* keeps to its capacity: loans, grants, releases, expiry and cancellation in
\* any order (grant_next_at, release).
THEOREM CombinedCapacityCorrect == Spec => []CombinedCapacity
<1>1. CapacityInv => CombinedCapacity
  BY DEF CapacityInv
<1> QED
  BY <1>1, CapacityInvariant, PTL

-----------------------------------------------------------------------------

ExclusiveInv == active \in [LeaseId -> Request \cup {NoLease}] /\ ExclusiveIsAlone

\* A grant for a key that holds an exclusive lease, or of an exclusive request
\* for a key that holds any, does not happen: two shared leases and one
\* exclusive one never meet, in whatever order they are granted and released.
THEOREM ExclusiveIsAloneCorrect == Spec => []ExclusiveIsAlone
<1>1. Init => ExclusiveInv
  BY DEF Init, ExclusiveInv, ExclusiveIsAlone, Leases
<1>2. ASSUME ExclusiveInv, UNCHANGED active PROVE ExclusiveInv'
  BY <1>2 DEF ExclusiveInv, ExclusiveIsAlone, Leases
<1>3. ASSUME ExclusiveInv, NEW k \in Key, NEW r \in Waiting(queues, k), NEW id \in LeaseId,
             Grant(queues, k, r, id)
      PROVE  ExclusiveInv'
  <2>1. r \in Request /\ Ask[r].key = k /\ Compatible(r, k)
    BY <1>3 DEF Grant, Eligible, Waiting
  <2>2. active' = [active EXCEPT ![id] = r] /\ active[id] = NoLease
    BY <1>3 DEF Grant
  <2>3. active \in [LeaseId -> Request \cup {NoLease}] /\ ExclusiveIsAlone
    BY <1>3 DEF ExclusiveInv
  <2>4. Leases(k)' = Leases(k) \cup {id} /\ id \notin Leases(k)
    BY <2>1, <2>2, <2>3, NullAssumption DEF Leases
  <2>5. \A j \in Key \ {k} : Leases(j)' = Leases(j) /\ id \notin Leases(j)
    BY <2>1, <2>2, <2>3 DEF Leases
  <2>6. \A l \in LeaseId \ {id} : active'[l] = active[l]
    BY <2>2, <2>3
  <2>7. active'[id] = r
    BY <2>2, <2>3
  <2>8. ASSUME NEW j \in Key, NEW l \in Leases(j)', Ask[active'[l]].mode = "Exclusive"
        PROVE  Leases(j)' = {l}
    <3>1. CASE j # k
      <4>1. l \in Leases(j) /\ active'[l] = active[l] /\ Leases(j)' = Leases(j)
        BY <2>5, <2>6, <2>8, <3>1 DEF Leases
      <4> QED
        BY <2>3, <2>8, <4>1 DEF ExclusiveIsAlone
    <3>2. CASE j = k /\ l = id
      <4>1. Leases(k) = {}
        BY <2>1, <2>7, <2>8, <3>2 DEF Compatible
      <4> QED
        BY <2>4, <3>2, <4>1
    <3>3. CASE j = k /\ l # id
      <4>1. l \in Leases(k) /\ active'[l] = active[l]
        BY <2>4, <2>6, <2>8, <3>3 DEF Leases
      <4> QED
        BY <2>1, <2>8, <4>1 DEF Compatible
    <3> QED
      BY <3>1, <3>2, <3>3
  <2>9. active' \in [LeaseId -> Request \cup {NoLease}]
    BY <2>1, <2>2, <2>3
  <2> QED
    BY <2>8, <2>9 DEF ExclusiveInv, ExclusiveIsAlone
<1>4. ASSUME ExclusiveInv, NEW id \in LeaseId, ReleaseLease(id)
      PROVE  ExclusiveInv'
  <2>1. active \in [LeaseId -> Request \cup {NoLease}] /\ ExclusiveIsAlone
    BY <1>4 DEF ExclusiveInv
  <2>2. active' = [active EXCEPT ![id] = NoLease]
    BY <1>4 DEF ReleaseLease
  <2>3. \A j \in Key : Leases(j)' = Leases(j) \ {id}
    BY <2>1, <2>2 DEF Leases
  <2>4. \A l \in LeaseId \ {id} : active'[l] = active[l]
    BY <2>1, <2>2
  <2>5. active' \in [LeaseId -> Request \cup {NoLease}]
    BY <2>1, <2>2
  <2>6. ASSUME NEW j \in Key, NEW l \in Leases(j)', Ask[active'[l]].mode = "Exclusive"
        PROVE  Leases(j)' = {l}
    <3>1. l \in Leases(j) /\ l # id /\ active'[l] = active[l]
      BY <2>3, <2>4, <2>6 DEF Leases
    <3>2. Leases(j) = {l}
      BY <2>1, <2>6, <3>1 DEF ExclusiveIsAlone
    <3> QED
      BY <2>3, <3>1, <3>2
  <2> QED
    BY <2>5, <2>6 DEF ExclusiveInv, ExclusiveIsAlone
<1>5. ExclusiveInv /\ [Next]_resources => ExclusiveInv'
  <2> SUFFICES ASSUME ExclusiveInv, [Next]_resources PROVE ExclusiveInv'
    OBVIOUS
  <2>1. ASSUME NEW r \in Request, Enqueue(r) PROVE ExclusiveInv'
    BY <1>2, <2>1 DEF Enqueue
  <2>2. ASSUME NEW t \in Task, CancelTaskRequests(t) PROVE ExclusiveInv'
    BY <1>2, <2>2 DEF CancelTaskRequests
  <2>3. ASSUME NEW k \in Key, GrantNext(k) PROVE ExclusiveInv'
    <3>1. CASE GrantNone(queues, k)
      BY <1>2, <3>1 DEF GrantNone
    <3>2. CASE \E r \in Waiting(queues, k), id \in LeaseId : Grant(queues, k, r, id)
      BY <1>3, <3>2
    <3> QED
      BY <2>3, <3>1, <3>2 DEF GrantNext
  <2>4. ASSUME NEW id \in LeaseId, Release(id) PROVE ExclusiveInv'
    BY <1>4, <2>4 DEF Release
  <2>5. ASSUME NEW k \in Key, Age(k) PROVE ExclusiveInv'
    BY <1>2, <2>5 DEF Age
  <2>6. ASSUME NEW r \in Request, Expire(r) PROVE ExclusiveInv'
    BY <1>2, <2>6 DEF Expire
  <2>7. CASE UNCHANGED resources
    BY <1>2, <2>7 DEF resources
  <2> QED
    BY <2>1, <2>2, <2>3, <2>4, <2>5, <2>6, <2>7 DEF Next
<1>6. ExclusiveInv => ExclusiveIsAlone
  BY DEF ExclusiveInv
<1> QED
  BY <1>1, <1>5, <1>6, PTL DEF Spec

-----------------------------------------------------------------------------
(* Borrowing.                                                              *)

\* What one step may do to the loan: the regular pool takes more of the reserve
\* only where no waiting coordination request could have had it
\* (coordination_reserve_capacity).
BorrowsOnlyIdleUnits ==
    Loan' > Loan =>
      \A r \in Waiting(queues, Coordination) \ expired :
         \/ Ask[r].units + Loan + inUse[Coordination] > Capacity[Coordination]
         \/ ~Compatible(r, Coordination)

\* A grant lends only when the reserve is idle.
LEMMA GrantBorrowsOnlyIdleUnits ==
    ASSUME CapacityInv, NEW k \in Key, NEW r \in Request, NEW id \in LeaseId,
           Grant(queues, k, r, id)
    PROVE  BorrowsOnlyIdleUnits
<1> DEFINE R == Capacity[Regular]
           C == Capacity[Coordination]
           g == inUse[Regular]
           c == inUse[Coordination]
<1>1. Regular \in Key /\ Coordination \in Key /\ Regular # Coordination
  BY KeyAssumption DEF Key
<1>2. R \in Nat /\ C \in Nat /\ g \in Nat /\ c \in Nat /\ c <= C
  BY <1>1, CapacityAssumption DEF CapacityInv, LeasesTyped, CombinedCapacity
<1>3. inUse' = [inUse EXCEPT ![k] = @ + Ask[r].units] /\ Ask[r].units <= Available(queues, k)
      /\ Ask[r].units \in Nat \ {0}
  BY AskFacts DEF Grant, Eligible
<1>4. CASE k # Regular
  <2>1. inUse'[Regular] = g
    BY <1>1, <1>3, <1>4 DEF CapacityInv, LeasesTyped
  <2>2. Loan' = Loan /\ Loan \in Nat
    <3>1. Loan' = Loan
      BY <2>1 DEF Loan, Monus
    <3>2. Loan \in Nat
      BY <1>2 DEF Loan, Monus
    <3> QED
      BY <3>1, <3>2
  <2> QED
    BY <2>2 DEF BorrowsOnlyIdleUnits
<1>5. CASE k = Regular
  <2>1. inUse'[Regular] = g + Ask[r].units
    BY <1>1, <1>3, <1>5 DEF CapacityInv, LeasesTyped
  <2>2. Lent(Regular) = 0
    BY <1>1 DEF Lent
  <2>3. CASE g < R
    <3>1. Borrowable(queues, Regular) = 0
      BY <2>3 DEF Borrowable
    <3>2. Available(queues, Regular) = R - g
      BY <1>2, <2>2, <2>3, <3>1 DEF Available, Monus
    <3>3. Loan' = 0 /\ Loan = 0
      BY <1>2, <1>3, <1>5, <2>1, <2>3, <3>2 DEF Loan, Monus
    <3> QED
      BY <3>3 DEF BorrowsOnlyIdleUnits
  <2>4. CASE g >= R
    <3>1. Monus(Monus(R, g), Lent(Regular)) = 0
      BY <1>2, <2>2, <2>4 DEF Monus
    <3>2. Borrowable(queues, Regular) # 0
      BY <1>2, <1>3, <1>5, <3>1 DEF Available
    <3>3. ~CoordinationWaits(queues)
      BY <3>2 DEF Borrowable
    <3>4. ASSUME NEW s \in Waiting(queues, Coordination) \ expired, Compatible(s, Coordination)
          PROVE  Ask[s].units + Loan + c > C
      <4>1. ~(Ask[s].units <= Monus(C, c))
        BY <3>3, <3>4 DEF CoordinationWaits
      <4>2. Ask[s].units \in Nat
        BY AskFacts DEF Waiting
      <4>3. Loan \in Nat /\ Monus(C, c) = C - c
        BY <1>2, MonusFacts DEF Loan
      <4> QED
        BY <1>2, <4>1, <4>2, <4>3
    <3> QED
      BY <3>4 DEF BorrowsOnlyIdleUnits
  <2> QED
    BY <1>2, <2>3, <2>4
<1> QED
  BY <1>4, <1>5

\* A loan that does not grow borrows nothing.
LEMMA SettledLoan ==
    ASSUME CapacityInv, inUse' \in [Key -> Nat], inUse'[Regular] <= inUse[Regular]
    PROVE  BorrowsOnlyIdleUnits
<1>1. Regular \in Key
  BY DEF Key
<1>2. inUse[Regular] \in Nat /\ inUse'[Regular] \in Nat /\ Capacity[Regular] \in Nat
  BY <1>1, CapacityAssumption DEF CapacityInv, LeasesTyped
<1>3. ~(Loan' > Loan)
  BY <1>2 DEF Loan, Monus
<1> QED
  BY <1>3 DEF BorrowsOnlyIdleUnits

\* The regular pool takes no unit of the reserve that a waiting coordination
\* request could have had, in any step of the coordinator
\* (coordination_reserve_capacity, grant_next_at).
THEOREM BorrowingYieldsCorrect == Spec => BorrowingYields
<1>1. ASSUME CapacityInv, [Next]_resources PROVE BorrowsOnlyIdleUnits
  <2>0. Regular \in Key /\ inUse \in [Key -> Nat]
    BY <1>1 DEF Key, CapacityInv, LeasesTyped
  <2>1. ASSUME inUse' = inUse PROVE BorrowsOnlyIdleUnits
    BY <1>1, <2>0, <2>1, SettledLoan
  <2>2. ASSUME NEW k \in Key, GrantNext(k) PROVE BorrowsOnlyIdleUnits
    <3>1. CASE GrantNone(queues, k)
      BY <2>1, <3>1 DEF GrantNone
    <3>2. CASE \E r \in Waiting(queues, k), id \in LeaseId : Grant(queues, k, r, id)
      <4>1. PICK r \in Request, id \in LeaseId : Grant(queues, k, r, id)
        BY <3>2 DEF Waiting
      <4> QED
        BY <1>1, <4>1, GrantBorrowsOnlyIdleUnits
    <3> QED
      BY <2>2, <3>1, <3>2 DEF GrantNext
  <2>3. ASSUME NEW id \in LeaseId, Release(id) PROVE BorrowsOnlyIdleUnits
    <3>1. active[id] \in Request
      BY <1>1, <2>3 DEF CapacityInv, LeasesTyped, Release, ReleaseLease
    <3>2. Ask[active[id]].key \in Key /\ Ask[active[id]].units \in Nat
      BY <3>1, AskFacts
    <3>3. inUse' = [inUse EXCEPT ![Ask[active[id]].key] = Monus(@, Ask[active[id]].units)]
      BY <2>3 DEF Release, ReleaseLease
    <3>4. inUse' \in [Key -> Nat] /\ inUse'[Regular] <= inUse[Regular]
      BY <2>0, <3>2, <3>3 DEF Monus
    <3> QED
      BY <1>1, <3>4, SettledLoan
  <2>4. CASE \E r \in Request : Enqueue(r)
    BY <2>1, <2>4 DEF Enqueue
  <2>5. CASE \E t \in Task : CancelTaskRequests(t)
    BY <2>1, <2>5 DEF CancelTaskRequests
  <2>6. CASE \E k \in Key : Age(k)
    BY <2>1, <2>6 DEF Age
  <2>7. CASE \E r \in Request : Expire(r)
    BY <2>1, <2>7 DEF Expire
  <2>8. CASE UNCHANGED resources
    BY <2>1, <2>8 DEF resources
  <2> QED
    BY <1>1, <2>2, <2>3, <2>4, <2>5, <2>6, <2>7, <2>8 DEF Next
<1>2. CapacityInv /\ [Next]_resources => [BorrowsOnlyIdleUnits]_resources
  BY <1>1
<1> QED
  BY <1>2, CapacityInvariant, PTL DEF Spec, BorrowingYields, BorrowsOnlyIdleUnits

-----------------------------------------------------------------------------
(* Rotation.                                                               *)

\* A finite set of numbers that is not empty has a greatest one, which Max finds.
LEMMA MaxFacts ==
    ASSUME NEW S, IsFiniteSet(S), S # {}, \A x \in S : x \in Int
    PROVE  Max(S) \in S /\ \A x \in S : x <= Max(S)
<1> DEFINE G == {T \in SUBSET S : T # {} => \E m \in T : \A x \in T : x <= m}
<1>1. {} \in G
  OBVIOUS
<1>2. ASSUME NEW T \in SUBSET S, T # {}, \A x \in T : T \ {x} \in G PROVE T \in G
  <2>1. PICK y \in T : TRUE
    BY <1>2
  <2>2. y \in Int
    BY <2>1
  <2>3. CASE T \ {y} = {}
    <3>1. \A x \in T : x = y
      BY <2>3
    <3> QED
      BY <2>1, <2>2, <3>1
  <2>4. CASE T \ {y} # {}
    <3>1. T \ {y} \in G
      BY <1>2, <2>1
    <3>2. PICK m \in T \ {y} : \A x \in T \ {y} : x <= m
      BY <2>4, <3>1
    <3>3. CASE m <= y
      <4>1. \A x \in T : x <= y
        BY <2>2, <3>2, <3>3
      <4> QED
        BY <2>1, <4>1
    <3>4. CASE ~(m <= y)
      <4>1. \A x \in T : x <= m
        BY <2>2, <3>2, <3>4
      <4> QED
        BY <3>2, <4>1
    <3> QED
      BY <3>3, <3>4
  <2> QED
    BY <2>3, <2>4
<1> HIDE DEF G
<1>3. S \in G
  BY <1>1, <1>2, SetInduction, Zenon
<1>4. \E m \in S : \A x \in S : m >= x
  <2>1. \E m \in S : \A x \in S : x <= m
    BY <1>3 DEF G
  <2> QED
    BY <2>1
<1>5. Max(S) \in S /\ \A x \in S : Max(S) >= x
  BY <1>4 DEF Max
<1> QED
  BY <1>5

\* The first place of a set of places is one of them.
LEMMA MinFacts ==
    ASSUME NEW S \in SUBSET Nat, S # {}
    PROVE  Min(S) \in S
<1>1. \E m \in S : \A x \in S : m <= x
  BY LeastNumber
<1> QED
  BY <1>1 DEF Min

\* Every request that waits has a score (admission_score, root_score).
LEMMA ScoreFacts ==
    ASSUME TypeInv, CountInv, NEW k \in Key, NEW r \in Request
    PROVE  NetScore(k, r) \in Int
<1> DEFINE L == {l \in Leases(k) : Ask[active[l]].root = Ask[r].root}
<1>1. Outstanding(k, Ask[r].root) = Held(active, L)
  BY DEF Outstanding, Held
<1>2. IsFiniteSet(L)
  BY FS_Subset, L \subseteq Leases(k) DEF CountInv
<1>3. \A l \in L : Ask[active[l]].units \in Nat
  BY AskFacts DEF Leases, CountInv, LeasesTyped
<1> HIDE DEF L
<1>4. Held(active, L) \in Nat
  BY <1>2, <1>3, HeldType
<1>5. Weight[Ask[r].priority] \in Nat
  BY AskFacts DEF Weight
<1>6. boost[r] \in Nat
  BY DEF TypeInv, MaxBoost
<1>7. Score(r) \in Nat
  BY <1>5, <1>6 DEF Score
<1> QED
  BY <1>1, <1>4, <1>7 DEF NetScore

\* The best score of r's root among S, and the place of its first request.
Best(k, S, r)    == Max({NetScore(k, e) : e \in Group(S, "root", r)})
First(q, k, S, r) == Min({At(q, k, e) : e \in Group(S, "root", r)})

\* The best score of a root is that of one of its requests, and no request of
\* the root scores more (root_score).
LEMMA BestFacts ==
    ASSUME TypeInv, CountInv, NEW k \in Key, NEW S, IsFiniteSet(S), S \subseteq Request,
           NEW r \in S
    PROVE  /\ \E e \in S : Ask[e].root = Ask[r].root /\ NetScore(k, e) = Best(k, S, r)
           /\ NetScore(k, r) <= Best(k, S, r)
           /\ Best(k, S, r) \in Int
<1> DEFINE E == Group(S, "root", r)
           N == {NetScore(k, e) : e \in E}
<1>1. E = {e \in S : Ask[e].root = Ask[r].root}
  BY DEF Group
<1>2. E \subseteq S /\ r \in E /\ IsFiniteSet(E)
  BY <1>1, FS_Subset
<1> HIDE DEF E
<1>3. IsFiniteSet(N)
  <2> DEFINE f == [e \in E |-> NetScore(k, e)]
  <2>1. f \in Surjection(E, N)
    BY DEF Surjection
  <2> QED
    BY <1>2, <2>1, FS_Surjection
<1>4. N # {} /\ \A n \in N : n \in Int
  BY <1>2, ScoreFacts
<1>5. NetScore(k, r) \in N
  BY <1>2
<1>6. Best(k, S, r) = Max(N)
  BY DEF Best, E
<1>7. Max(N) \in N /\ NetScore(k, r) <= Max(N)
  BY <1>3, <1>4, <1>5, MaxFacts
<1>8. PICK e \in E : NetScore(k, e) = Max(N)
  BY <1>7
<1> QED
  BY <1>1, <1>4, <1>6, <1>7, <1>8

\* The first request of a root has a place in the queue.
LEMMA FirstFacts ==
    ASSUME NEW q, QueuesTyped(q), NEW k \in Key, NEW S, S \subseteq Waiting(q, k), NEW r \in S
    PROVE  First(q, k, S, r) \in Nat
<1> DEFINE E == Group(S, "root", r)
           P == {At(q, k, e) : e \in E}
<1>1. r \in E /\ E \subseteq Waiting(q, k)
  BY DEF Group
<1> HIDE DEF E
<1>2. q[k] \in Seq(Request) /\ DOMAIN q[k] \subseteq Nat
  BY DEF QueuesTyped, Orderly
<1>3. \A e \in E : At(q, k, e) \in Nat
  <2> SUFFICES ASSUME NEW e \in E PROVE At(q, k, e) \in DOMAIN q[k]
    BY <1>2
  <2>1. \E i \in DOMAIN q[k] : q[k][i] = e
    BY <1>1 DEF Waiting
  <2> QED
    BY <2>1 DEF At
<1>4. P \in SUBSET Nat /\ P # {}
  BY <1>1, <1>3
<1> HIDE DEF P
<1>5. Min(P) \in P
  BY <1>4, MinFacts
<1> QED
  BY <1>4, <1>5 DEF First, P, E

\* A root granted last is ahead of another one only by its score: at equal
\* scores the one granted last comes last (rotate_after).
LEMMA AheadFacts ==
    ASSUME TypeInv, CountInv, NEW k \in Key, NEW S, S \subseteq Waiting(queues, k),
           NEW r \in S, NEW s \in S,
           Ahead(queues, k, S, "root", Ask[r].root, r, s)
    PROVE  Best(k, S, r) > Best(k, S, s)
<1> DEFINE b(x) == Best(k, S, x)
           h(x) == First(queues, k, S, x)
           p(x) == \E e \in S : Ask[e].root = Ask[r].root /\ h(e) < h(x)
<1>1. \/ b(r) > b(s)
      \/ b(r) = b(s) /\ p(r) /\ ~p(s)
      \/ b(r) = b(s) /\ (p(r) <=> p(s)) /\ h(r) < h(s)
  BY Zenon DEF Ahead, Best, First
<1>2. ~p(r)
  <2> SUFFICES ASSUME NEW e \in S, Ask[e].root = Ask[r].root, h(e) < h(r) PROVE FALSE
    OBVIOUS
  <2>1. Group(S, "root", e) = Group(S, "root", r)
    BY DEF Group
  <2>2. h(e) = h(r)
    BY <2>1 DEF First
  <2>3. h(r) \in Nat
    BY FirstFacts DEF TypeInv
  <2> QED
    BY <2>2, <2>3
<1>3. h(r) < h(s) => p(s)
  OBVIOUS
<1> HIDE DEF b, h, p
<1>4. b(r) > b(s)
  BY <1>1, <1>2, <1>3
<1> QED
  BY <1>4 DEF b

\* What one step may do to the rotation of k: the root granted last is granted
\* again only for a better score.
TurnPassesOn(k, id) ==
    LET new == active'[id] IN
    /\ active[id] = NoLease /\ new # NoLease
    /\ Ask[new].key = k /\ lastRoot[k] = Ask[new].root
    => \A r \in Waiting(queues, k) \ expired :
          \/ Ask[r].root = Ask[new].root
          \/ Ask[r].units > Ask[new].units \/ ~Compatible(r, k)
          \/ \E s \in Waiting(queues, k) :
                Ask[s].root = Ask[new].root /\ NetScore(k, s) > NetScore(k, r)

\* A grant passes the turn on at equal scores (select_fair_request).
LEMMA GrantPassesTheTurn ==
    ASSUME TypeInv, CountInv, NEW k \in Key, NEW new \in Request, NEW id \in LeaseId,
           Grant(queues, k, new, id), lastRoot[k] = Ask[new].root,
           NEW r \in Waiting(queues, k) \ expired,
           Ask[r].root # Ask[new].root, ~(Ask[r].units > Ask[new].units), Compatible(r, k)
    PROVE  \E s \in Waiting(queues, k) : Ask[s].root = Ask[new].root /\ NetScore(k, s) > NetScore(k, r)
<1> DEFINE S == Eligible(queues, k)
<1>1. S \subseteq Waiting(queues, k) /\ S \subseteq Request /\ new \in S
  BY DEF Grant, Eligible, Waiting
<1>2. r \in S
  <2>1. Ask[new].units <= Available(queues, k)
    BY DEF Grant, Eligible
  <2>2. Ask[r].units \in Nat /\ Ask[new].units \in Nat
    BY AskFacts DEF Waiting
  <2>3. Available(queues, k) \in Int
    BY MonusFacts, CapacityAssumption, KeyAssumption DEF Available, Lent, Borrowable, Key, TypeInv, LeasesTyped
  <2>4. Ask[r].units <= Available(queues, k)
    BY <2>1, <2>2, <2>3
  <2> QED
    BY <2>4 DEF Eligible
<1>3. IsFiniteSet(S)
  BY <1>1, WaitingFacts, FS_Subset DEF TypeInv
<1> HIDE DEF S
<1>4. Ahead(queues, k, S, "root", lastRoot[k], new, r)
  <2>1. IsSelected(queues, k, new)
    BY DEF Grant
  <2>2. r \in S \ Group(S, "root", new)
    BY <1>2 DEF Group
  <2> QED
    BY <2>1, <2>2 DEF IsSelected, S
<1>5. Best(k, S, new) > Best(k, S, r)
  BY <1>1, <1>2, <1>4, AheadFacts
<1>6. PICK s \in S : Ask[s].root = Ask[new].root /\ NetScore(k, s) = Best(k, S, new)
  BY <1>1, <1>3, BestFacts
<1>7. NetScore(k, r) <= Best(k, S, r) /\ Best(k, S, r) \in Int /\ Best(k, S, new) \in Int
  BY <1>1, <1>2, <1>3, BestFacts
<1>8. NetScore(k, s) > NetScore(k, r)
  BY <1>1, <1>2, <1>5, <1>6, <1>7, ScoreFacts
<1> QED
  BY <1>1, <1>6, <1>8

\* A root is granted twice in a row only for a better score than those it leaves
\* behind: ties pass the turn on, whatever the queues, the ages and the leases are
\* (select_fair_request, rotate_after).
THEOREM RootsTakeTurnsCorrect == Spec => RootsTakeTurns
<1>1. ASSUME TypeInv, CountInv, [Next]_resources, NEW k \in Key, NEW id \in LeaseId
      PROVE  TurnPassesOn(k, id)
  <2>0. LeasesTyped
    BY <1>1 DEF TypeInv
  <2>1. ASSUME active' = active PROVE TurnPassesOn(k, id)
    BY <2>1 DEF TurnPassesOn
  <2>2. ASSUME NEW j \in Key, GrantNext(j) PROVE TurnPassesOn(k, id)
    <3>1. CASE GrantNone(queues, j)
      BY <2>1, <3>1 DEF GrantNone
    <3>2. CASE \E r \in Waiting(queues, j), l \in LeaseId : Grant(queues, j, r, l)
      <4>1. PICK new \in Waiting(queues, j), l \in LeaseId : Grant(queues, j, new, l)
        BY <3>2
      <4>2. new \in Request /\ Ask[new].key = j /\ active' = [active EXCEPT ![l] = new]
        BY <4>1 DEF Grant, Waiting
      <4>3. CASE l = id /\ j = k /\ lastRoot[k] = Ask[new].root
        <5>1. active'[id] = new
          BY <2>0, <4>2, <4>3 DEF LeasesTyped
        <5>2. \A r \in Waiting(queues, k) \ expired :
                 \/ Ask[r].root = Ask[new].root
                 \/ Ask[r].units > Ask[new].units \/ ~Compatible(r, k)
                 \/ \E s \in Waiting(queues, k) :
                       Ask[s].root = Ask[new].root /\ NetScore(k, s) > NetScore(k, r)
          BY <1>1, <4>1, <4>2, <4>3, GrantPassesTheTurn
        <5> QED
          BY <5>1, <5>2 DEF TurnPassesOn
      <4>4. CASE l = id /\ ~(j = k /\ lastRoot[k] = Ask[new].root)
        <5>1. active'[id] = new
          BY <2>0, <4>2, <4>4 DEF LeasesTyped
        <5> QED
          BY <4>2, <4>4, <5>1 DEF TurnPassesOn
      <4>5. CASE l # id
        <5>1. active'[id] = active[id]
          BY <2>0, <4>2, <4>5 DEF LeasesTyped
        <5> QED
          BY <5>1 DEF TurnPassesOn
      <4> QED
        BY <4>3, <4>4, <4>5
    <3> QED
      BY <2>2, <3>1, <3>2 DEF GrantNext
  <2>3. ASSUME NEW l \in LeaseId, Release(l) PROVE TurnPassesOn(k, id)
    <3>1. active'[id] = NoLease \/ active'[id] = active[id]
      BY <2>0, <2>3 DEF Release, ReleaseLease, LeasesTyped
    <3> QED
      BY <3>1 DEF TurnPassesOn
  <2>4. CASE \E r \in Request : Enqueue(r)
    BY <2>1, <2>4 DEF Enqueue
  <2>5. CASE \E t \in Task : CancelTaskRequests(t)
    BY <2>1, <2>5 DEF CancelTaskRequests
  <2>6. CASE \E j \in Key : Age(j)
    BY <2>1, <2>6 DEF Age
  <2>7. CASE \E r \in Request : Expire(r)
    BY <2>1, <2>7 DEF Expire
  <2>8. CASE UNCHANGED resources
    BY <2>1, <2>8 DEF resources
  <2> QED
    BY <1>1, <2>2, <2>3, <2>4, <2>5, <2>6, <2>7, <2>8 DEF Next
<1>2. TypeInv /\ CountInv /\ [Next]_resources => [\A k \in Key, id \in LeaseId : TurnPassesOn(k, id)]_resources
  BY <1>1
<1> QED
  BY <1>2, TypeInvariant, CountInvariant, PTL DEF Spec, RootsTakeTurns, TurnPassesOn
=============================================================================
