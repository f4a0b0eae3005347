----------------------------- MODULE CompilerProofs ----------------------------
(***************************************************************************)
(* Proofs about the compiler, for every set of calls: what the walk over   *)
(* the included files composes, and what the phases after it can rely on.  *)
(***************************************************************************)
EXTENDS Compiler, FiniteSetTheorems, SequenceTheorems, WellFoundedInduction, TLAPS

--------------------------------------------------------------------------------
\* The walk over the included files: the inductive invariant.

Opening == {stack[i].path : i \in DOMAIN stack}
\* The files that are done with: merged into the frame of a file that includes them.
Finished == loaded \ Opening

\* The frames lead from the root along the include each of them is at.
StackInv ==
    /\ IsList(stack)
    /\ stack # <<>> => stack[1].path = Root
    /\ loaded \subseteq DOMAIN sources \cap Reachable
    /\ \A i \in DOMAIN stack :
          /\ DOMAIN stack[i] = {"path", "next", "includes", "composed"}
          /\ stack[i].path \in loaded
          /\ stack[i].includes = Opened(stack[i].path).includes
          /\ stack[i].next \in 1..(Len(stack[i].includes) + 1)
          /\ ~Bare(stack[i].path) => DOMAIN stack[i].composed = Kinds \cup {"tenant", "configured"}
          /\ i < Len(stack) => /\ stack[i].next <= Len(stack[i].includes)
                               /\ stack[i].includes[stack[i].next] = stack[i + 1].path
    /\ \A i, j \in DOMAIN stack : stack[i].path = stack[j].path => i = j

\* What a finished file includes is finished, and so is what a frame has passed.
Circular(path) == path \in Reach(IncludesOf(path))
FinishedInv ==
    /\ \A p \in Finished : IncludesOf(p) \subseteq Finished /\ ~Circular(p)
    /\ \A i \in DOMAIN stack : \A j \in 1..(stack[i].next - 1) : stack[i].includes[j] \in Finished

TenantOf(path) == sources[path].system.tenant

\* A tenant that was named is that of a frame, where it meets those to come.
TenantInv ==
    /\ \A i \in DOMAIN stack : ~Bare(stack[i].path) =>
          TenantOf(stack[i].path) \in {None, stack[i].composed.tenant}
    /\ \A p \in Finished : ~Bare(p) =>
          \E i \in DOMAIN stack : /\ ~Bare(stack[i].path)
                                 /\ TenantOf(p) \in {None, stack[i].composed.tenant}

\* The places (number of the list, place in it) of a value in a row of lists.
Spots(lists, x) ==
    {s \in UNION {{i} \X DOMAIN lists[i] : i \in DOMAIN lists} : lists[s[1]][s[2]] = x}
Sooner(s, t) == s[1] < t[1] \/ (s[1] = t[1] /\ s[2] < t[2])

\* The lists hold what the files that are done own, all of it and once, and
\* what a file includes sooner than its own.
Laid(lists, done, own, inc) ==
    /\ \A i \in DOMAIN lists : IsList(lists[i])
    /\ \A i \in DOMAIN lists : Elements(lists[i]) \subseteq UNION {Elements(own[p]) : p \in done}
    /\ \A p \in done : \A x \in Elements(own[p]) :
          /\ Spots(lists, x) # {}
          /\ \A s, t \in Spots(lists, x) : s = t
          /\ \A q \in inc[p] : \A y \in Elements(own[q]) :
                \A s \in Spots(lists, x), t \in Spots(lists, y) : Sooner(t, s)

OwnOf(k) == [p \in DOMAIN sources |-> Own(p, k)]
IncludeMap == [p \in DOMAIN sources |-> IncludesOf(p)]
\* What the frames hold of a kind; a bare file has nothing to hold.
Held(k) == [i \in DOMAIN stack |-> IF Bare(stack[i].path) THEN <<>> ELSE stack[i].composed[k]]
HeldInv(k) == Laid(Held(k), Finished, OwnOf(k), IncludeMap)

FromJob == \E job \in Jobs : sources = job.sources
LoadInv == StackInv /\ FinishedInv /\ TenantInv /\ \A k \in Kinds : HeldInv(k)

\* The system when the walk is over.
HeldAtEnd(k) == Laid(<<system[k]>>, loaded, OwnOf(k), IncludeMap)
ComposedInv ==
    /\ loaded = Reachable /\ loaded \subseteq DOMAIN sources
    /\ \A p \in loaded : ~Circular(p)
    /\ \A p \in loaded : ~Bare(p) => TenantOf(p) \in {None, system.tenant}
    /\ \A k \in Kinds : HeldAtEnd(k)

WalkInv ==
    /\ FromJob
    /\ phase = "load" => LoadInv
    /\ phase \in {"validate", "lower", "contract"} => ComposedInv

--------------------------------------------------------------------------------
\* Lists.

\* The places of a list are numbers from one on.
LEMMA ListRange ==
    ASSUME NEW s, IsList(s)
    PROVE  Len(s) \in Nat /\ DOMAIN s = 1..Len(s)
  BY DEF IsList

\* Whatever set its values come from, a sequence is a list of what it holds.
LEMMA ListIn ==
    ASSUME NEW T, NEW s \in Seq(T)
    PROVE  IsList(s)
<1>1. Len(s) \in Nat /\ s \in [1..Len(s) -> T]
    BY LenProperties
<1>2. \A i \in 1..Len(s) : s[i] \in Elements(s)
    BY <1>1 DEF Elements
<1>3. s \in [1..Len(s) -> Elements(s)]
    BY <1>1, <1>2
<1>4. QED
    BY <1>1, <1>3, SeqDef DEF IsList

\* Nothing is a list.
LEMMA EmptyList == IsList(<<>>) /\ Len(<<>>) = 0
<1>1. <<>> \in Seq({1}) /\ Len(<<>>) = 0
    BY EmptySeq
<1>2. QED
    BY <1>1, ListIn

\* What the root alone composes is one list.
LEMMA OneList ==
    ASSUME NEW x
    PROVE  IsList(<<x>>) /\ Len(<<x>>) = 1 /\ <<x>>[1] = x
<1>1. <<x>> \in Seq({x})
    OBVIOUS
<1>2. QED
    BY <1>1, ListIn

\* A list one longer, as the stack is when an include is opened.
LEMMA AppendList ==
    ASSUME NEW s, IsList(s), NEW x
    PROVE  /\ IsList(Append(s, x))
           /\ Len(Append(s, x)) = Len(s) + 1
           /\ \A i \in 1..Len(s) : Append(s, x)[i] = s[i]
           /\ Append(s, x)[Len(s) + 1] = x
<1> DEFINE T == Elements(s) \cup {x}
<1>1. s \in Seq(T) /\ x \in T
    BY DEF IsList
<1> HIDE DEF T
<1>2. /\ Append(s, x) \in Seq(T)
      /\ Len(Append(s, x)) = Len(s) + 1
      /\ \A i \in 1..Len(s) : Append(s, x)[i] = s[i]
      /\ Append(s, x)[Len(s) + 1] = x
    BY <1>1, AppendProperties
<1>3. IsList(Append(s, x))
    BY <1>2, ListIn
<1>4. QED
    BY <1>2, <1>3

\* One list behind another, as append_system_members puts them.
LEMMA ConcatList ==
    ASSUME NEW s, NEW t, IsList(s), IsList(t)
    PROVE  /\ IsList(s \o t)
           /\ Len(s \o t) = Len(s) + Len(t)
           /\ \A i \in 1..Len(s) : (s \o t)[i] = s[i]
           /\ \A i \in 1..Len(t) : (s \o t)[Len(s) + i] = t[i]
<1> DEFINE T == Elements(s) \cup Elements(t)
<1>1. s \in Seq(T) /\ t \in Seq(T)
    BY DEF IsList
<1> HIDE DEF T
<1>2. /\ s \o t \in Seq(T)
      /\ Len(s \o t) = Len(s) + Len(t)
      /\ \A i \in 1..(Len(s) + Len(t)) :
            (s \o t)[i] = IF i <= Len(s) THEN s[i] ELSE t[i - Len(s)]
    BY <1>1, ConcatProperties
<1>3. IsList(s \o t)
    BY <1>2, ListIn
<1>4. Len(s) \in Nat /\ Len(t) \in Nat
    BY ListRange
<1>5. QED
    BY <1>2, <1>3, <1>4

\* A list without its last, as the stack is when an include is closed.
LEMMA FrontList ==
    ASSUME NEW s, IsList(s), Len(s) > 0
    PROVE  /\ IsList(SubSeq(s, 1, Len(s) - 1))
           /\ Len(SubSeq(s, 1, Len(s) - 1)) = Len(s) - 1
           /\ \A i \in 1..(Len(s) - 1) : SubSeq(s, 1, Len(s) - 1)[i] = s[i]
<1> DEFINE T == Elements(s)
<1>1. s \in Seq(T) /\ Len(s) \in Nat
    BY DEF IsList
<1> HIDE DEF T
<1> DEFINE n == Len(s) - 1
<1>2. n \in Nat /\ \A i \in 1..n : s[i] \in T
    BY <1>1, ElementOfSeq
<1> HIDE DEF n
<1>3. /\ SubSeq(s, 1, n) \in Seq(T)
      /\ Len(SubSeq(s, 1, n)) = IF 1 <= n THEN n - 1 + 1 ELSE 0
      /\ \A i \in 1..(n - 1 + 1) : SubSeq(s, 1, n)[i] = s[1 + i - 1]
    BY <1>2, SubSeqProperties
<1>4. IsList(SubSeq(s, 1, n))
    BY <1>3, ListIn
<1>5. n - 1 + 1 = n /\ \A i \in 1..n : 1 + i - 1 = i
    BY <1>2
<1>6. /\ Len(SubSeq(s, 1, n)) = n
      /\ \A i \in 1..n : SubSeq(s, 1, n)[i] = s[i]
    BY <1>2, <1>3, <1>5
<1>7. QED
    BY <1>4, <1>6 DEF n

Replaced(s, i, x) == [s EXCEPT ![i] = x]

\* A list with one place replaced, as the frame at the top is.
LEMMA ReplacedList ==
    ASSUME NEW s, IsList(s), NEW i \in 1..Len(s), NEW x
    PROVE  /\ IsList(Replaced(s, i, x))
           /\ Len(Replaced(s, i, x)) = Len(s)
           /\ \A j \in 1..Len(s) : Replaced(s, i, x)[j] = IF j = i THEN x ELSE s[j]
<1> DEFINE T == Elements(s) \cup {x}
<1>1. s \in Seq(T) /\ x \in T
    BY DEF IsList
<1> HIDE DEF T
<1>2. /\ [s EXCEPT ![i] = x] \in Seq(T)
      /\ Len([s EXCEPT ![i] = x]) = Len(s)
      /\ \A j \in 1..Len(s) : [s EXCEPT ![i] = x][j] = IF j = i THEN x ELSE s[j]
    BY <1>1, ExceptSeq
<1>3. IsList([s EXCEPT ![i] = x])
    BY <1>2, ListIn
<1>4. QED
    BY <1>2, <1>3 DEF Replaced

--------------------------------------------------------------------------------
\* Rows of lists.

\* A declaration has one place in one file.
Apart(own) ==
    \A p, q \in DOMAIN own : \A c \in DOMAIN own[p], d \in DOMAIN own[q] :
        own[p][c] = own[q][d] => p = q /\ c = d

Longer(lists, n, more) == [lists EXCEPT ![n] = lists[n] \o more]

\* A value is where it stands.
LEMMA SpotIs ==
    ASSUME NEW lists, NEW x, NEW i \in DOMAIN lists, NEW a \in DOMAIN lists[i], lists[i][a] = x
    PROVE  <<i, a>> \in Spots(lists, x)
  BY DEF Spots

\* Where a value stands is a place in one of the lists.
LEMMA SpotHas ==
    ASSUME NEW lists, NEW x, NEW s \in Spots(lists, x)
    PROVE  /\ s[1] \in DOMAIN lists /\ s[2] \in DOMAIN lists[s[1]]
           /\ lists[s[1]][s[2]] = x
           /\ s = <<s[1], s[2]>>
  BY DEF Spots

\* One list longer by those of a file that was not done: what is done keeps its
\* spots, and what the file owns is behind the list's old end.
LEMMA LongerSpots ==
    ASSUME NEW lists, NEW n \in DOMAIN lists, IsList(lists[n]), NEW own, IsList(own),
           NEW longer, longer = Longer(lists, n, own), NEW x
    PROVE  /\ Spots(lists, x) \subseteq Spots(longer, x)
           /\ \A c \in DOMAIN own : own[c] = x => <<n, Len(lists[n]) + c>> \in Spots(longer, x)
           /\ \A s \in Spots(longer, x) \ Spots(lists, x) :
                 \E c \in DOMAIN own : own[c] = x /\ s = <<n, Len(lists[n]) + c>>
<1>1. /\ Len(lists[n]) \in Nat /\ DOMAIN lists[n] = 1..Len(lists[n])
      /\ Len(own) \in Nat /\ DOMAIN own = 1..Len(own)
    BY ListRange
<1>2. /\ DOMAIN longer = DOMAIN lists
      /\ longer[n] = lists[n] \o own
      /\ \A i \in DOMAIN lists \ {n} : longer[i] = lists[i]
    BY DEF Longer
<1>3. /\ IsList(longer[n])
      /\ Len(longer[n]) = Len(lists[n]) + Len(own)
      /\ \A a \in 1..Len(lists[n]) : longer[n][a] = lists[n][a]
      /\ \A c \in 1..Len(own) : longer[n][Len(lists[n]) + c] = own[c]
    BY <1>2, ConcatList
<1>4. DOMAIN longer[n] = 1..(Len(lists[n]) + Len(own))
    BY <1>3, ListRange
<1>5. ASSUME NEW s \in Spots(lists, x)
      PROVE  s \in Spots(longer, x)
  <2>1. /\ s[1] \in DOMAIN lists /\ s[2] \in DOMAIN lists[s[1]]
        /\ lists[s[1]][s[2]] = x /\ s = <<s[1], s[2]>>
    BY SpotHas
  <2>2. s[2] \in DOMAIN longer[s[1]] /\ longer[s[1]][s[2]] = x
    BY <1>1, <1>2, <1>3, <1>4, <2>1
  <2>3. <<s[1], s[2]>> \in Spots(longer, x)
    BY <1>2, <2>1, <2>2, SpotIs
  <2>4. QED
    BY <2>1, <2>3
<1>6. ASSUME NEW c \in DOMAIN own, own[c] = x
      PROVE  <<n, Len(lists[n]) + c>> \in Spots(longer, x)
  <2>1. Len(lists[n]) + c \in DOMAIN longer[n] /\ longer[n][Len(lists[n]) + c] = x
    BY <1>1, <1>3, <1>4, <1>6
  <2>2. QED
    BY <1>2, <2>1, SpotIs
<1>7. ASSUME NEW s \in Spots(longer, x), s \notin Spots(lists, x)
      PROVE  \E c \in DOMAIN own : own[c] = x /\ s = <<n, Len(lists[n]) + c>>
  <2>1. /\ s[1] \in DOMAIN longer /\ s[2] \in DOMAIN longer[s[1]]
        /\ longer[s[1]][s[2]] = x /\ s = <<s[1], s[2]>>
    BY SpotHas
  <2>2. ~(s[2] \in DOMAIN lists[s[1]] /\ lists[s[1]][s[2]] = x)
    BY <1>2, <1>7, <2>1, SpotIs
  <2>3. s[1] = n
    BY <1>2, <2>1, <2>2
  <2>4. s[2] \in 1..(Len(lists[n]) + Len(own)) /\ s[2] \notin 1..Len(lists[n])
    BY <1>1, <1>3, <1>4, <2>1, <2>2, <2>3
  <2>5. PICK c \in 1..Len(own) : s[2] = Len(lists[n]) + c
    <3>1. s[2] - Len(lists[n]) \in 1..Len(own) /\ s[2] = Len(lists[n]) + (s[2] - Len(lists[n]))
      BY <1>1, <2>4
    <3>2. QED
      BY <3>1
  <2>6. own[c] = x
    BY <1>3, <2>1, <2>3, <2>5
  <2>7. QED
    BY <1>1, <2>1, <2>3, <2>5, <2>6
<1>8. QED
    BY <1>5, <1>6, <1>7

\* A file that is done is laid behind what it includes.
LEMMA LaidLonger ==
    ASSUME NEW lists, NEW n \in Nat, n > 0, DOMAIN lists = 1..n,
           NEW own, NEW inc, NEW done \in SUBSET DOMAIN own, NEW p \in DOMAIN own \ done,
           Apart(own), IsList(own[p]), inc[p] \subseteq done,
           \A q \in done : inc[q] \subseteq done,
           Laid(lists, done, own, inc),
           NEW longer, longer = Longer(lists, n, own[p])
    PROVE  Laid(longer, done \cup {p}, own, inc)
<1>1. n \in DOMAIN lists /\ IsList(lists[n]) /\ \A i \in DOMAIN lists : IsList(lists[i])
    BY DEF Laid
<1>2. /\ DOMAIN longer = DOMAIN lists
      /\ longer[n] = lists[n] \o own[p]
      /\ \A i \in DOMAIN lists \ {n} : longer[i] = lists[i]
    BY <1>1 DEF Longer
<1>2a. ASSUME NEW x
      PROVE  /\ Spots(lists, x) \subseteq Spots(longer, x)
             /\ \A c \in DOMAIN own[p] :
                   own[p][c] = x => <<n, Len(lists[n]) + c>> \in Spots(longer, x)
             /\ \A s \in Spots(longer, x) \ Spots(lists, x) :
                   \E c \in DOMAIN own[p] : own[p][c] = x /\ s = <<n, Len(lists[n]) + c>>
    BY <1>1, LongerSpots
<1>3. /\ IsList(longer[n])
      /\ Len(longer[n]) = Len(lists[n]) + Len(own[p])
      /\ \A a \in 1..Len(lists[n]) : longer[n][a] = lists[n][a]
      /\ \A c \in 1..Len(own[p]) : longer[n][Len(lists[n]) + c] = own[p][c]
    BY <1>1, <1>2, ConcatList
<1>4. /\ Len(lists[n]) \in Nat /\ DOMAIN lists[n] = 1..Len(lists[n])
      /\ Len(own[p]) \in Nat /\ DOMAIN own[p] = 1..Len(own[p])
      /\ DOMAIN longer[n] = 1..(Len(lists[n]) + Len(own[p]))
    BY <1>1, <1>3, ListRange
<1>5. \A i \in DOMAIN longer : IsList(longer[i])
    BY <1>1, <1>2, <1>3
\* What is done already is not the file's own.
<1>6. ASSUME NEW q \in done, NEW x \in Elements(own[q])
      PROVE  x \notin Elements(own[p])
    BY DEF Apart, Elements
<1>7. ASSUME NEW x \in Elements(own[p])
      PROVE  Spots(lists, x) = {}
  <2> SUFFICES ASSUME NEW s \in Spots(lists, x)
               PROVE  FALSE
    OBVIOUS
  <2>1. s[1] \in DOMAIN lists /\ x \in Elements(lists[s[1]])
    BY SpotHas DEF Elements
  <2>2. PICK q \in done : x \in Elements(own[q])
    BY <2>1 DEF Laid
  <2>3. QED
    BY <1>6, <2>2
<1>8. ASSUME NEW q \in done, NEW x \in Elements(own[q])
      PROVE  Spots(longer, x) = Spots(lists, x)
  <2>1. \A c \in DOMAIN own[p] : own[p][c] # x
    BY <1>6 DEF Elements
  <2>2. QED
    BY <1>2a, <2>1
<1>9. ASSUME NEW i \in DOMAIN longer
      PROVE  Elements(longer[i]) \subseteq UNION {Elements(own[q]) : q \in done \cup {p}}
  <2>1. Elements(lists[i]) \subseteq UNION {Elements(own[q]) : q \in done}
    BY <1>2 DEF Laid
  <2>2. CASE i # n
    BY <1>2, <2>1, <2>2
  <2>3. CASE i = n
    <3> SUFFICES ASSUME NEW a \in DOMAIN longer[n]
                 PROVE  longer[n][a] \in Elements(lists[n]) \cup Elements(own[p])
      <4>1. Elements(lists[n]) \cup Elements(own[p])
               \subseteq UNION {Elements(own[q]) : q \in done \cup {p}}
        BY <2>1, <2>3
      <4>2. Elements(longer[n]) = {longer[n][a] : a \in DOMAIN longer[n]}
        BY DEF Elements
      <4>3. QED
        BY <2>3, <4>1, <4>2
    <3>1. CASE a \in 1..Len(lists[n])
      BY <1>3, <1>4, <3>1 DEF Elements
    <3>2. CASE a \notin 1..Len(lists[n])
      <4>1. a - Len(lists[n]) \in 1..Len(own[p]) /\ a = Len(lists[n]) + (a - Len(lists[n]))
        BY <1>4, <3>2
      <4>2. longer[n][a] = own[p][a - Len(lists[n])]
        BY <1>3, <4>1
      <4>3. QED
        BY <1>4, <4>1, <4>2 DEF Elements
    <3>3. QED
      BY <3>1, <3>2
  <2>4. QED
    BY <2>2, <2>3
<1>10. ASSUME NEW q \in done, NEW x \in Elements(own[q])
       PROVE  /\ Spots(longer, x) # {}
              /\ \A s, t \in Spots(longer, x) : s = t
              /\ \A r \in inc[q] : \A y \in Elements(own[r]) :
                    \A s \in Spots(longer, x), t \in Spots(longer, y) : Sooner(t, s)
  <2>1. Spots(longer, x) = Spots(lists, x)
    BY <1>8
  <2>2. \A r \in inc[q] : \A y \in Elements(own[r]) : Spots(longer, y) = Spots(lists, y)
    BY <1>8
  <2>3. QED
    BY <2>1, <2>2 DEF Laid
<1>11. ASSUME NEW x \in Elements(own[p])
       PROVE  /\ Spots(longer, x) # {}
              /\ \A s, t \in Spots(longer, x) : s = t
              /\ \A r \in inc[p] : \A y \in Elements(own[r]) :
                    \A s \in Spots(longer, x), t \in Spots(longer, y) : Sooner(t, s)
  <2>1. PICK c \in DOMAIN own[p] : own[p][c] = x
    BY DEF Elements
  <2>2. \A d \in DOMAIN own[p] : own[p][d] = x => d = c
    BY <2>1 DEF Apart
  <2>3. <<n, Len(lists[n]) + c>> \in Spots(longer, x)
    BY <1>2a, <2>1
  <2>4. \A s \in Spots(longer, x) : s = <<n, Len(lists[n]) + c>>
    BY <1>2a, <1>7, <2>2
  <2>5. ASSUME NEW r \in inc[p], NEW y \in Elements(own[r]), NEW t \in Spots(longer, y)
        PROVE  Sooner(t, <<n, Len(lists[n]) + c>>)
    <3>1. t \in Spots(lists, y)
      BY <1>8, <2>5
    <3>2. t[1] \in 1..n /\ t[2] \in DOMAIN lists[t[1]]
      BY <3>1, SpotHas
    <3>3. t[1] = n => t[2] < Len(lists[n]) + c
      BY <1>4, <3>2
    <3>4. QED
      BY <3>2, <3>3 DEF Sooner
  <2>6. QED
    BY <2>3, <2>4, <2>5
<1>12. QED
    BY <1>5, <1>9, <1>10, <1>11 DEF Laid

\* The last two lists become one.
Joined(lists, n) ==
    [i \in 1..(n - 1) |-> IF i = n - 1 THEN lists[n - 1] \o lists[n] ELSE lists[i]]
Moved(lists, n, s) == IF s[1] = n THEN <<n - 1, Len(lists[n - 1]) + s[2]>> ELSE s

IsJoin(lists, n, join) ==
    /\ DOMAIN join = 1..(n - 1)
    /\ \A i \in 1..(n - 1) : IsList(join[i])
    /\ \A i \in 1..(n - 1) : i # n - 1 => join[i] = lists[i]
    /\ DOMAIN join[n - 1] = 1..(Len(lists[n - 1]) + Len(lists[n]))
    /\ \A a \in 1..Len(lists[n - 1]) : join[n - 1][a] = lists[n - 1][a]
    /\ \A a \in 1..Len(lists[n]) : join[n - 1][Len(lists[n - 1]) + a] = lists[n][a]

\* The last list goes behind the one before it.
LEMMA JoinedIs ==
    ASSUME NEW lists, NEW n \in Nat, n > 1, DOMAIN lists = 1..n, \A i \in 1..n : IsList(lists[i])
    PROVE  IsJoin(lists, n, Joined(lists, n))
<1> DEFINE left == lists[n - 1]
           right == lists[n]
           join == Joined(lists, n)
<1>1. n - 1 \in 1..n /\ n \in 1..n /\ n - 1 \in 1..(n - 1)
    OBVIOUS
<1>2. IsList(left) /\ IsList(right)
    BY <1>1
<1>3. /\ DOMAIN join = 1..(n - 1)
      /\ join[n - 1] = left \o right
      /\ \A i \in 1..(n - 1) : i # n - 1 => join[i] = lists[i]
    BY <1>1 DEF Joined
<1> HIDE DEF left, right, join
<1>4. /\ IsList(left \o right)
      /\ Len(left \o right) = Len(left) + Len(right)
      /\ \A a \in 1..Len(left) : (left \o right)[a] = left[a]
      /\ \A a \in 1..Len(right) : (left \o right)[Len(left) + a] = right[a]
    BY <1>2, ConcatList
<1>5. DOMAIN (left \o right) = 1..(Len(left) + Len(right))
    BY <1>4, ListRange
<1>6. ASSUME NEW i \in 1..(n - 1)
      PROVE  IsList(join[i])
  <2>1. i \in 1..n
    OBVIOUS
  <2>2. QED
    BY <1>3, <1>4, <2>1
<1>7. /\ DOMAIN join[n - 1] = 1..(Len(left) + Len(right))
      /\ \A a \in 1..Len(left) : join[n - 1][a] = left[a]
      /\ \A a \in 1..Len(right) : join[n - 1][Len(left) + a] = right[a]
    BY <1>3, <1>4, <1>5
<1>8. QED
    BY <1>3, <1>6, <1>7 DEF IsJoin, left, right, join

\* Every spot moves, and every spot has been moved.
LEMMA JoinedSpots ==
    ASSUME NEW lists, NEW n \in Nat, n > 1, DOMAIN lists = 1..n, \A i \in 1..n : IsList(lists[i]),
           NEW x
    PROVE  Spots(Joined(lists, n), x) = {Moved(lists, n, s) : s \in Spots(lists, x)}
<1> DEFINE J == Joined(lists, n)
           m == Len(lists[n - 1])
<1>1. /\ DOMAIN J = 1..(n - 1)
      /\ \A i \in 1..(n - 1) : i # n - 1 => J[i] = lists[i]
      /\ DOMAIN J[n - 1] = 1..(m + Len(lists[n]))
      /\ \A a \in 1..m : J[n - 1][a] = lists[n - 1][a]
      /\ \A a \in 1..Len(lists[n]) : J[n - 1][m + a] = lists[n][a]
  <2>1. IsJoin(lists, n, J)
    BY JoinedIs
  <2> HIDE DEF J
  <2>2. QED
    BY <2>1 DEF IsJoin
<1>2. n - 1 \in 1..n /\ n \in 1..n /\ n - 1 \in 1..(n - 1)
    OBVIOUS
<1>3. /\ m \in Nat /\ DOMAIN lists[n - 1] = 1..m
      /\ Len(lists[n]) \in Nat /\ DOMAIN lists[n] = 1..Len(lists[n])
    BY <1>2, ListRange
<1> HIDE DEF J, m
<1>4. ASSUME NEW s \in Spots(lists, x)
      PROVE  Moved(lists, n, s) \in Spots(J, x)
  <2>1. /\ s[1] \in 1..n /\ s[2] \in DOMAIN lists[s[1]]
        /\ lists[s[1]][s[2]] = x /\ s = <<s[1], s[2]>>
    BY SpotHas
  <2>2. CASE s[1] = n
    <3>1. m + s[2] \in DOMAIN J[n - 1] /\ J[n - 1][m + s[2]] = x
      BY <1>1, <1>3, <2>1, <2>2
    <3>2. <<n - 1, m + s[2]>> \in Spots(J, x)
      BY <1>1, <1>2, <3>1, SpotIs
    <3>3. QED
      BY <2>2, <3>2 DEF Moved, m
  <2>3. CASE s[1] = n - 1
    <3>1. s[2] \in DOMAIN J[n - 1] /\ J[n - 1][s[2]] = x
      BY <1>1, <1>3, <2>1, <2>3
    <3>2. <<n - 1, s[2]>> \in Spots(J, x)
      BY <1>1, <1>2, <3>1, SpotIs
    <3>3. QED
      BY <2>1, <2>3, <3>2 DEF Moved
  <2>4. CASE s[1] < n - 1
    <3>1. s[1] \in 1..(n - 1) /\ s[1] # n - 1 /\ s[1] # n
      BY <2>1, <2>4
    <3>2. s[2] \in DOMAIN J[s[1]] /\ J[s[1]][s[2]] = x
      BY <1>1, <2>1, <3>1
    <3>3. <<s[1], s[2]>> \in Spots(J, x)
      BY <1>1, <3>1, <3>2, SpotIs
    <3>4. QED
      BY <2>1, <3>1, <3>3 DEF Moved
  <2>5. QED
    BY <2>1, <2>2, <2>3, <2>4
<1>5. ASSUME NEW t \in Spots(J, x)
      PROVE  \E s \in Spots(lists, x) : t = Moved(lists, n, s)
  <2>1. /\ t[1] \in 1..(n - 1) /\ t[2] \in DOMAIN J[t[1]]
        /\ J[t[1]][t[2]] = x /\ t = <<t[1], t[2]>>
    BY <1>1, SpotHas
  <2>2. CASE t[1] # n - 1
    <3>1. t[1] \in 1..n /\ t[1] # n
      BY <2>1
    <3>2. t[2] \in DOMAIN lists[t[1]] /\ lists[t[1]][t[2]] = x
      BY <1>1, <2>1, <2>2
    <3>3. <<t[1], t[2]>> \in Spots(lists, x)
      BY <3>1, <3>2, SpotIs
    <3>4. QED
      BY <2>1, <3>1, <3>3 DEF Moved
  <2>3. CASE t[1] = n - 1 /\ t[2] <= m
    <3>1. t[2] \in 1..m
      BY <1>1, <1>3, <2>1, <2>3
    <3>2. lists[n - 1][t[2]] = x
      BY <1>1, <2>1, <2>3, <3>1
    <3>3. <<n - 1, t[2]>> \in Spots(lists, x)
      BY <1>2, <1>3, <3>1, <3>2, SpotIs
    <3>4. Moved(lists, n, <<n - 1, t[2]>>) = t
      BY <2>1, <2>3 DEF Moved
    <3>5. QED
      BY <3>3, <3>4
  <2>4. CASE t[1] = n - 1 /\ ~(t[2] <= m)
    <3>1. t[2] - m \in 1..Len(lists[n]) /\ t[2] = m + (t[2] - m)
      BY <1>1, <1>3, <2>1, <2>4
    <3>2. lists[n][t[2] - m] = x
      BY <1>1, <2>1, <2>4, <3>1
    <3>3. <<n, t[2] - m>> \in Spots(lists, x)
      BY <1>2, <1>3, <3>1, <3>2, SpotIs
    <3>4. Moved(lists, n, <<n, t[2] - m>>) = t
      BY <2>1, <2>4, <3>1 DEF Moved, m
    <3>5. QED
      BY <3>3, <3>4
  <2>5. QED
    BY <2>2, <2>3, <2>4
<1>6. QED
    BY <1>4, <1>5 DEF J

\* Joining the last two lists keeps what comes sooner sooner.
LEMMA MovedKeepsOrder ==
    ASSUME NEW lists, NEW n \in Nat, n > 1, DOMAIN lists = 1..n, \A i \in 1..n : IsList(lists[i]),
           NEW x, NEW y, NEW s \in Spots(lists, x), NEW t \in Spots(lists, y), Sooner(t, s)
    PROVE  Sooner(Moved(lists, n, t), Moved(lists, n, s))
<1> DEFINE m == Len(lists[n - 1])
<1>1. n - 1 \in 1..n
    OBVIOUS
<1>2. m \in Nat /\ DOMAIN lists[n - 1] = 1..m
    BY <1>1, ListRange
<1>3. s[1] \in 1..n /\ s[2] \in DOMAIN lists[s[1]] /\ t[1] \in 1..n /\ t[2] \in DOMAIN lists[t[1]]
    BY SpotHas
<1>4. s[2] \in Nat \ {0} /\ t[2] \in Nat \ {0}
  <2>1. DOMAIN lists[s[1]] = 1..Len(lists[s[1]]) /\ DOMAIN lists[t[1]] = 1..Len(lists[t[1]])
    BY <1>3, ListRange
  <2>2. s[2] \in 1..Len(lists[s[1]]) /\ t[2] \in 1..Len(lists[t[1]])
    BY <1>3, <2>1
  <2>3. \A k : \A a \in 1..k : a \in Nat \ {0}
    OBVIOUS
  <2>4. QED
    BY <2>2, <2>3
<1> HIDE DEF m
<1>5. CASE s[1] = n /\ t[1] = n
  <2>1. t[2] < s[2]
    BY <1>3, <1>5 DEF Sooner
  <2>2. Moved(lists, n, t) = <<n - 1, m + t[2]>> /\ Moved(lists, n, s) = <<n - 1, m + s[2]>>
    BY <1>5 DEF Moved, m
  <2>3. QED
    BY <1>2, <1>4, <2>1, <2>2 DEF Sooner
<1>6. CASE s[1] = n /\ t[1] = n - 1
  <2>1. t[2] <= m
    BY <1>2, <1>3, <1>6
  <2>2. Moved(lists, n, t) = t /\ Moved(lists, n, s) = <<n - 1, m + s[2]>>
    BY <1>6 DEF Moved, m
  <2>3. QED
    BY <1>2, <1>4, <1>6, <2>1, <2>2 DEF Sooner
<1>7. CASE s[1] = n /\ t[1] < n - 1
  <2>1. Moved(lists, n, t) = t /\ Moved(lists, n, s) = <<n - 1, m + s[2]>>
    BY <1>7 DEF Moved, m
  <2>2. QED
    BY <1>7, <2>1 DEF Sooner
<1>8. CASE s[1] # n
  <2>1. t[1] # n
    BY <1>3, <1>8 DEF Sooner
  <2>2. Moved(lists, n, t) = t /\ Moved(lists, n, s) = s
    BY <1>8, <2>1 DEF Moved
  <2>3. QED
    BY <2>2
<1>9. QED
    BY <1>3, <1>5, <1>6, <1>7, <1>8

\* Declarations merged into the frame below stay laid out as they were.
LEMMA LaidJoined ==
    ASSUME NEW lists, NEW n \in Nat, n > 1, DOMAIN lists = 1..n,
           NEW own, NEW inc, NEW done, Laid(lists, done, own, inc)
    PROVE  Laid(Joined(lists, n), done, own, inc)
<1>1. \A i \in 1..n : IsList(lists[i])
    BY DEF Laid
<1>2. /\ DOMAIN Joined(lists, n) = 1..(n - 1)
      /\ \A i \in 1..(n - 1) : IsList(Joined(lists, n)[i])
    BY <1>1, JoinedIs DEF IsJoin
<1>3. \A x : Spots(Joined(lists, n), x) = {Moved(lists, n, s) : s \in Spots(lists, x)}
    BY <1>1, JoinedSpots
<1>4. ASSUME NEW i \in DOMAIN Joined(lists, n), NEW x \in Elements(Joined(lists, n)[i])
      PROVE  x \in UNION {Elements(own[p]) : p \in done}
  <2>1. PICK a \in DOMAIN Joined(lists, n)[i] : Joined(lists, n)[i][a] = x
    BY DEF Elements
  <2>2. <<i, a>> \in Spots(Joined(lists, n), x)
    BY <2>1, SpotIs
  <2>3. PICK s \in Spots(lists, x) : TRUE
    BY <1>3, <2>2
  <2>4. s[1] \in DOMAIN lists /\ x \in Elements(lists[s[1]])
    BY SpotHas DEF Elements
  <2>5. QED
    BY <2>4 DEF Laid
<1>5. ASSUME NEW p \in done, NEW x \in Elements(own[p])
      PROVE  /\ Spots(Joined(lists, n), x) # {}
             /\ \A s, t \in Spots(Joined(lists, n), x) : s = t
             /\ \A q \in inc[p] : \A y \in Elements(own[q]) :
                   \A s \in Spots(Joined(lists, n), x), t \in Spots(Joined(lists, n), y) :
                      Sooner(t, s)
  <2>1. Spots(lists, x) # {} /\ \A s, t \in Spots(lists, x) : s = t
    BY DEF Laid
  <2>2. Spots(Joined(lists, n), x) # {} /\ \A s, t \in Spots(Joined(lists, n), x) : s = t
    BY <1>3, <2>1
  <2>3. ASSUME NEW q \in inc[p], NEW y \in Elements(own[q]),
               NEW s \in Spots(Joined(lists, n), x), NEW t \in Spots(Joined(lists, n), y)
        PROVE  Sooner(t, s)
    <3>1. PICK u \in Spots(lists, x) : s = Moved(lists, n, u)
      BY <1>3
    <3>2. PICK v \in Spots(lists, y) : t = Moved(lists, n, v)
      BY <1>3
    <3>3. Sooner(v, u)
      BY DEF Laid
    <3>4. QED
      BY <1>1, <3>1, <3>2, <3>3, MovedKeepsOrder
  <2>4. QED
    BY <2>2, <2>3
<1>6. QED
    BY <1>2, <1>4, <1>5 DEF Laid

\* An empty list more.
LEMMA LaidPushed ==
    ASSUME NEW lists, NEW n \in Nat, DOMAIN lists = 1..n, NEW own, NEW inc, NEW done,
           Laid(lists, done, own, inc),
           NEW pushed, DOMAIN pushed = 1..(n + 1), pushed[n + 1] = <<>>,
           \A i \in 1..n : pushed[i] = lists[i]
    PROVE  Laid(pushed, done, own, inc)
<1>1. DOMAIN <<>> = {} /\ IsList(<<>>)
    BY EmptyList
<1>2. \A x : Spots(pushed, x) = Spots(lists, x)
  <2> SUFFICES ASSUME NEW x
               PROVE  Spots(pushed, x) = Spots(lists, x)
    OBVIOUS
  <2>1. ASSUME NEW s \in Spots(pushed, x)
        PROVE  s \in Spots(lists, x)
    <3>1. /\ s[1] \in 1..(n + 1) /\ s[2] \in DOMAIN pushed[s[1]]
          /\ pushed[s[1]][s[2]] = x /\ s = <<s[1], s[2]>>
      BY SpotHas
    <3>2. s[1] # n + 1
      BY <1>1, <3>1
    <3>3. s[1] \in 1..n
      BY <3>1, <3>2
    <3>4. s[2] \in DOMAIN lists[s[1]] /\ lists[s[1]][s[2]] = x
      BY <3>1, <3>3
    <3>5. <<s[1], s[2]>> \in Spots(lists, x)
      BY <3>3, <3>4, SpotIs
    <3>6. QED
      BY <3>1, <3>5
  <2>2. ASSUME NEW s \in Spots(lists, x)
        PROVE  s \in Spots(pushed, x)
    <3>1. /\ s[1] \in 1..n /\ s[2] \in DOMAIN lists[s[1]]
          /\ lists[s[1]][s[2]] = x /\ s = <<s[1], s[2]>>
      BY SpotHas
    <3>2. s[1] \in 1..(n + 1) /\ pushed[s[1]] = lists[s[1]]
      BY <3>1
    <3>3. <<s[1], s[2]>> \in Spots(pushed, x)
      BY <3>1, <3>2, SpotIs
    <3>4. QED
      BY <3>1, <3>3
  <2>3. QED
    BY <2>1, <2>2
<1>3. ASSUME NEW i \in DOMAIN pushed
      PROVE  IsList(pushed[i]) /\ Elements(pushed[i]) \subseteq UNION {Elements(own[p]) : p \in done}
  <2>1. CASE i \in 1..n
    BY <2>1 DEF Laid
  <2>2. CASE i = n + 1
    BY <1>1, <2>2 DEF Elements
  <2>3. QED
    BY <2>1, <2>2
<1>4. QED
    BY <1>2, <1>3 DEF Laid

--------------------------------------------------------------------------------
\* The files.

\* What is assumed of the parser's output, for the files of this call.
LEMMA ParsedFiles ==
    ASSUME FromJob
    PROVE  Parsed(sources)
  BY JobsAssumption DEF FromJob

\* What the parser hands over of a file are lists.
LEMMA FileLists ==
    ASSUME FromJob, NEW p \in DOMAIN sources
    PROVE  /\ IsList(Opened(p).includes)
           /\ IncludesOf(p) = Elements(Opened(p).includes)
           /\ \A k \in Kinds : IsList(Own(p, k))
           /\ ~Bare(p) => DOMAIN sources[p].system = Kinds \cup {"tenant", "configured"}
<1>1. Parsed(sources)
    BY ParsedFiles
<1>2. IsList(sources[p].includes)
    BY <1>1 DEF Parsed
<1>3. ~Bare(p) => ParsedSystem(sources[p].system)
    BY <1>1 DEF Parsed, Bare
<1>4. Opened(p).includes = IF Bare(p) THEN <<>> ELSE sources[p].includes
    BY DEF Opened
<1>5. IsList(Opened(p).includes)
    BY <1>2, <1>4, EmptyList
<1>6. \A k \in Kinds : IsList(Own(p, k))
    BY <1>3, EmptyList DEF Own, ParsedSystem
<1>7. QED
    BY <1>3, <1>5, <1>6 DEF IncludesOf, ParsedSystem

\* No declaration of a file is one of another, or another of its own.
LEMMA OwnApart ==
    ASSUME FromJob, NEW k \in Kinds
    PROVE  Apart(OwnOf(k))
<1> SUFFICES ASSUME NEW p \in DOMAIN sources, NEW q \in DOMAIN sources,
                    NEW c \in DOMAIN Own(p, k), NEW d \in DOMAIN Own(q, k),
                    Own(p, k)[c] = Own(q, k)[d]
             PROVE  p = q /\ c = d
    BY DEF Apart, OwnOf
<1>1. DOMAIN <<>> = {}
    BY EmptyList
<1>2. ~Bare(p) /\ ~Bare(q)
    BY <1>1 DEF Own
<1>3. /\ Own(p, k) = sources[p].system[k] /\ Own(q, k) = sources[q].system[k]
      /\ sources[p].system # None /\ sources[q].system # None
    BY <1>2 DEF Own, Bare
<1>4. Parsed(sources)
    BY ParsedFiles
<1>5. QED
    BY <1>3, <1>4 DEF Parsed

--------------------------------------------------------------------------------
\* The include graph.

\* Files include paths that are named; a missing one includes nothing.
LEMMA IncludesNamed ==
    ASSUME NEW p
    PROVE  /\ IncludesOf(p) \subseteq NamedPaths
           /\ p \notin DOMAIN sources => IncludesOf(p) = {}
  BY DEF IncludesOf, NamedPaths

\* What is closed under inclusion is never left by following includes.
LEMMA ReachWithin ==
    ASSUME NEW closed, closed \subseteq NamedPaths, \A q \in closed : IncludesOf(q) \subseteq closed,
           NEW paths, paths \subseteq closed
    PROVE  Reach(paths) \subseteq closed
<1>1. UNION {IncludesOf(q) : q \in closed} \subseteq closed
    OBVIOUS
<1>2. closed \in SUBSET NamedPaths
    OBVIOUS
<1>3. QED
    BY <1>1, <1>2 DEF Reach

\* Paths are reached from themselves.
LEMMA ReachHolds ==
    ASSUME NEW paths, paths \subseteq NamedPaths
    PROVE  paths \subseteq Reach(paths)
  BY DEF Reach

\* What a file that is reached includes is reached.
LEMMA ReachFollows ==
    ASSUME NEW paths, NEW q \in Reach(paths), NEW r \in IncludesOf(q)
    PROVE  r \in Reach(paths)
<1>1. r \in NamedPaths
    BY IncludesNamed
<1>2. ASSUME NEW closed \in SUBSET NamedPaths, paths \subseteq closed,
             UNION {IncludesOf(p) : p \in closed} \subseteq closed
      PROVE  r \in closed
  <2>1. q \in closed
    BY <1>2 DEF Reach
  <2>2. QED
    BY <1>2, <2>1
<1>3. QED
    BY <1>1, <1>2 DEF Reach

\* The root is reached.
LEMMA RootReachable == Root \in Reachable
<1>1. {Root} \subseteq NamedPaths
    BY DEF NamedPaths
<1>2. QED
    BY <1>1, ReachHolds DEF Reachable

\* No step changes the files, and so none changes what is read off them.
LEMMA FilesKept ==
    ASSUME sources' = sources
    PROVE  /\ FromJob' = FromJob /\ NamedPaths' = NamedPaths /\ Reachable' = Reachable
           /\ IncludeMap' = IncludeMap
           /\ \A k : OwnOf(k)' = OwnOf(k)
           /\ \A p : /\ Bare(p)' = Bare(p) /\ Opened(p)' = Opened(p)
                     /\ IncludesOf(p)' = IncludesOf(p) /\ Circular(p)' = Circular(p)
                     /\ TenantOf(p)' = TenantOf(p)
<1>1. FromJob' = FromJob
    BY DEF FromJob
<1>2. NamedPaths' = NamedPaths
    BY DEF NamedPaths, IncludesOf, Opened, Bare
<1>3. Reachable' = Reachable
    BY DEF Reachable, Reach, NamedPaths, IncludesOf, Opened, Bare
<1>4. IncludeMap' = IncludeMap
    BY DEF IncludeMap, IncludesOf, Opened, Bare
<1>5. \A k : OwnOf(k)' = OwnOf(k)
    BY DEF OwnOf, Own, Bare
<1>6. \A p : Bare(p)' = Bare(p) /\ Opened(p)' = Opened(p) /\ TenantOf(p)' = TenantOf(p)
    BY DEF Bare, Opened, TenantOf
<1>7. \A p : IncludesOf(p)' = IncludesOf(p)
    BY DEF IncludesOf, Opened, Bare
<1>8. \A p : Circular(p)' = Circular(p)
    BY DEF Circular, Reach, NamedPaths, IncludesOf, Opened, Bare
<1>9. QED
    BY <1>1, <1>2, <1>3, <1>4, <1>5, <1>6, <1>7, <1>8

--------------------------------------------------------------------------------
\* What the steps of the walk do to the frames.

\* The file being composed is the last of the stack.
LEMMA TopIs ==
    ASSUME StackInv, stack # <<>>
    PROVE  /\ Len(stack) \in Nat /\ Len(stack) > 0
           /\ DOMAIN stack = 1..Len(stack) /\ Len(stack) \in DOMAIN stack
           /\ Top = stack[Len(stack)]
<1>1. Len(stack) \in Nat /\ DOMAIN stack = 1..Len(stack)
    BY ListRange DEF StackInv
<1>2. Len(stack) # 0
    BY EmptySeq DEF StackInv, IsList
<1>3. QED
    BY <1>1, <1>2 DEF Top

\* A frame is inside its list of includes, or at the end of it.
LEMMA TopPlace ==
    ASSUME FromJob, StackInv, stack # <<>>
    PROVE  /\ Top.path \in DOMAIN sources /\ Top.path \in loaded
           /\ Top.includes = Opened(Top.path).includes
           /\ IsList(Top.includes) /\ Len(Top.includes) \in Nat /\ Top.next \in Nat
           /\ IncludesOf(Top.path) = {Top.includes[j] : j \in 1..Len(Top.includes)}
           /\ Reading => Included \in IncludesOf(Top.path)
           /\ Closing => Top.next = Len(Top.includes) + 1
<1>1. /\ Top.path \in loaded /\ Top.path \in DOMAIN sources
      /\ Top.includes = Opened(Top.path).includes
      /\ Top.next \in 1..(Len(Top.includes) + 1)
    BY TopIs DEF StackInv
<1>2. /\ IsList(Top.includes)
      /\ IncludesOf(Top.path) = Elements(Top.includes)
    BY <1>1, FileLists
<1>3. Len(Top.includes) \in Nat /\ DOMAIN Top.includes = 1..Len(Top.includes)
    BY <1>2, ListRange
<1>4. IncludesOf(Top.path) = {Top.includes[j] : j \in 1..Len(Top.includes)}
    BY <1>2, <1>3 DEF Elements
<1>5. Top.next \in Nat
    BY <1>1, <1>3
<1>6. ASSUME Reading
      PROVE  Included \in IncludesOf(Top.path)
  <2>1. Top.next \in 1..Len(Top.includes)
    BY <1>1, <1>3, <1>6 DEF Reading
  <2>2. QED
    BY <1>4, <2>1 DEF Included
<1>7. ASSUME Closing
      PROVE  Top.next = Len(Top.includes) + 1
    BY <1>1, <1>3, <1>7 DEF Closing, Reading
<1>8. QED
    BY <1>1, <1>2, <1>3, <1>4, <1>5, <1>6, <1>7

\* A bare file includes nothing, so that no other frame is above it.
LEMMA OnlyTopBare ==
    ASSUME FromJob, StackInv, NEW i \in DOMAIN stack, i < Len(stack)
    PROVE  ~Bare(stack[i].path)
<1>1. /\ stack[i].next \in 1..(Len(stack[i].includes) + 1)
      /\ stack[i].next <= Len(stack[i].includes)
      /\ stack[i].includes = Opened(stack[i].path).includes
    BY DEF StackInv
<1>2. Bare(stack[i].path) => Opened(stack[i].path).includes = <<>>
    BY DEF Opened
<1>3. Len(<<>>) = 0
    BY EmptyList
<1>4. QED
    BY <1>1, <1>2, <1>3

\* The frame a file is opened with.
LEMMA OpenedIs ==
    ASSUME FromJob, NEW p \in DOMAIN sources
    PROVE  /\ DOMAIN Opened(p) = {"path", "next", "includes", "composed"}
           /\ Opened(p).path = p /\ Opened(p).next = 1
           /\ Opened(p).next \in 1..(Len(Opened(p).includes) + 1)
           /\ ~Bare(p) => /\ DOMAIN Opened(p).composed = Kinds \cup {"tenant", "configured"}
                          /\ Opened(p).composed.tenant = TenantOf(p)
                          /\ \A k \in Kinds : Opened(p).composed[k] = <<>>
<1>1. IsList(Opened(p).includes)
    BY FileLists
<1>2. Len(Opened(p).includes) \in Nat
    BY <1>1, ListRange
<1>3. DOMAIN Opened(p) = {"path", "next", "includes", "composed"} /\ Opened(p).path = p /\ Opened(p).next = 1
    BY DEF Opened
<1>4. ASSUME ~Bare(p)
      PROVE  /\ DOMAIN Opened(p).composed = Kinds \cup {"tenant", "configured"}
             /\ Opened(p).composed.tenant = TenantOf(p)
             /\ \A k \in Kinds : Opened(p).composed[k] = <<>>
  <2>1. DOMAIN sources[p].system = Kinds \cup {"tenant", "configured"}
    BY <1>4, FileLists
  <2>2. Opened(p).composed = [k \in Kinds \cup {"tenant", "configured"} |->
                                 IF k \in Kinds THEN <<>> ELSE sources[p].system[k]]
    BY <1>4, <2>1 DEF Opened
  <2>3. "tenant" \notin Kinds
    BY DEF Kinds
  <2>4. QED
    BY <2>2, <2>3 DEF TenantOf
<1>5. QED
    BY <1>2, <1>3, <1>4

\* Opening an include leaves the frames as they are.
LEMMA PushedFrames ==
    ASSUME StackInv, NEW p, stack' = Append(stack, Opened(p))
    PROVE  /\ IsList(stack') /\ Len(stack') = Len(stack) + 1
           /\ Len(stack) \in Nat /\ DOMAIN stack = 1..Len(stack)
           /\ DOMAIN stack' = 1..(Len(stack) + 1)
           /\ \A i \in 1..Len(stack) : stack'[i] = stack[i]
           /\ stack'[Len(stack) + 1] = Opened(p)
<1>1. IsList(stack) /\ Len(stack) \in Nat /\ DOMAIN stack = 1..Len(stack)
    BY ListRange DEF StackInv
<1>2. /\ IsList(stack') /\ Len(stack') = Len(stack) + 1
      /\ \A i \in 1..Len(stack) : stack'[i] = stack[i]
      /\ stack'[Len(stack) + 1] = Opened(p)
    BY <1>1, AppendList
<1>3. DOMAIN stack' = 1..(Len(stack) + 1)
    BY <1>2, ListRange
<1>4. QED
    BY <1>1, <1>2, <1>3

\* The walk starts with the frame of the root.
LEMMA RootFrame ==
    ASSUME StackInv, OpenRoot
    PROVE  stack' = Append(stack, Opened(Root))
  BY DEF OpenRoot

\* An include that was loaded before moves the frame at the top by one.
LEMMA SkippedFrames ==
    ASSUME FromJob, StackInv, SkipInclude
    PROVE  /\ IsList(stack') /\ Len(stack') = Len(stack) /\ DOMAIN stack' = DOMAIN stack
           /\ \A i \in DOMAIN stack : i # Len(stack) => stack'[i] = stack[i]
           /\ \A i \in DOMAIN stack :
                 /\ DOMAIN stack'[i] = DOMAIN stack[i]
                 /\ stack'[i].path = stack[i].path
                 /\ stack'[i].includes = stack[i].includes
                 /\ stack'[i].composed = stack[i].composed
           /\ stack'[Len(stack)].next = stack[Len(stack)].next + 1
<1> DEFINE n == Len(stack)
           frame == [stack[n] EXCEPT !.next = stack[n].next + 1]
<1>1. stack # <<>> /\ stack' = Replaced(stack, n, frame)
    BY DEF SkipInclude, Reading, Advanced, Replaced
<1>2. IsList(stack) /\ n \in 1..Len(stack) /\ n \in Nat /\ DOMAIN stack = 1..n
    BY <1>1, TopIs DEF StackInv
<1>3. DOMAIN stack[n] = {"path", "next", "includes", "composed"}
    BY <1>2 DEF StackInv
<1>4. /\ DOMAIN frame = DOMAIN stack[n] /\ frame.path = stack[n].path
      /\ frame.includes = stack[n].includes /\ frame.composed = stack[n].composed
      /\ frame.next = stack[n].next + 1
    BY <1>3
<1> HIDE DEF frame, n
<1>5. /\ IsList(stack') /\ Len(stack') = Len(stack)
      /\ \A i \in 1..Len(stack) : stack'[i] = IF i = n THEN frame ELSE stack[i]
    BY <1>1, <1>2, ReplacedList
<1>6. DOMAIN stack' = 1..Len(stack')
    BY <1>5, ListRange
<1>7. QED
    BY <1>2, <1>4, <1>5, <1>6 DEF n

\* Closing an include merges its frame into the one below, and moves that by one.
LEMMA ClosedFrames ==
    ASSUME FromJob, StackInv, CloseInclude
    PROVE  LET n == Len(stack)
           IN  /\ n \in Nat /\ n > 1 /\ DOMAIN stack = 1..n
               /\ IsList(stack') /\ Len(stack') = n - 1 /\ DOMAIN stack' = 1..(n - 1)
               /\ \A i \in 1..(n - 1) : i # n - 1 => stack'[i] = stack[i]
               /\ \A i \in 1..(n - 1) :
                     /\ DOMAIN stack'[i] = DOMAIN stack[i]
                     /\ stack'[i].path = stack[i].path
                     /\ stack'[i].includes = stack[i].includes
               /\ stack'[n - 1].next = stack[n - 1].next + 1
               /\ Bare(Top.path) => stack'[n - 1].composed = stack[n - 1].composed
               /\ ~Bare(Top.path) =>
                     stack'[n - 1].composed =
                        AppendMembers(MergeLevel(stack[n - 1].composed, Composed), Composed)
<1> DEFINE n == Len(stack)
           front == SubSeq(stack, 1, n - 1)
           frame == Merged(Parent)
<1>1. stack # <<>> /\ n > 1 /\ stack' = Replaced(front, n - 1, frame)
    BY DEF CloseInclude, Closing, Replaced
<1>2. IsList(stack) /\ n \in Nat /\ DOMAIN stack = 1..n
    BY <1>1, TopIs DEF StackInv
<1>3. Parent = stack[n - 1] /\ n - 1 \in 1..n
    BY <1>1, <1>2 DEF Parent
<1>4. DOMAIN stack[n - 1] = {"path", "next", "includes", "composed"}
    BY <1>2, <1>3 DEF StackInv
<1>5. /\ DOMAIN frame = DOMAIN stack[n - 1] /\ frame.path = stack[n - 1].path
      /\ frame.includes = stack[n - 1].includes
      /\ frame.next = stack[n - 1].next + 1
      /\ Bare(Top.path) => frame.composed = stack[n - 1].composed
      /\ ~Bare(Top.path) =>
            frame.composed = AppendMembers(MergeLevel(stack[n - 1].composed, Composed), Composed)
    BY <1>3, <1>4 DEF Merged
<1>6. /\ IsList(front) /\ Len(front) = n - 1
      /\ \A i \in 1..(n - 1) : front[i] = stack[i]
    BY <1>1, <1>2, FrontList
<1> HIDE DEF frame, front
<1>7. n - 1 \in 1..Len(front)
    BY <1>1, <1>2, <1>6
<1>8. /\ IsList(stack') /\ Len(stack') = Len(front)
      /\ \A i \in 1..Len(front) : stack'[i] = IF i = n - 1 THEN frame ELSE front[i]
    BY <1>1, <1>6, <1>7, ReplacedList
<1>9. DOMAIN stack' = 1..(n - 1)
    BY <1>6, <1>8, ListRange
<1>10. /\ stack'[n - 1] = frame
       /\ \A i \in 1..(n - 1) : i # n - 1 => stack'[i] = stack[i]
    BY <1>6, <1>7, <1>8
<1>11. \A i \in 1..(n - 1) :
          /\ DOMAIN stack'[i] = DOMAIN stack[i]
          /\ stack'[i].path = stack[i].path
          /\ stack'[i].includes = stack[i].includes
    BY <1>5, <1>10
<1>12. QED
    BY <1>1, <1>2, <1>5, <1>6, <1>8, <1>9, <1>10, <1>11

--------------------------------------------------------------------------------
\* The frames stay on the way from the root.

\* A frame by itself, and what it says of the one above it.
FrameOk(i) ==
    /\ DOMAIN stack[i] = {"path", "next", "includes", "composed"}
    /\ stack[i].path \in loaded
    /\ stack[i].includes = Opened(stack[i].path).includes
    /\ stack[i].next \in 1..(Len(stack[i].includes) + 1)
    /\ ~Bare(stack[i].path) => DOMAIN stack[i].composed = Kinds \cup {"tenant", "configured"}
    /\ i < Len(stack) => /\ stack[i].next <= Len(stack[i].includes)
                         /\ stack[i].includes[stack[i].next] = stack[i + 1].path

\* Frames that are right one by one make a stack.
LEMMA FramesMakeStack ==
    ASSUME IsList(stack), stack # <<>> => stack[1].path = Root,
           loaded \subseteq DOMAIN sources \cap Reachable,
           \A i \in DOMAIN stack : FrameOk(i),
           \A i, j \in DOMAIN stack : stack[i].path = stack[j].path => i = j
    PROVE  StackInv
  BY DEF StackInv, FrameOk

\* Skipping an include keeps the frames in line.
LEMMA SkipKeepsStack ==
    ASSUME FromJob, StackInv, SkipInclude
    PROVE  StackInv'
<1>1. /\ IsList(stack') /\ Len(stack') = Len(stack) /\ DOMAIN stack' = DOMAIN stack
      /\ \A i \in DOMAIN stack : i # Len(stack) => stack'[i] = stack[i]
      /\ \A i \in DOMAIN stack :
            /\ DOMAIN stack'[i] = DOMAIN stack[i]
            /\ stack'[i].path = stack[i].path
            /\ stack'[i].includes = stack[i].includes
            /\ stack'[i].composed = stack[i].composed
      /\ stack'[Len(stack)].next = stack[Len(stack)].next + 1
    BY SkippedFrames
<1>2. sources' = sources /\ loaded' = loaded /\ stack # <<>> /\ Reading
    BY DEF SkipInclude, Reading
<1>3. /\ Reachable' = Reachable
      /\ \A p : Bare(p)' = Bare(p) /\ Opened(p)' = Opened(p)
    BY <1>2, FilesKept
<1>4. /\ Len(stack) \in Nat /\ DOMAIN stack = 1..Len(stack) /\ Len(stack) \in DOMAIN stack
      /\ Top = stack[Len(stack)]
    BY <1>2, TopIs
<1>5. /\ Len(Top.includes) \in Nat /\ Top.next \in Nat /\ Top.next <= Len(Top.includes)
    BY <1>2, TopPlace DEF Reading
<1>6. stack'[1].path = Root
    BY <1>1, <1>2, <1>4 DEF StackInv
<1>7. loaded' \subseteq DOMAIN sources' \cap Reachable'
    BY <1>2, <1>3 DEF StackInv
<1>8. ASSUME NEW i \in DOMAIN stack'
      PROVE  FrameOk(i)'
  <2>1. i \in DOMAIN stack /\ FrameOk(i)
    BY <1>1 DEF StackInv, FrameOk
  <2>2. stack'[i].next \in 1..(Len(stack'[i].includes) + 1)
    <3>1. CASE i = Len(stack)
      BY <1>1, <1>4, <1>5, <3>1
    <3>2. CASE i # Len(stack)
      BY <1>1, <2>1, <3>2 DEF FrameOk
    <3>3. QED
      BY <3>1, <3>2
  <2>3. i < Len(stack') => /\ stack'[i].next <= Len(stack'[i].includes)
                           /\ stack'[i].includes[stack'[i].next] = stack'[i + 1].path
    <3>1. i < Len(stack) => i # Len(stack) /\ i + 1 \in DOMAIN stack
      BY <1>4, <2>1
    <3>2. QED
      BY <1>1, <2>1, <3>1 DEF FrameOk
  <2>4. QED
    BY <1>1, <1>2, <1>3, <2>1, <2>2, <2>3 DEF FrameOk
<1>9. \A i, j \in DOMAIN stack' : stack'[i].path = stack'[j].path => i = j
    BY <1>1 DEF StackInv
<1>10. (\A i \in DOMAIN stack : FrameOk(i))'
    BY <1>8
<1>11. QED
    BY <1>1, <1>6, <1>7, <1>9, <1>10 DEF StackInv, FrameOk

\* A file on top of the one that includes it.
Pushed(p) ==
    /\ stack' = Append(stack, Opened(p))
    /\ loaded' = loaded \cup {p}
    /\ sources' = sources
    /\ p \in DOMAIN sources \cap Reachable /\ p \notin loaded
    /\ stack = <<>> => p = Root
    /\ stack # <<>> => Reading /\ Included = p

\* Opening an include, or the root, keeps the frames in line.
LEMMA PushKeepsStack ==
    ASSUME FromJob, StackInv, NEW p, Pushed(p)
    PROVE  StackInv'
<1>1. /\ IsList(stack') /\ Len(stack') = Len(stack) + 1
      /\ Len(stack) \in Nat /\ DOMAIN stack = 1..Len(stack)
      /\ DOMAIN stack' = 1..(Len(stack) + 1)
      /\ \A i \in 1..Len(stack) : stack'[i] = stack[i]
      /\ stack'[Len(stack) + 1] = Opened(p)
    BY PushedFrames DEF Pushed
<1>2. sources' = sources /\ loaded' = loaded \cup {p} /\ p \in DOMAIN sources \cap Reachable
    BY DEF Pushed
<1>3. /\ Reachable' = Reachable
      /\ \A q : Bare(q)' = Bare(q) /\ Opened(q)' = Opened(q)
    BY <1>2, FilesKept
<1>4. /\ DOMAIN Opened(p) = {"path", "next", "includes", "composed"}
      /\ Opened(p).path = p
      /\ Opened(p).next \in 1..(Len(Opened(p).includes) + 1)
      /\ ~Bare(p) => DOMAIN Opened(p).composed = Kinds \cup {"tenant", "configured"}
    BY <1>2, OpenedIs
<1>5. stack'[1].path = Root
  <2>1. CASE stack = <<>>
    BY <1>1, <1>4, <2>1, EmptyList DEF Pushed
  <2>2. CASE stack # <<>>
    BY <1>1, <2>2, TopIs DEF StackInv
  <2>3. QED
    BY <2>1, <2>2
<1>6. loaded' \subseteq DOMAIN sources' \cap Reachable'
    BY <1>2, <1>3 DEF StackInv
<1>7. ASSUME NEW i \in DOMAIN stack'
      PROVE  FrameOk(i)'
  <2>1. CASE i = Len(stack) + 1
    <3>1. ~(i < Len(stack'))
      BY <1>1, <2>1
    <3>2. QED
      BY <1>1, <1>2, <1>3, <1>4, <2>1, <3>1 DEF FrameOk
  <2>2. CASE i \in 1..Len(stack)
    <3>1. i \in DOMAIN stack /\ FrameOk(i) /\ stack'[i] = stack[i]
      BY <1>1, <2>2 DEF StackInv, FrameOk
    <3>2. /\ stack'[i].next <= Len(stack'[i].includes)
          /\ stack'[i].includes[stack'[i].next] = stack'[i + 1].path
      <4>1. CASE i < Len(stack)
        <5>1. i + 1 \in 1..Len(stack)
          BY <1>1, <2>2, <4>1
        <5>2. QED
          BY <1>1, <3>1, <4>1, <5>1 DEF FrameOk
      <4>2. CASE i = Len(stack)
        <5>1. stack # <<>>
          BY <1>1, <2>2, EmptyList
        <5>2. Reading /\ Included = p /\ Top = stack[i]
          BY <4>2, <5>1, TopIs DEF Pushed
        <5>3. QED
          BY <1>1, <1>4, <3>1, <4>2, <5>2 DEF Reading, Included
      <4>3. QED
        BY <1>1, <2>2, <4>1, <4>2
    <3>3. QED
      BY <1>1, <1>2, <1>3, <3>1, <3>2 DEF FrameOk
  <2>3. QED
    BY <1>1, <2>1, <2>2
<1>8. ASSUME NEW i \in DOMAIN stack', NEW j \in DOMAIN stack', stack'[i].path = stack'[j].path
      PROVE  i = j
  <2>1. \A k \in 1..Len(stack) : stack'[k].path # p
    <3>1. p \notin loaded
      BY DEF Pushed
    <3>2. \A k \in 1..Len(stack) : stack[k].path \in loaded
      BY <1>1 DEF StackInv
    <3>3. QED
      BY <1>1, <3>1, <3>2
  <2>2. CASE i = Len(stack) + 1 \/ j = Len(stack) + 1
    BY <1>1, <1>4, <1>8, <2>1, <2>2
  <2>3. CASE i \in 1..Len(stack) /\ j \in 1..Len(stack)
    BY <1>1, <1>8, <2>3 DEF StackInv
  <2>4. QED
    BY <1>1, <2>2, <2>3
<1>9. (\A i \in DOMAIN stack : FrameOk(i))'
    BY <1>7
<1>10. QED
    BY <1>1, <1>5, <1>6, <1>8, <1>9 DEF StackInv, FrameOk

\* Closing an include keeps the frames in line.
LEMMA CloseKeepsStack ==
    ASSUME FromJob, StackInv, CloseInclude
    PROVE  StackInv'
<1> DEFINE n == Len(stack)
<1>1. /\ n \in Nat /\ n > 1 /\ DOMAIN stack = 1..n
      /\ IsList(stack') /\ Len(stack') = n - 1 /\ DOMAIN stack' = 1..(n - 1)
      /\ \A i \in 1..(n - 1) : i # n - 1 => stack'[i] = stack[i]
      /\ \A i \in 1..(n - 1) :
            /\ DOMAIN stack'[i] = DOMAIN stack[i]
            /\ stack'[i].path = stack[i].path
            /\ stack'[i].includes = stack[i].includes
      /\ stack'[n - 1].next = stack[n - 1].next + 1
    BY ClosedFrames
<1>2. sources' = sources /\ loaded' = loaded /\ stack # <<>>
    BY DEF CloseInclude, Closing
<1>3. /\ Reachable' = Reachable
      /\ \A p : Bare(p)' = Bare(p) /\ Opened(p)' = Opened(p)
    BY <1>2, FilesKept
<1>4. ASSUME NEW i \in 1..n
      PROVE  FrameOk(i)
  <2>1. i \in DOMAIN stack
    BY <1>1
  <2>2. QED
    BY <2>1 DEF StackInv, FrameOk
<1>5. n \in Nat /\ n > 1
    BY <1>1
<1>6. DOMAIN stack'[n - 1].composed = DOMAIN stack[n - 1].composed
  <2>1. CASE Bare(Top.path)
    BY <2>1, ClosedFrames
  <2>2. CASE ~Bare(Top.path)
    <3>1. stack'[n - 1].composed = AppendMembers(MergeLevel(stack[n - 1].composed, Composed), Composed)
      BY <2>2, ClosedFrames
    <3>2. QED
      BY <3>1 DEF AppendMembers, MergeLevel
  <2>3. QED
    BY <2>1, <2>2
<1> HIDE DEF n
<1>5a. n - 1 \in 1..n /\ n - 1 < n /\ n - 1 \in 1..(n - 1)
    BY <1>5
<1>7. stack'[1].path = Root
  <2>1. 1 \in 1..(n - 1)
    BY <1>1
  <2>2. QED
    BY <1>1, <1>2, <2>1 DEF StackInv
<1>8. loaded' \subseteq DOMAIN sources' \cap Reachable'
    BY <1>2, <1>3 DEF StackInv
<1>9. ASSUME NEW i \in 1..(n - 1)
      PROVE  FrameOk(i)'
  <2>1. FrameOk(i) /\ i < n /\ i \in 1..n
    BY <1>1, <1>4
  <2>2. CASE i = n - 1
    <3>1. ~(i < Len(stack'))
      BY <1>1, <2>2
    <3>2. stack[i].next \in 1..(Len(stack[i].includes) + 1) /\ stack[i].next <= Len(stack[i].includes)
      BY <2>1 DEF FrameOk, n
    <3>3. Len(stack[i].includes) \in Nat
      <4>1. stack[i].path \in DOMAIN sources /\ stack[i].includes = Opened(stack[i].path).includes
        BY <1>1, <2>1 DEF StackInv, FrameOk
      <4>2. QED
        BY <4>1, FileLists, ListRange
    <3>4. stack[i].next + 1 \in 1..(Len(stack[i].includes) + 1)
      BY <3>2, <3>3
    <3>5. QED
      BY <1>1, <1>2, <1>3, <1>5a, <1>6, <2>1, <2>2, <3>1, <3>4 DEF FrameOk
  <2>3. CASE i # n - 1
    <3>1. stack'[i] = stack[i] /\ i < Len(stack)
      BY <1>1, <2>1, <2>3 DEF n
    <3>1a. i + 1 \in 1..(n - 1)
      BY <1>1, <2>3
    <3>2. stack'[i + 1].path = stack[i + 1].path
      BY <1>1, <3>1a
    <3>3. QED
      BY <1>2, <1>3, <2>1, <3>1, <3>2 DEF FrameOk
  <2>4. QED
    BY <2>2, <2>3
<1>10. \A i, j \in DOMAIN stack' : stack'[i].path = stack'[j].path => i = j
  <2>1. \A i \in 1..(n - 1) : i \in 1..n
    BY <1>1
  <2>2. QED
    BY <1>1, <2>1 DEF StackInv
<1>11. (\A i \in DOMAIN stack : FrameOk(i))'
    BY <1>1, <1>9
<1>12. QED
    BY <1>1, <1>7, <1>8, <1>10, <1>11 DEF StackInv, FrameOk

--------------------------------------------------------------------------------
\* The files that are done with.

\* A file that is opened is not done with.
LEMMA PushedFinishes ==
    ASSUME StackInv, NEW p, Pushed(p)
    PROVE  Finished' = Finished
<1>1. /\ DOMAIN stack = 1..Len(stack) /\ Len(stack) \in Nat
      /\ DOMAIN stack' = 1..(Len(stack) + 1)
      /\ \A i \in 1..Len(stack) : stack'[i] = stack[i]
      /\ stack'[Len(stack) + 1] = Opened(p)
    BY PushedFrames DEF Pushed
<1>2. Opened(p).path = p
    BY DEF Opened
<1>3. loaded' = loaded \cup {p} /\ p \notin loaded
    BY DEF Pushed
<1>4. Opening' = Opening \cup {p}
  <2>1. Opening' = {stack'[i].path : i \in 1..(Len(stack) + 1)}
    BY <1>1 DEF Opening
  <2>2. Opening = {stack[i].path : i \in 1..Len(stack)}
    BY <1>1 DEF Opening
  <2>3. 1..(Len(stack) + 1) = 1..Len(stack) \cup {Len(stack) + 1}
    BY <1>1
  <2>4. {stack'[i].path : i \in 1..Len(stack)} = {stack[i].path : i \in 1..Len(stack)}
    BY <1>1
  <2>5. QED
    BY <1>1, <1>2, <2>1, <2>2, <2>3, <2>4
<1>5. QED
    BY <1>3, <1>4 DEF Finished

\* A file that was loaded and is not being composed is done with.
LEMMA SkippedFinishes ==
    ASSUME FromJob, StackInv, SkipInclude
    PROVE  Finished' = Finished /\ Included \in Finished
<1>1. Opening' = Opening
    BY SkippedFrames DEF Opening
<1>2. loaded' = loaded /\ Included \in loaded
    BY DEF SkipInclude
<1>3. ~OnStack(Included)
    BY DEF SkipInclude, Unreadable
<1>4. Included \notin Opening
    BY <1>3 DEF OnStack, Opening
<1>5. QED
    BY <1>1, <1>2, <1>4 DEF Finished

\* The file at the top, all its includes finished, includes itself by no way.
LEMMA TopFinishes ==
    ASSUME FromJob, StackInv, FinishedInv, Closing
    PROVE  /\ Top.path \in loaded /\ Top.path \notin Finished
           /\ IncludesOf(Top.path) \subseteq Finished
           /\ ~Circular(Top.path)
<1>1. stack # <<>>
    BY DEF Closing
<1>2. Len(stack) \in DOMAIN stack /\ Top = stack[Len(stack)]
    BY <1>1, TopIs
<1>3. Top.path \in loaded /\ Top.path \in Opening
    BY <1>1, <1>2, TopPlace DEF Opening
<1>4. /\ Top.next = Len(Top.includes) + 1 /\ Len(Top.includes) \in Nat
      /\ IncludesOf(Top.path) = {Top.includes[j] : j \in 1..Len(Top.includes)}
    BY <1>1, TopPlace
<1>5. \A j \in 1..(Top.next - 1) : Top.includes[j] \in Finished
    BY <1>2 DEF FinishedInv
<1>6. Top.next - 1 = Len(Top.includes)
    BY <1>4
<1>7. IncludesOf(Top.path) \subseteq Finished
    BY <1>4, <1>5, <1>6
<1>8. Finished \subseteq NamedPaths
    BY DEF Finished, StackInv, NamedPaths
<1>9. Reach(IncludesOf(Top.path)) \subseteq Finished
    BY <1>7, <1>8, ReachWithin DEF FinishedInv
<1>10. QED
    BY <1>3, <1>7, <1>9 DEF Circular, Finished

\* Closing an include, one more file is done with.
LEMMA ClosedFinishes ==
    ASSUME FromJob, StackInv, CloseInclude
    PROVE  Finished' = Finished \cup {Top.path}
<1> DEFINE n == Len(stack)
<1>1. /\ n \in Nat /\ n > 1 /\ DOMAIN stack = 1..n
      /\ DOMAIN stack' = 1..(n - 1)
      /\ \A i \in 1..(n - 1) : stack'[i].path = stack[i].path
    BY ClosedFrames
<1>2. loaded' = loaded /\ stack # <<>> /\ Top = stack[n]
    BY TopIs DEF CloseInclude, Closing
<1>3. \A i, j \in 1..n : stack[i].path = stack[j].path => i = j
    BY <1>1 DEF StackInv
<1>4. stack[n].path \in loaded
    BY <1>1 DEF StackInv
<1> HIDE DEF n
<1>5. Opening = {stack[i].path : i \in 1..n}
    BY <1>1 DEF Opening
<1>6. Opening' = {stack[i].path : i \in 1..(n - 1)}
    BY <1>1 DEF Opening
<1>7. Opening' = Opening \ {stack[n].path}
  <2>1. 1..(n - 1) = 1..n \ {n} /\ n \in 1..n
    BY <1>1
  <2>2. QED
    BY <1>3, <1>5, <1>6, <2>1
<1>8. stack[n].path \in Opening
  <2>1. n \in 1..n
    BY <1>1
  <2>2. QED
    BY <1>5, <2>1
<1>9. QED
    BY <1>2, <1>4, <1>7, <1>8 DEF Finished

\* Opening a file keeps the finished ones closed under inclusion.
LEMMA PushKeepsFinished ==
    ASSUME FromJob, StackInv, FinishedInv, NEW p, Pushed(p)
    PROVE  FinishedInv'
<1>1. /\ DOMAIN stack = 1..Len(stack) /\ Len(stack) \in Nat
      /\ DOMAIN stack' = 1..(Len(stack) + 1)
      /\ \A i \in 1..Len(stack) : stack'[i] = stack[i]
      /\ stack'[Len(stack) + 1] = Opened(p)
    BY PushedFrames DEF Pushed
<1>2. sources' = sources
    BY DEF Pushed
<1>3. \A q : IncludesOf(q)' = IncludesOf(q) /\ Circular(q)' = Circular(q)
    BY <1>2, FilesKept
<1>4. Finished' = Finished
    BY PushedFinishes
<1>5. Opened(p).next = 1
    BY DEF Opened
<1>6. ASSUME NEW i \in DOMAIN stack', NEW j \in 1..(stack'[i].next - 1)
      PROVE  stack'[i].includes[j] \in Finished'
  <2>1. i # Len(stack) + 1
    BY <1>1, <1>5
  <2>2. i \in DOMAIN stack /\ stack'[i] = stack[i]
    BY <1>1, <2>1
  <2>3. QED
    BY <1>4, <2>2 DEF FinishedInv
<1>7. \A q \in Finished' : IncludesOf(q) \subseteq Finished' /\ ~Circular(q)
    BY <1>4 DEF FinishedInv
<1>8. QED
    BY <1>3, <1>6, <1>7 DEF FinishedInv

\* Skipping an include passes a finished file.
LEMMA SkipKeepsFinished ==
    ASSUME FromJob, StackInv, FinishedInv, SkipInclude
    PROVE  FinishedInv'
<1>1. /\ DOMAIN stack' = DOMAIN stack
      /\ \A i \in DOMAIN stack : i # Len(stack) => stack'[i] = stack[i]
      /\ \A i \in DOMAIN stack : stack'[i].includes = stack[i].includes
      /\ stack'[Len(stack)].next = stack[Len(stack)].next + 1
    BY SkippedFrames
<1>2. sources' = sources /\ stack # <<>>
    BY DEF SkipInclude, Reading
<1>3. \A q : IncludesOf(q)' = IncludesOf(q) /\ Circular(q)' = Circular(q)
    BY <1>2, FilesKept
<1>4. Finished' = Finished /\ Included \in Finished
    BY SkippedFinishes
<1>5. Top = stack[Len(stack)] /\ Top.next \in Nat
    BY <1>2, TopIs, TopPlace
<1>6. ASSUME NEW i \in DOMAIN stack', NEW j \in 1..(stack'[i].next - 1)
      PROVE  stack'[i].includes[j] \in Finished'
  <2>1. \A l \in 1..(stack[i].next - 1) : stack[i].includes[l] \in Finished
    BY <1>1 DEF FinishedInv
  <2>2. CASE i # Len(stack)
    BY <1>1, <1>4, <2>1, <2>2
  <2>3. CASE i = Len(stack)
    <3>1. j \in 1..(Top.next - 1) \/ j = Top.next
      BY <1>1, <1>5, <2>3
    <3>2. QED
      BY <1>1, <1>4, <1>5, <2>1, <2>3, <3>1 DEF Included
  <2>4. QED
    BY <2>2, <2>3
<1>7. \A q \in Finished' : IncludesOf(q) \subseteq Finished' /\ ~Circular(q)
    BY <1>4 DEF FinishedInv
<1>8. QED
    BY <1>3, <1>6, <1>7 DEF FinishedInv

\* Closing an include passes the file that has just finished.
LEMMA CloseKeepsFinished ==
    ASSUME FromJob, StackInv, FinishedInv, CloseInclude
    PROVE  FinishedInv'
<1> DEFINE n == Len(stack)
<1>1. /\ n \in Nat /\ n > 1 /\ DOMAIN stack = 1..n
      /\ DOMAIN stack' = 1..(n - 1)
      /\ \A i \in 1..(n - 1) : i # n - 1 => stack'[i] = stack[i]
      /\ \A i \in 1..(n - 1) : stack'[i].includes = stack[i].includes
      /\ stack'[n - 1].next = stack[n - 1].next + 1
    BY ClosedFrames
<1>2. sources' = sources /\ Closing
    BY DEF CloseInclude
<1>3. \A q : IncludesOf(q)' = IncludesOf(q) /\ Circular(q)' = Circular(q)
    BY <1>2, FilesKept
<1>4. Finished' = Finished \cup {Top.path}
    BY ClosedFinishes
<1>5. IncludesOf(Top.path) \subseteq Finished /\ ~Circular(Top.path)
    BY <1>2, TopFinishes
<1>6. \A q \in Finished' : IncludesOf(q) \subseteq Finished' /\ ~Circular(q)
    BY <1>4, <1>5 DEF FinishedInv
<1>7. n - 1 \in DOMAIN stack /\ n - 1 < n /\ n - 1 + 1 = n
  <2>1. n \in Nat /\ n > 1 /\ DOMAIN stack = 1..n
    BY <1>1
  <2> HIDE DEF n
  <2>2. QED
    BY <2>1
<1>8. Top = stack[n] /\ stack[n - 1].includes[stack[n - 1].next] = stack[n].path
    BY <1>2, <1>7, TopIs DEF StackInv, Closing
<1>8a. stack[n - 1].next \in Nat
  <2>1. FrameOk(n - 1) /\ stack[n - 1].path \in DOMAIN sources
    BY <1>7 DEF StackInv, FrameOk
  <2>2. stack[n - 1].next \in 1..(Len(stack[n - 1].includes) + 1)
    BY <2>1 DEF FrameOk
  <2>3. QED
    BY <2>2
<1> HIDE DEF n
<1>9. ASSUME NEW i \in DOMAIN stack', NEW j \in 1..(stack'[i].next - 1)
      PROVE  stack'[i].includes[j] \in Finished'
  <2>1. i \in 1..n
    BY <1>1
  <2>2. \A l \in 1..(stack[i].next - 1) : stack[i].includes[l] \in Finished
    BY <1>1, <2>1 DEF FinishedInv
  <2>3. CASE i # n - 1
    BY <1>1, <1>4, <2>2, <2>3
  <2>4. CASE i = n - 1
    <3>1. j \in 1..(stack[i].next - 1) \/ j = stack[i].next
      BY <1>1, <1>8a, <2>4
    <3>2. QED
      BY <1>1, <1>4, <1>8, <2>2, <2>4, <3>1
  <2>5. QED
    BY <2>3, <2>4
<1>10. QED
    BY <1>3, <1>6, <1>9 DEF FinishedInv

--------------------------------------------------------------------------------
\* The tenant.

\* A file's own members come behind those it includes.
LEMMA ComposedTop ==
    ASSUME FromJob, StackInv, stack # <<>>, ~Bare(Top.path)
    PROVE  /\ DOMAIN Composed = Kinds \cup {"tenant", "configured"}
           /\ Composed.tenant = Top.composed.tenant
           /\ \A k \in Kinds : Composed[k] = Top.composed[k] \o Own(Top.path, k)
<1>1. DOMAIN Top.composed = Kinds \cup {"tenant", "configured"}
    BY TopIs DEF StackInv
<1>2. "tenant" \notin Kinds
    BY DEF Kinds
<1>3. \A k \in Kinds : Own(Top.path, k) = sources[Top.path].system[k]
    BY DEF Own
<1>4. Composed = [k \in Kinds \cup {"tenant", "configured"} |->
                     IF k \in Kinds THEN Top.composed[k] \o sources[Top.path].system[k]
                     ELSE Top.composed[k]]
    BY <1>1 DEF Composed, AppendMembers
<1>5. QED
    BY <1>2, <1>3, <1>4

\* The frame of the file that includes it, after the merge.
LEMMA MergedParent ==
    ASSUME FromJob, StackInv, CloseInclude, ~Bare(Top.path)
    PROVE  LET n == Len(stack)
               above == stack[n - 1].composed
           IN  /\ stack'[n - 1].composed.tenant =
                     IF above.tenant = None THEN Composed.tenant ELSE above.tenant
               /\ Composed.tenant # None /\ above.tenant # None => above.tenant = Composed.tenant
               /\ \A k \in Kinds : stack'[n - 1].composed[k] = above[k] \o Composed[k]
<1> DEFINE n == Len(stack)
           above == stack[n - 1].composed
<1>1. /\ n \in Nat /\ n > 1 /\ DOMAIN stack = 1..n
      /\ stack'[n - 1].composed = AppendMembers(MergeLevel(above, Composed), Composed)
    BY ClosedFrames
<1>2. DOMAIN above = Kinds \cup {"tenant", "configured"}
  <2>1. n \in Nat /\ n > 1 /\ DOMAIN stack = 1..n
    BY <1>1
  <2>2. n - 1 \in DOMAIN stack /\ n - 1 < n
    <3> HIDE DEF n
    <3>1. QED
      BY <2>1
  <2>3. ~Bare(stack[n - 1].path)
    BY <2>2, OnlyTopBare
  <2>4. QED
    BY <2>2, <2>3 DEF StackInv
<1>3. Parent.composed = above /\ ~TenantConflict(Parent.composed, Composed)
    BY DEF CloseInclude, Mergeable, Parent
<1>4. "tenant" \notin Kinds /\ "configured" \notin Kinds
    BY DEF Kinds
<1> HIDE DEF n, above
<1>5. MergeLevel(above, Composed) =
         [k \in Kinds \cup {"tenant", "configured"} |->
             IF k = "tenant" THEN (IF above.tenant = None THEN Composed.tenant ELSE above.tenant)
             ELSE IF k = "configured" THEN above.configured \/ Composed.configured
             ELSE above[k]]
    BY <1>2 DEF MergeLevel
<1>6. stack'[n - 1].composed =
         [k \in Kinds \cup {"tenant", "configured"} |->
             IF k \in Kinds THEN above[k] \o Composed[k]
             ELSE MergeLevel(above, Composed)[k]]
    BY <1>1, <1>4, <1>5 DEF AppendMembers
<1>7. stack'[n - 1].composed.tenant = IF above.tenant = None THEN Composed.tenant ELSE above.tenant
    BY <1>4, <1>5, <1>6
<1>8. \A k \in Kinds : stack'[n - 1].composed[k] = above[k] \o Composed[k]
    BY <1>6
<1>9. Composed.tenant # None /\ above.tenant # None => above.tenant = Composed.tenant
    BY <1>3 DEF TenantConflict
<1>10. QED
    BY <1>7, <1>8, <1>9 DEF n, above

\* A file that is opened brings the tenant it names.
LEMMA PushKeepsTenant ==
    ASSUME FromJob, StackInv, TenantInv, NEW p, Pushed(p)
    PROVE  TenantInv'
<1>1. /\ DOMAIN stack = 1..Len(stack) /\ Len(stack) \in Nat
      /\ DOMAIN stack' = 1..(Len(stack) + 1)
      /\ \A i \in 1..Len(stack) : stack'[i] = stack[i]
      /\ stack'[Len(stack) + 1] = Opened(p)
    BY PushedFrames DEF Pushed
<1>2. sources' = sources /\ p \in DOMAIN sources
    BY DEF Pushed
<1>3. \A q : Bare(q)' = Bare(q) /\ TenantOf(q)' = TenantOf(q)
    BY <1>2, FilesKept
<1>4. Finished' = Finished
    BY PushedFinishes
<1>5. Opened(p).path = p /\ (~Bare(p) => Opened(p).composed.tenant = TenantOf(p))
    BY <1>2, OpenedIs
<1>6. ASSUME NEW i \in DOMAIN stack', ~Bare(stack'[i].path)
      PROVE  TenantOf(stack'[i].path) \in {None, stack'[i].composed.tenant}
  <2>1. CASE i = Len(stack) + 1
    BY <1>1, <1>5, <1>6, <2>1
  <2>2. CASE i \in 1..Len(stack)
    BY <1>1, <1>6, <2>2 DEF TenantInv
  <2>3. QED
    BY <1>1, <2>1, <2>2
<1>7. ASSUME NEW q \in Finished', ~Bare(q)
      PROVE  \E i \in DOMAIN stack' : /\ ~Bare(stack'[i].path)
                                      /\ TenantOf(q) \in {None, stack'[i].composed.tenant}
  <2>1. PICK i \in DOMAIN stack : /\ ~Bare(stack[i].path)
                                  /\ TenantOf(q) \in {None, stack[i].composed.tenant}
    BY <1>4, <1>7 DEF TenantInv
  <2>2. i \in DOMAIN stack' /\ stack'[i] = stack[i]
    BY <1>1, <2>1
  <2>3. QED
    BY <2>1, <2>2
<1>8. QED
    BY <1>3, <1>6, <1>7 DEF TenantInv

\* Skipping an include merges no tenant.
LEMMA SkipKeepsTenant ==
    ASSUME FromJob, StackInv, TenantInv, SkipInclude
    PROVE  TenantInv'
<1>1. /\ DOMAIN stack' = DOMAIN stack
      /\ \A i \in DOMAIN stack :
            stack'[i].path = stack[i].path /\ stack'[i].composed = stack[i].composed
    BY SkippedFrames
<1>2. sources' = sources
    BY DEF SkipInclude
<1>3. \A q : Bare(q)' = Bare(q) /\ TenantOf(q)' = TenantOf(q)
    BY <1>2, FilesKept
<1>4. Finished' = Finished
    BY SkippedFinishes
<1>5. ASSUME NEW i \in DOMAIN stack', ~Bare(stack'[i].path)
      PROVE  TenantOf(stack'[i].path) \in {None, stack'[i].composed.tenant}
    BY <1>1, <1>5 DEF TenantInv
<1>6. ASSUME NEW q \in Finished', ~Bare(q)
      PROVE  \E i \in DOMAIN stack' : /\ ~Bare(stack'[i].path)
                                      /\ TenantOf(q) \in {None, stack'[i].composed.tenant}
    BY <1>1, <1>4, <1>6 DEF TenantInv
<1>7. QED
    BY <1>3, <1>5, <1>6 DEF TenantInv

\* A tenant that was that of either frame is that of the one that stays.
LEMMA CloseKeepsTenant ==
    ASSUME FromJob, StackInv, TenantInv, CloseInclude
    PROVE  TenantInv'
<1> DEFINE n == Len(stack)
           ItsTenant(q, i) == TenantOf(q) \in {None, stack[i].composed.tenant}
           ItsTenantNow(q, i) == TenantOf(q) \in {None, stack'[i].composed.tenant}
<1>1. /\ n \in Nat /\ n > 1 /\ DOMAIN stack = 1..n
      /\ DOMAIN stack' = 1..(n - 1)
      /\ \A i \in 1..(n - 1) : i # n - 1 => stack'[i] = stack[i]
      /\ \A i \in 1..(n - 1) : stack'[i].path = stack[i].path
      /\ Bare(Top.path) => stack'[n - 1].composed = stack[n - 1].composed
    BY ClosedFrames
<1>2. sources' = sources /\ stack # <<>>
    BY DEF CloseInclude, Closing
<1>3. \A q : Bare(q)' = Bare(q) /\ TenantOf(q)' = TenantOf(q)
    BY <1>2, FilesKept
<1>4. Finished' = Finished \cup {Top.path} /\ Top = stack[n]
    BY <1>2, ClosedFinishes, TopIs
<1>5. ASSUME ~Bare(Top.path)
      PROVE  /\ stack'[n - 1].composed.tenant =
                   IF stack[n - 1].composed.tenant = None THEN stack[n].composed.tenant
                   ELSE stack[n - 1].composed.tenant
             /\ stack[n].composed.tenant # None /\ stack[n - 1].composed.tenant # None
                   => stack[n - 1].composed.tenant = stack[n].composed.tenant
    BY <1>2, <1>4, <1>5, MergedParent, ComposedTop
<1>6. n - 1 \in 1..n /\ n - 1 < n /\ n - 1 \in 1..(n - 1) /\ n \in 1..n
  <2>1. n \in Nat /\ n > 1
    BY <1>1
  <2> HIDE DEF n
  <2>2. QED
    BY <2>1
<1>7. ~Bare(stack[n - 1].path)
    BY <1>1, <1>6, OnlyTopBare
<1> HIDE DEF n
<1>8. \A q : ItsTenant(q, n - 1) => ItsTenantNow(q, n - 1)
    BY <1>1, <1>5
<1>9. \A q : ~Bare(Top.path) /\ ItsTenant(q, n) => ItsTenantNow(q, n - 1)
    BY <1>5
<1>10. ASSUME NEW i \in 1..(n - 1), ~Bare(stack'[i].path)
       PROVE  ItsTenantNow(stack'[i].path, i)
  <2>1. i \in 1..n
    BY <1>1
  <2>2. ItsTenant(stack[i].path, i)
    BY <1>1, <1>10, <2>1 DEF TenantInv
  <2>3. CASE i = n - 1
    BY <1>1, <1>8, <2>2, <2>3
  <2>4. CASE i # n - 1
    BY <1>1, <2>2, <2>4
  <2>5. QED
    BY <2>3, <2>4
<1>11. ASSUME NEW q \in Finished', ~Bare(q)
       PROVE  \E i \in 1..(n - 1) : ~Bare(stack'[i].path) /\ ItsTenantNow(q, i)
  <2>1. PICK i \in 1..n : ~Bare(stack[i].path) /\ ItsTenant(q, i)
    <3>1. CASE q \in Finished
      BY <1>1, <1>11, <3>1 DEF TenantInv
    <3>2. CASE q = Top.path
      BY <1>1, <1>4, <1>6, <1>11, <3>2 DEF TenantInv
    <3>3. QED
      BY <1>4, <3>1, <3>2
  <2>2. CASE i \in {n - 1, n}
    <3>1. ItsTenantNow(q, n - 1)
      BY <1>4, <1>8, <1>9, <2>1, <2>2
    <3>2. ~Bare(stack'[n - 1].path)
      BY <1>1, <1>6, <1>7
    <3>3. QED
      BY <1>6, <3>1, <3>2
  <2>3. CASE i \notin {n - 1, n}
    <3>1. i \in 1..(n - 1)
      BY <1>1, <2>1, <2>3
    <3>2. stack'[i] = stack[i]
      BY <1>1, <2>3, <3>1
    <3>3. QED
      BY <2>1, <3>1, <3>2
  <2>4. QED
    BY <2>2, <2>3
<1>12. QED
    BY <1>1, <1>3, <1>10, <1>11 DEF TenantInv

--------------------------------------------------------------------------------
\* The declarations.

\* What a frame holds of a kind, frame by frame.
LEMMA HeldIs ==
    ASSUME StackInv, NEW k \in Kinds
    PROVE  /\ DOMAIN Held(k) = DOMAIN stack
           /\ \A i \in DOMAIN stack :
                 Held(k)[i] = IF Bare(stack[i].path) THEN <<>> ELSE stack[i].composed[k]
  BY DEF Held

\* A file that is opened holds nothing yet.
LEMMA PushKeepsHeld ==
    ASSUME FromJob, StackInv, NEW p, Pushed(p), NEW k \in Kinds, HeldInv(k)
    PROVE  HeldInv(k)'
<1>1. /\ DOMAIN stack = 1..Len(stack) /\ Len(stack) \in Nat
      /\ DOMAIN stack' = 1..(Len(stack) + 1)
      /\ \A i \in 1..Len(stack) : stack'[i] = stack[i]
      /\ stack'[Len(stack) + 1] = Opened(p)
    BY PushedFrames DEF Pushed
<1>2. sources' = sources /\ p \in DOMAIN sources
    BY DEF Pushed
<1>3. /\ IncludeMap' = IncludeMap /\ OwnOf(k)' = OwnOf(k)
      /\ \A q : Bare(q)' = Bare(q)
    BY <1>2, FilesKept
<1>4. Finished' = Finished
    BY PushedFinishes
<1>5. Opened(p).path = p /\ (~Bare(p) => Opened(p).composed[k] = <<>>)
    BY <1>2, OpenedIs
<1>6. Held(k)' = [i \in DOMAIN stack' |->
                     IF Bare(stack'[i].path) THEN <<>> ELSE stack'[i].composed[k]]
    BY <1>3 DEF Held
<1>7. DOMAIN Held(k) = 1..Len(stack)
    BY <1>1 DEF Held
<1>8. DOMAIN Held(k)' = 1..(Len(stack) + 1)
    BY <1>1, <1>6
<1>9. Held(k)'[Len(stack) + 1] = <<>>
    BY <1>1, <1>5, <1>6
<1>10. ASSUME NEW i \in 1..Len(stack)
       PROVE  Held(k)'[i] = Held(k)[i]
  <2>1. stack'[i] = stack[i] /\ i \in DOMAIN stack' /\ i \in DOMAIN stack
    BY <1>1
  <2>2. QED
    BY <1>6, <2>1 DEF Held
<1>11. Laid(Held(k), Finished, OwnOf(k), IncludeMap)
    BY DEF HeldInv
<1>12. Laid(Held(k)', Finished, OwnOf(k), IncludeMap)
    BY <1>1, <1>7, <1>8, <1>9, <1>10, <1>11, LaidPushed
<1>13. QED
    BY <1>3, <1>4, <1>12 DEF HeldInv

\* Skipping an include adds no declaration.
LEMMA SkipKeepsHeld ==
    ASSUME FromJob, StackInv, SkipInclude, NEW k \in Kinds, HeldInv(k)
    PROVE  HeldInv(k)'
<1>1. /\ DOMAIN stack' = DOMAIN stack
      /\ \A i \in DOMAIN stack :
            stack'[i].path = stack[i].path /\ stack'[i].composed = stack[i].composed
    BY SkippedFrames
<1>2. sources' = sources
    BY DEF SkipInclude
<1>3. /\ IncludeMap' = IncludeMap /\ OwnOf(k)' = OwnOf(k)
      /\ \A q : Bare(q)' = Bare(q)
    BY <1>2, FilesKept
<1>4. Finished' = Finished
    BY SkippedFinishes
<1>5. Held(k)' = [i \in DOMAIN stack' |->
                     IF Bare(stack'[i].path) THEN <<>> ELSE stack'[i].composed[k]]
    BY <1>3 DEF Held
<1>6. Held(k)' = Held(k)
    BY <1>1, <1>5 DEF Held
<1>7. Laid(Held(k), Finished, OwnOf(k), IncludeMap)
    BY DEF HeldInv
<1>8. QED
    BY <1>3, <1>4, <1>6, <1>7 DEF HeldInv

\* What the file at the top adds of its own.
LEMMA HeldWithTop ==
    ASSUME FromJob, StackInv, FinishedInv, Closing, NEW k \in Kinds, HeldInv(k)
    PROVE  Laid(Longer(Held(k), Len(stack), Own(Top.path, k)), Finished \cup {Top.path},
                OwnOf(k), IncludeMap)
<1> DEFINE own == OwnOf(k)
           p == Top.path
<1>1. stack # <<>>
    BY DEF Closing
<1>2. Len(stack) \in Nat /\ Len(stack) > 0 /\ DOMAIN stack = 1..Len(stack)
    BY <1>1, TopIs
<1>3. DOMAIN Held(k) = 1..Len(stack)
    BY <1>2 DEF Held
<1>4. p \in loaded /\ p \notin Finished /\ IncludesOf(p) \subseteq Finished
    BY TopFinishes
<1>5. DOMAIN own = DOMAIN sources /\ DOMAIN IncludeMap = DOMAIN sources
    BY DEF OwnOf, IncludeMap
<1>6. Finished \subseteq DOMAIN own /\ p \in DOMAIN own
    BY <1>4, <1>5 DEF Finished, StackInv
<1>7. own[p] = Own(p, k) /\ IncludeMap[p] = IncludesOf(p)
    BY <1>5, <1>6 DEF OwnOf, IncludeMap
<1>8. Apart(own) /\ IsList(own[p])
    BY <1>5, <1>6, <1>7, OwnApart, FileLists
<1>9. \A q \in Finished : IncludeMap[q] \subseteq Finished
  <2>1. \A q \in Finished : IncludeMap[q] = IncludesOf(q)
    BY <1>5, <1>6 DEF IncludeMap
  <2>2. QED
    BY <2>1 DEF FinishedInv
<1>10. Laid(Held(k), Finished, own, IncludeMap)
    BY DEF HeldInv
<1> HIDE DEF own, p
<1> DEFINE longer == Longer(Held(k), Len(stack), own[p])
<1>11. p \in DOMAIN own \ Finished /\ Finished \in SUBSET DOMAIN own /\ IncludeMap[p] \subseteq Finished
    BY <1>4, <1>6, <1>7
<1>12. longer = Longer(Held(k), Len(stack), own[p])
    OBVIOUS
<1> HIDE DEF longer
<1>13. Laid(longer, Finished \cup {p}, own, IncludeMap)
    BY <1>2, <1>3, <1>8, <1>9, <1>10, <1>11, <1>12, LaidLonger
<1>14. QED
    BY <1>7, <1>12, <1>13 DEF own, p

\* Closing an include adds its own declarations behind those it includes, and
\* merges them below.
LEMMA CloseKeepsHeld ==
    ASSUME FromJob, StackInv, FinishedInv, CloseInclude, NEW k \in Kinds, HeldInv(k)
    PROVE  HeldInv(k)'
<1> DEFINE n == Len(stack)
           longer == Longer(Held(k), n, Own(Top.path, k))
<1>1. /\ n \in Nat /\ n > 1 /\ DOMAIN stack = 1..n
      /\ DOMAIN stack' = 1..(n - 1)
      /\ \A i \in 1..(n - 1) : i # n - 1 => stack'[i] = stack[i]
      /\ \A i \in 1..(n - 1) : stack'[i].path = stack[i].path
      /\ Bare(Top.path) => stack'[n - 1].composed = stack[n - 1].composed
    BY ClosedFrames
<1>2. sources' = sources /\ stack # <<>> /\ Closing
    BY DEF CloseInclude, Closing
<1>3. /\ IncludeMap' = IncludeMap /\ OwnOf(k)' = OwnOf(k)
      /\ \A q : Bare(q)' = Bare(q)
    BY <1>2, FilesKept
<1>4. Finished' = Finished \cup {Top.path} /\ Top = stack[n]
    BY <1>2, ClosedFinishes, TopIs
<1>5. n - 1 \in 1..n /\ n - 1 < n /\ n - 1 \in 1..(n - 1) /\ n \in 1..n
  <2>1. n \in Nat /\ n > 1
    BY <1>1
  <2> HIDE DEF n
  <2>2. QED
    BY <2>1
<1>6. ~Bare(stack[n - 1].path)
    BY <1>1, <1>5, OnlyTopBare
<1>7. Laid(longer, Finished \cup {Top.path}, OwnOf(k), IncludeMap)
    BY <1>2, HeldWithTop
<1>8. /\ DOMAIN longer = 1..n
      /\ longer[n] = Held(k)[n] \o Own(Top.path, k)
      /\ \A i \in 1..n : i # n => longer[i] = Held(k)[i]
    BY <1>1, <1>5 DEF Held, Longer
<1>9. stack'[n - 1].composed[k] = longer[n - 1] \o longer[n]
  <2>1. longer[n - 1] = stack[n - 1].composed[k]
    <3>1. longer[n - 1] = Held(k)[n - 1] /\ n - 1 \in DOMAIN stack
      <4> HIDE DEF n, longer
      <4>1. n \in Nat
        BY <1>1
      <4>2. n - 1 # n
        BY <4>1
      <4>3. QED
        BY <1>1, <1>5, <1>8, <4>2
    <3>2. Held(k)[n - 1] = stack[n - 1].composed[k]
      BY <1>6, <3>1, HeldIs
    <3>3. QED
      BY <3>1, <3>2
  <2>2. CASE Bare(Top.path)
    <3>1. Held(k)[n] = <<>> /\ Own(Top.path, k) = <<>>
      BY <1>1, <1>4, <1>5, <2>2, HeldIs DEF Own
    <3>2. longer[n] = <<>>
      BY <1>8, <3>1, EmptySeq, ConcatEmptySeq
    <3>3. IsList(longer[n - 1])
      BY <1>5, <1>7, <1>8 DEF Laid
    <3>4. longer[n - 1] \o <<>> = longer[n - 1]
      BY <3>3, ConcatEmptySeq DEF IsList
    <3>5. QED
      BY <1>1, <2>1, <2>2, <3>2, <3>4
  <2>3. CASE ~Bare(Top.path)
    <3>1. longer[n] = Top.composed[k] \o Own(Top.path, k)
      BY <1>1, <1>4, <1>5, <1>8, <2>3, HeldIs
    <3>2. Composed[k] = Top.composed[k] \o Own(Top.path, k)
      BY <1>2, <2>3, ComposedTop
    <3>3. stack'[n - 1].composed[k] = stack[n - 1].composed[k] \o Composed[k]
      BY <2>3, MergedParent
    <3>4. QED
      BY <2>1, <3>1, <3>2, <3>3
  <2>4. QED
    BY <2>2, <2>3
<1>10. Held(k)' = [i \in DOMAIN stack' |->
                      IF Bare(stack'[i].path) THEN <<>> ELSE stack'[i].composed[k]]
    BY <1>3 DEF Held
<1>11. \A i \in 1..(n - 1) : i # n - 1 => longer[i] = Held(k)[i] /\ i \in DOMAIN stack
  <2>1. \A i \in 1..(n - 1) : i \in 1..n /\ i # n
    <3>1. n \in Nat
      BY <1>1
    <3> HIDE DEF n, longer
    <3>2. QED
      BY <3>1
  <2> HIDE DEF n, longer
  <2>2. QED
    BY <1>1, <1>8, <2>1
<1> HIDE DEF n, longer
<1>12. ASSUME NEW i \in 1..(n - 1)
       PROVE  Held(k)'[i] = IF i = n - 1 THEN longer[n - 1] \o longer[n] ELSE longer[i]
  <2>1. CASE i = n - 1
    BY <1>1, <1>5, <1>6, <1>9, <1>10, <2>1
  <2>2. CASE i # n - 1
    BY <1>1, <1>10, <1>11, <2>2, HeldIs
  <2>3. QED
    BY <2>1, <2>2
<1>13. Held(k)' = Joined(longer, n)
    BY <1>1, <1>10, <1>12 DEF Joined
<1>14. Laid(Joined(longer, n), Finished \cup {Top.path}, OwnOf(k), IncludeMap)
    BY <1>1, <1>7, <1>8, LaidJoined
<1>15. QED
    BY <1>3, <1>4, <1>13, <1>14 DEF HeldInv

--------------------------------------------------------------------------------
\* The walk.

\* An include is opened only if it was not loaded before.
LEMMA OpenPushes ==
    ASSUME FromJob, StackInv, OpenRoot \/ OpenInclude
    PROVE  \E p : Pushed(p)
<1>1. CASE OpenRoot
  <2>1. Root \in Reachable
    BY RootReachable
  <2>2. stack' = Append(stack, Opened(Root))
    BY <1>1, RootFrame
  <2>3. Pushed(Root)
    BY <1>1, <2>1, <2>2 DEF OpenRoot, Pushed
  <2>4. QED
    BY <2>3
<1>2. CASE OpenInclude
  <2>1. stack # <<>> /\ Reading
    BY <1>2 DEF OpenInclude, Reading
  <2>2. Top.path \in Reachable /\ Included \in IncludesOf(Top.path)
    BY <2>1, TopPlace DEF StackInv
  <2>3. Included \in Reachable
    BY <2>2, ReachFollows DEF Reachable
  <2>4. Included \in DOMAIN sources
    BY <1>2 DEF OpenInclude, Unreadable
  <2>5. Pushed(Included)
    BY <1>2, <2>1, <2>3, <2>4 DEF OpenInclude, Pushed
  <2>6. QED
    BY <2>5
<1>3. QED
    BY <1>1, <1>2

\* Every step of the walk but the last keeps what holds of it.
LEMMA WalkGoesOn ==
    ASSUME FromJob, LoadInv, OpenRoot \/ OpenInclude \/ SkipInclude \/ CloseInclude
    PROVE  LoadInv' /\ stack' # <<>>
<1>1. StackInv /\ FinishedInv /\ TenantInv /\ \A k \in Kinds : HeldInv(k)
    BY DEF LoadInv
<1>2. Len(<<>>) = 0
    BY EmptyList
<1>3. CASE OpenRoot \/ OpenInclude
  <2>1. PICK p : Pushed(p)
    BY <1>1, <1>3, OpenPushes
  <2>2. StackInv' /\ FinishedInv' /\ TenantInv'
    BY <1>1, <2>1, PushKeepsStack, PushKeepsFinished, PushKeepsTenant
  <2>3. \A k \in Kinds : HeldInv(k)'
    BY <1>1, <2>1, PushKeepsHeld
  <2>4. Len(stack') = Len(stack) + 1 /\ Len(stack) \in Nat
    BY <1>1, <2>1, PushedFrames DEF Pushed
  <2>5. QED
    BY <1>2, <2>2, <2>3, <2>4 DEF LoadInv
<1>4. CASE SkipInclude
  <2>1. StackInv' /\ FinishedInv' /\ TenantInv'
    BY <1>1, <1>4, SkipKeepsStack, SkipKeepsFinished, SkipKeepsTenant
  <2>2. \A k \in Kinds : HeldInv(k)'
    BY <1>1, <1>4, SkipKeepsHeld
  <2>3. Len(stack') = Len(stack)
    BY <1>1, <1>4, SkippedFrames
  <2>4. Len(stack) > 0 /\ Len(stack) \in Nat
    BY <1>1, <1>4, TopIs DEF SkipInclude, Reading
  <2>5. QED
    BY <1>2, <2>1, <2>2, <2>3, <2>4 DEF LoadInv
<1>5. CASE CloseInclude
  <2>1. StackInv' /\ FinishedInv' /\ TenantInv'
    BY <1>1, <1>5, CloseKeepsStack, CloseKeepsFinished, CloseKeepsTenant
  <2>2. \A k \in Kinds : HeldInv(k)'
    BY <1>1, <1>5, CloseKeepsHeld
  <2>3. Len(stack') = Len(stack) - 1 /\ Len(stack) \in Nat /\ Len(stack) > 1
    BY <1>1, <1>5, ClosedFrames
  <2>4. QED
    BY <1>2, <2>1, <2>2, <2>3 DEF LoadInv
<1>6. QED
    BY <1>3, <1>4, <1>5

\* With the root everything that was loaded is done with: it is closed under
\* inclusion, and all that is reached.
LEMMA WalkEnds ==
    ASSUME FromJob, LoadInv, CloseRoot
    PROVE  ComposedInv'
<1>1. StackInv /\ FinishedInv /\ TenantInv /\ \A k \in Kinds : HeldInv(k)
    BY DEF LoadInv
<1>2. /\ stack # <<>> /\ Closing /\ Len(stack) = 1 /\ ~Bare(Top.path)
      /\ sources' = sources /\ loaded' = loaded /\ system' = Composed
    BY DEF CloseRoot, Closing
<1>3. /\ Reachable' = Reachable /\ IncludeMap' = IncludeMap
      /\ \A k : OwnOf(k)' = OwnOf(k)
      /\ \A p : Bare(p)' = Bare(p) /\ Circular(p)' = Circular(p) /\ TenantOf(p)' = TenantOf(p)
    BY <1>2, FilesKept
<1>4. DOMAIN stack = 1..1 /\ Top = stack[1] /\ Top.path = Root
    BY <1>1, <1>2, TopIs DEF StackInv
<1>5. Opening = {Root}
  <2>1. 1..1 = {1}
    OBVIOUS
  <2>2. QED
    BY <1>4, <2>1 DEF Opening
<1>6. /\ Root \in loaded /\ IncludesOf(Root) \subseteq Finished /\ ~Circular(Root)
      /\ Finished \cup {Root} = loaded
    BY <1>1, <1>2, <1>4, <1>5, TopFinishes DEF Finished
<1>7. loaded = Reachable /\ loaded \subseteq DOMAIN sources
  <2>1. loaded \subseteq DOMAIN sources \cap Reachable
    BY <1>1 DEF StackInv
  <2>2. \A q \in loaded : IncludesOf(q) \subseteq loaded
    BY <1>1, <1>6 DEF FinishedInv
  <2>3. loaded \subseteq NamedPaths /\ {Root} \subseteq loaded
    BY <1>6, <2>1 DEF NamedPaths
  <2>4. Reachable \subseteq loaded
    BY <2>2, <2>3, ReachWithin DEF Reachable
  <2>5. QED
    BY <2>1, <2>4
<1>8. \A p \in loaded : ~Circular(p)
    BY <1>1, <1>6 DEF FinishedInv
<1>9. ASSUME NEW p \in loaded, ~Bare(p)
      PROVE  TenantOf(p) \in {None, Composed.tenant}
  <2>1. Composed.tenant = Top.composed.tenant
    BY <1>1, <1>2, ComposedTop
  <2>2. PICK i \in DOMAIN stack : TenantOf(p) \in {None, stack[i].composed.tenant}
    <3>1. CASE p = Root
      BY <1>1, <1>4, <1>9, <3>1 DEF TenantInv
    <3>2. CASE p \in Finished
      BY <1>1, <1>9, <3>2 DEF TenantInv
    <3>3. QED
      BY <1>6, <3>1, <3>2
  <2>3. i = 1
    BY <1>4
  <2>4. QED
    BY <1>4, <2>1, <2>2, <2>3
<1>10. ASSUME NEW k \in Kinds
       PROVE  Laid(<<Composed[k]>>, loaded, OwnOf(k), IncludeMap)
  <2>1. Laid(Longer(Held(k), 1, Own(Root, k)), loaded, OwnOf(k), IncludeMap)
    BY <1>1, <1>2, <1>4, <1>6, HeldWithTop
  <2>2. DOMAIN Held(k) = 1..1 /\ Held(k)[1] = Top.composed[k]
    BY <1>2, <1>4 DEF Held
  <2>3. Composed[k] = Held(k)[1] \o Own(Root, k)
    BY <1>1, <1>2, <1>4, <2>2, ComposedTop
  <2>4. <<Composed[k]>> = [i \in 1..1 |-> Held(k)[1] \o Own(Root, k)]
    BY <2>3
  <2>5. Longer(Held(k), 1, Own(Root, k)) = [i \in 1..1 |-> Held(k)[1] \o Own(Root, k)]
    <3> DEFINE held == Held(k)
               all == held[1] \o Own(Root, k)
    <3>1. DOMAIN held = 1..1 /\ \A i \in 1..1 : i = 1
      BY <2>2
    <3> HIDE DEF held, all
    <3>2. [held EXCEPT ![1] = all] = [i \in 1..1 |-> all]
      BY <3>1
    <3>3. QED
      BY <3>2 DEF Longer, held, all
  <2>6. QED
    BY <2>1, <2>4, <2>5
<1>11. \A k \in Kinds : HeldAtEnd(k)'
    BY <1>2, <1>3, <1>10 DEF HeldAtEnd
<1>12. QED
    BY <1>2, <1>3, <1>7, <1>8, <1>9, <1>11 DEF ComposedInv

\* The phases behind the walk change nothing it composed.
LEMMA WalkKept ==
    ASSUME UNCHANGED includeVars
    PROVE  FromJob' = FromJob /\ LoadInv' = LoadInv /\ ComposedInv' = ComposedInv
<1>1. sources' = sources /\ stack' = stack /\ loaded' = loaded /\ system' = system
    BY DEF includeVars
<1>2. FromJob' = FromJob
    BY <1>1, FilesKept
<1>3. LoadInv' = LoadInv
    BY <1>1 DEF LoadInv, StackInv, FinishedInv, Finished, Opening, TenantInv, TenantOf, HeldInv,
        Held, OwnOf, IncludeMap, Own, Bare, Opened, IncludesOf, Circular, Reachable, Reach, NamedPaths
<1>4. ComposedInv' = ComposedInv
    BY <1>1 DEF ComposedInv, HeldAtEnd, TenantOf,
        OwnOf, IncludeMap, Own, Bare, Opened, IncludesOf, Circular, Reachable, Reach, NamedPaths
<1>5. QED
    BY <1>2, <1>3, <1>4

\* Nothing holds of the walk yet when it starts.
LEMMA WalkStarts ==
    ASSUME Init
    PROVE  WalkInv
<1>1. stack = <<>> /\ loaded = {} /\ phase = "load" /\ FromJob
    BY DEF Init, InitIncludes, FromJob
<1>2. DOMAIN stack = {} /\ IsList(stack) /\ Len(stack) = 0
    BY <1>1, EmptyList
<1>3. Finished = {}
    BY <1>1 DEF Finished
<1>4. StackInv /\ FinishedInv /\ TenantInv
    BY <1>1, <1>2, <1>3 DEF StackInv, FinishedInv, TenantInv
<1>5. \A k \in Kinds : HeldInv(k)
    BY <1>2, <1>3 DEF HeldInv, Held, Laid
<1>6. QED
    BY <1>1, <1>4, <1>5 DEF WalkInv, LoadInv

\* The invariant of the walk is inductive.
LEMMA WalkStep ==
    ASSUME WalkInv, [Next]_vars
    PROVE  WalkInv'
<1>1. CASE Load
  <2>1. /\ phase = "load" /\ NextInclude
        /\ phase' = IF stack' = <<>> THEN "validate" ELSE "load"
    BY <1>1 DEF Load
  <2>2. FromJob /\ LoadInv
    BY <2>1 DEF WalkInv
  <2>3. sources' = sources
    BY <2>1 DEF NextInclude, OpenRoot, OpenInclude, SkipInclude, CloseInclude, CloseRoot
  <2>4. FromJob'
    BY <2>2, <2>3, FilesKept
  <2>5. CASE CloseRoot
    <3>1. stack' = <<>> /\ ComposedInv'
      BY <2>2, <2>5, WalkEnds DEF CloseRoot
    <3>2. QED
      BY <2>1, <2>4, <3>1 DEF WalkInv
  <2>6. CASE ~CloseRoot
    <3>1. LoadInv' /\ stack' # <<>>
      BY <2>1, <2>2, <2>6, WalkGoesOn DEF NextInclude
    <3>2. QED
      BY <2>1, <2>4, <3>1 DEF WalkInv
  <2>7. QED
    BY <2>5, <2>6
<1>2. CASE ~Load /\ Next
  <2>1. UNCHANGED includeVars
    BY <1>2 DEF Next, RejectLoad, Validate, Lower, Generate
  <2>2. /\ phase' # "load"
        /\ phase' \in {"validate", "lower", "contract"} => phase \in {"validate", "lower"}
    BY <1>2 DEF Next, RejectLoad, Validate, Lower, Generate,
                CheckContract, EmitCommon, EmitApi, EmitWorker, Filter, Emit
  <2>3. QED
    BY <2>1, <2>2, WalkKept DEF WalkInv
<1>3. CASE UNCHANGED vars
  <2>1. UNCHANGED includeVars /\ phase' = phase
    BY <1>3 DEF vars, generatorVars
  <2>2. QED
    BY <2>1, WalkKept DEF WalkInv
<1>4. QED
    BY <1>1, <1>2, <1>3

\* It holds in every run of the compiler.
LEMMA WalkAlways == Spec => []WalkInv
<1>1. Init => WalkInv
    BY WalkStarts
<1>2. WalkInv /\ [Next]_vars => WalkInv'
    BY WalkStep
<1>3. QED
    BY <1>1, <1>2, PTL DEF Spec

\* The walk hands the validator a system whose files agree on the tenant, by
\* whatever ways they include each other.
THEOREM CompilerTenantsAgree == Spec => []TenantsAgree
<1>1. WalkInv => TenantsAgree
    BY DEF WalkInv, ComposedInv, TenantsAgree, TenantOf
<1>2. QED
    BY <1>1, WalkAlways, PTL

\* The walk ends with every file that is reached, none of them in a circle, and
\* each declaration once and behind those its file includes.
THEOREM CompilerIncludesSound == Spec => []IncludesSound
<1>1. ASSUME WalkInv, phase = "validate"
      PROVE  /\ Reachable \subseteq DOMAIN sources
             /\ \A p \in Reachable : p \notin Reach(IncludesOf(p))
  <2>1. ComposedInv
    BY <1>1 DEF WalkInv
  <2>2. QED
    BY <2>1 DEF ComposedInv, Circular
<1>2. ASSUME WalkInv, phase = "validate",
             NEW k \in Kinds, NEW p \in Reachable, NEW d \in Elements(Own(p, k))
      PROVE  /\ Count(system[k], d) = Cardinality({q \in Reachable : d \in Elements(Own(q, k))})
             /\ \A q \in IncludesOf(p) : \A e \in Elements(Own(q, k)) :
                   Before(system[k], e, d)
  <2> DEFINE lists == <<system[k]>>
  <2>1. FromJob /\ loaded = Reachable /\ Reachable \subseteq DOMAIN sources
    BY <1>2 DEF WalkInv, ComposedInv
  <2>2. Laid(lists, Reachable, OwnOf(k), IncludeMap)
    BY <1>2 DEF WalkInv, ComposedInv, HeldAtEnd
  <2>3. \A q \in Reachable : OwnOf(k)[q] = Own(q, k) /\ IncludeMap[q] = IncludesOf(q)
    BY <2>1 DEF OwnOf, IncludeMap
  <2>4. DOMAIN lists = {1} /\ lists[1] = system[k]
    OBVIOUS
  <2> HIDE DEF lists
  <2>5. ASSUME NEW x, NEW i \in DOMAIN system[k], system[k][i] = x
        PROVE  <<1, i>> \in Spots(lists, x)
    <3>1. 1 \in DOMAIN lists /\ i \in DOMAIN lists[1] /\ lists[1][i] = x
      BY <2>4, <2>5
    <3>2. QED
      BY <3>1, SpotIs
  <2>6. PICK s : Spots(lists, d) = {s}
    <3>1. d \in Elements(OwnOf(k)[p])
      BY <1>2, <2>3
    <3>2. Spots(lists, d) # {} /\ \A t, u \in Spots(lists, d) : t = u
      BY <2>2, <3>1 DEF Laid
    <3>3. PICK t : t \in Spots(lists, d)
      BY <3>2
    <3>4. Spots(lists, d) = {t}
      BY <3>2, <3>3
    <3>5. QED
      BY <3>4
  <2>7. s[1] = 1 /\ s[2] \in DOMAIN system[k] /\ system[k][s[2]] = d
    BY <2>4, <2>6, SpotHas
  <2>8. {i \in DOMAIN system[k] : system[k][i] = d} = {s[2]}
    <3>1. ASSUME NEW i \in DOMAIN system[k], system[k][i] = d
          PROVE  i = s[2]
      <4>1. <<1, i>> = s
        BY <2>5, <2>6, <3>1
      <4>2. QED
        BY <4>1
    <3>2. QED
      BY <2>7, <3>1
  <2>9. {q \in Reachable : d \in Elements(Own(q, k))} = {p}
    <3>1. ASSUME NEW q \in Reachable, d \in Elements(Own(q, k))
          PROVE  q = p
      <4>1. Apart(OwnOf(k)) /\ DOMAIN OwnOf(k) = DOMAIN sources
        BY <2>1, OwnApart DEF OwnOf
      <4>2. p \in DOMAIN OwnOf(k) /\ q \in DOMAIN OwnOf(k)
        BY <2>1, <4>1
      <4>3. OwnOf(k)[p] = Own(p, k) /\ OwnOf(k)[q] = Own(q, k)
        BY <2>3
      <4>4. PICK c \in DOMAIN Own(p, k) : Own(p, k)[c] = d
        BY <1>2 DEF Elements
      <4>5. PICK c2 \in DOMAIN Own(q, k) : Own(q, k)[c2] = d
        BY <3>1 DEF Elements
      <4>6. QED
        BY <4>1, <4>2, <4>3, <4>4, <4>5 DEF Apart
    <3>2. QED
      BY <3>1
  <2>10. Count(system[k], d) = Cardinality({q \in Reachable : d \in Elements(Own(q, k))})
    <3>1. Cardinality({s[2]}) = 1 /\ Cardinality({p}) = 1
      BY FS_Singleton
    <3>2. QED
      BY <2>8, <2>9, <3>1 DEF Count
  <2>11. ASSUME NEW q \in IncludesOf(p), NEW e \in Elements(Own(q, k)),
                NEW i \in DOMAIN system[k], NEW j \in DOMAIN system[k],
                system[k][i] = e, system[k][j] = d
         PROVE  i < j
    <3>1. q \in Reachable
      BY <2>11, ReachFollows DEF Reachable
    <3>2. <<1, i>> \in Spots(lists, e) /\ <<1, j>> \in Spots(lists, d)
      BY <2>5, <2>11
    <3>3. Sooner(<<1, i>>, <<1, j>>)
      BY <2>2, <2>3, <3>1, <3>2 DEF Laid
    <3>4. QED
      BY <3>3 DEF Sooner
  <2>12. QED
    BY <2>10, <2>11 DEF Before
<1>3. WalkInv => IncludesSound
    BY <1>1, <1>2 DEF IncludesSound
<1>4. QED
    BY <1>3, WalkAlways, PTL

--------------------------------------------------------------------------------
\* The phases.

\* Inductive by itself: behind the validator the system is a valid one, and
\* what reaches the contract is its lowering.
PhaseInv ==
    /\ phase \in {"lower", "contract"} => Valid
    /\ phase = "contract" => ir = Lowered(system)

\* No step but Load changes the system.
LEMMA SystemKept ==
    ASSUME Next, phase # "load"
    PROVE  UNCHANGED includeVars
  BY DEF Next, Load, RejectLoad, Validate, Lower, Generate

\* Validate and Lower are the only ways into "lower" and "contract".
LEMMA PhaseStep ==
    ASSUME PhaseInv, [Next]_vars
    PROVE  PhaseInv'
<1>1. CASE Load
    BY <1>1 DEF Load, PhaseInv
<1>2. CASE RejectLoad
    BY <1>2 DEF RejectLoad, PhaseInv
<1>3. CASE Validate
  <2>1. /\ phase' = IF Valid THEN "lower" ELSE "rejected"
        /\ system' = system
    BY <1>3 DEF Validate, includeVars
  <2>2. Valid' <=> Valid
    BY <2>1 DEF Valid
  <2>3. QED
    BY <2>1, <2>2 DEF PhaseInv
<1>4. CASE Lower
  <2>1. phase = "lower" /\ phase' = "contract" /\ ir' = Lowered(system) /\ system' = system
    BY <1>4 DEF Lower, includeVars
  <2>2. Valid' <=> Valid
    BY <2>1 DEF Valid
  <2>3. Lowered(system)' = Lowered(system)
    BY <2>1
  <2>4. QED
    BY <2>1, <2>2, <2>3 DEF PhaseInv
<1>5. CASE Generate
  <2>1. phase' \notin {"lower", "contract"}
    BY <1>5 DEF Generate, CheckContract, EmitCommon, EmitApi, EmitWorker, Filter, Emit
  <2>2. QED
    BY <2>1 DEF PhaseInv
<1>6. CASE UNCHANGED vars
  <2>1. system' = system /\ ir' = ir /\ phase' = phase
    BY <1>6 DEF vars, includeVars, generatorVars
  <2>2. Valid' <=> Valid
    BY <2>1 DEF Valid
  <2>3. Lowered(system)' = Lowered(system)
    BY <2>1
  <2>4. QED
    BY <2>1, <2>2, <2>3 DEF PhaseInv
<1>7. QED
    BY <1>1, <1>2, <1>3, <1>4, <1>5, <1>6 DEF Next

\* Behind the validator a system is valid, and behind the lowering it is lowered.
LEMMA PhasesAlways == Spec => []PhaseInv
<1>1. Init => PhaseInv
    BY DEF Init, PhaseInv
<1>2. PhaseInv /\ [Next]_vars => PhaseInv'
    BY PhaseStep
<1>3. QED
    BY <1>1, <1>2, PTL DEF Spec

--------------------------------------------------------------------------------
\* Names.

\* The validator admits one declaration of a kind for a name.
LEMMA NamesUnique ==
    ASSUME SymbolsUnique(system), NEW k \in Kinds
    PROVE  Unique(system[k])
<1> SUFFICES ASSUME NEW i \in DOMAIN system[k], NEW j \in DOMAIN system[k],
                    system[k][i].name = system[k][j].name
             PROVE  i = j
    BY DEF Unique
<1> DEFINE At(n) == [kind |-> k, name |-> system[k][n].name, at |-> <<n>>]
<1>1. At(i) \in Symbols(system) /\ At(j) \in Symbols(system)
    BY DEF Symbols, DeclaredSymbols
<1>2. At(i).name = At(j).name
    OBVIOUS
<1>3. At(i) = At(j)
    BY <1>1, <1>2 DEF SymbolsUnique
<1>4. At(i).at = At(j).at
    BY <1>3
<1>5. <<i>> = <<j>>
    BY <1>4
<1>6. QED
    BY <1>5

--------------------------------------------------------------------------------
\* Leases.

\* The times generated for a lease are those of its declaration: names are unique.
LEMMA LeaseLookup ==
    ASSUME Valid, NEW lease \in Elements(system.lease)
    PROVE  LeaseTimes(system)[lease.name] =
               [ttl |-> Seconds(lease.ttl), renew |-> Seconds(lease.renew),
                max |-> Seconds(lease.max)]
<1>1. Unique(system.lease)
    BY NamesUnique DEF Valid, Kinds
<1>2. \A l \in Elements(system.lease) : l.name = lease.name => l = lease
    BY <1>1 DEF Unique, Elements
<1>3. lease.name \in Names(system.lease)
    BY DEF Names, Elements
<1>4. (CHOOSE l \in Elements(system.lease) : l.name = lease.name) = lease
    BY <1>2
<1>5. QED
    BY <1>3, <1>4 DEF LeaseTimes

\* What the validator compared is what is generated: the two parsers agree
\* where the first has a value.
THEOREM CompilerLeaseTimesOrdered == Spec => []LeaseTimesOrdered
<1>1. PhaseInv => LeaseTimesOrdered
  <2> SUFFICES ASSUME PhaseInv, AtContract, NEW lease \in Elements(system.lease),
                      Comparable(lease.ttl), Comparable(lease.renew), Comparable(lease.max)
               PROVE  LET times == ir.times[lease.name]
                      IN  times.renew < times.ttl /\ times.ttl <= times.max
    BY DEF LeaseTimesOrdered
  <2>1. Valid /\ ir = Lowered(system)
    BY DEF PhaseInv, AtContract
  <2>2. ir.times = LeaseTimes(system)
    BY <2>1 DEF Lowered
  <2>3. ir.times[lease.name] = [ttl |-> Seconds(lease.ttl), renew |-> Seconds(lease.renew),
                                max |-> Seconds(lease.max)]
    BY <2>1, <2>2, LeaseLookup
  <2>4. Seconds(lease.renew) < Seconds(lease.ttl) /\ Seconds(lease.ttl) <= Seconds(lease.max)
    BY <2>1 DEF Valid, LeasesOk
  <2>5. QED
    BY <2>3, <2>4
<1>2. QED
    BY <1>1, PhasesAlways, PTL

--------------------------------------------------------------------------------
\* Runtime domains.

\* Every edge between two domains starts at the workflows: those of the queues
\* are all looked at, and the nested statements start there anyway.
LEMMA EdgesFromWorkflows ==
    ASSUME Valid, NEW e \in DomainEdges
    PROVE  e[1] = "workflows" /\ e[2] # "workflows"
<1>1. e[2] # None /\ e[1] # e[2]
    BY DEF DomainEdges
<1>2. CASE e \in Dependencies(system)
  <2>1. DependencyAllowed(e[1], e[2])
    BY <1>1, <1>2 DEF Valid, DependenciesOk
  <2>2. QED
    BY <1>1, <2>1 DEF DependencyAllowed
<1>3. CASE e \notin Dependencies(system)
  <2>1. PICK w \in Elements(system.workflow) :
            e \in {<<"workflows", Domain(system, s.target)>> : s \in StepStatements(w)}
    BY <1>3 DEF DomainEdges
  <2>2. e[1] = "workflows"
    BY <2>1
  <2>3. QED
    BY <1>1, <2>2
<1>4. QED
    BY <1>2, <1>3

\* A circle would need an edge back to the workflows.
THEOREM CompilerRuntimeDomainsLayered == Spec => []RuntimeDomainsLayered
<1>1. PhaseInv => RuntimeDomainsLayered
  <2> DEFINE Uses(d) == {e[2] : e \in {x \in DomainEdges : x[1] = d}}
  <2> SUFFICES ASSUME PhaseInv, AtContract,
                      NEW circle \in SUBSET {e[1] : e \in DomainEdges}, circle # {},
                      \A d \in circle : Uses(d) \cap circle # {}
               PROVE  FALSE
    BY DEF RuntimeDomainsLayered
  <2>1. Valid
    BY DEF PhaseInv, AtContract
  <2>2. PICK d \in circle : TRUE
    OBVIOUS
  <2>3. PICK x \in DomainEdges : x[2] \in circle
    BY <2>2
  <2>4. PICK y \in DomainEdges : y[1] = x[2]
    BY <2>3
  <2>5. QED
    BY <2>1, <2>3, <2>4, EdgesFromWorkflows
<1>2. QED
    BY <1>1, PhasesAlways, PTL
--------------------------------------------------------------------------------
\* The contract of the CRUD operations.

\* Two lists, one behind the other, hold what each of them holds.
LEMMA ConcatElements ==
    ASSUME NEW s, NEW t, IsList(s), IsList(t)
    PROVE  IsList(s \o t) /\ Elements(s \o t) = Elements(s) \cup Elements(t)
<1>1. /\ IsList(s \o t) /\ Len(s \o t) = Len(s) + Len(t)
      /\ \A i \in 1..Len(s) : (s \o t)[i] = s[i]
      /\ \A i \in 1..Len(t) : (s \o t)[Len(s) + i] = t[i]
    BY ConcatList
<1>2. /\ Len(s) \in Nat /\ DOMAIN s = 1..Len(s)
      /\ Len(t) \in Nat /\ DOMAIN t = 1..Len(t)
      /\ DOMAIN (s \o t) = 1..(Len(s) + Len(t))
    BY <1>1, ListRange
<1> DEFINE st == s \o t
<1> HIDE DEF st
<1>3. /\ Elements(s) = {s[i] : i \in 1..Len(s)} /\ Elements(t) = {t[i] : i \in 1..Len(t)}
      /\ Elements(st) = {st[i] : i \in 1..(Len(s) + Len(t))}
    BY <1>2 DEF Elements, st
<1>4. ASSUME NEW i \in 1..(Len(s) + Len(t))
      PROVE  st[i] \in Elements(s) \cup Elements(t)
  <2>1. CASE i \in 1..Len(s)
    BY <1>1, <1>3, <2>1 DEF st
  <2>2. CASE i \notin 1..Len(s)
    <3>1. i - Len(s) \in 1..Len(t) /\ i = Len(s) + (i - Len(s))
      BY <1>2, <2>2
    <3>2. st[i] = t[i - Len(s)]
      BY <1>1, <3>1 DEF st
    <3>3. QED
      BY <1>3, <3>1, <3>2
  <2>3. QED
    BY <2>1, <2>2
<1>5. \A i \in 1..Len(s) : i \in 1..(Len(s) + Len(t)) /\ st[i] = s[i]
    BY <1>1, <1>2 DEF st
<1>6. \A i \in 1..Len(t) : Len(s) + i \in 1..(Len(s) + Len(t)) /\ st[Len(s) + i] = t[i]
    BY <1>1, <1>2 DEF st
<1>7. Elements(st) = Elements(s) \cup Elements(t)
    BY <1>3, <1>4, <1>5, <1>6
<1>8. QED
    BY <1>1, <1>7 DEF st

\* One operation, or none.
LEMMA IfAnyElements ==
    ASSUME NEW c \in BOOLEAN, NEW x
    PROVE  LET s == IF c THEN <<>> ELSE <<x>>
           IN  IsList(s) /\ Elements(s) = IF c THEN {} ELSE {x}
<1>1. IsList(<<>>) /\ Elements(<<>>) = {}
    BY EmptyList DEF Elements
<1>2. IsList(<<x>>) /\ Elements(<<x>>) = {x}
  <2>1. IsList(<<x>>) /\ DOMAIN <<x>> = {1} /\ <<x>>[1] = x
    BY OneList
  <2>2. QED
    BY <2>1 DEF Elements
<1>3. QED
    BY <1>1, <1>2

\* A list of what a function makes of the values of another.
LEMMA MappedList ==
    ASSUME NEW s, IsList(s), NEW f, DOMAIN f = DOMAIN s, f = [i \in DOMAIN s |-> f[i]]
    PROVE  IsList(f) /\ Elements(f) = {f[i] : i \in DOMAIN s}
<1>1. Len(s) \in Nat /\ DOMAIN s = 1..Len(s)
    BY ListRange
<1>2. Elements(f) = {f[i] : i \in DOMAIN s}
    BY DEF Elements
<1>3. f \in [1..Len(s) -> Elements(f)]
    BY <1>1, <1>2
<1>4. f \in Seq(Elements(f))
    BY <1>1, <1>3, SeqDef
<1>5. QED
    BY <1>2, <1>4 DEF IsList

\* A prefix of a key holds fields of the key.
LEMMA PrefixElements ==
    ASSUME NEW s, NEW t, IsList(s), IsList(t), IsPrefix(s, t)
    PROVE  Elements(s) \subseteq Elements(t)
<1>1. /\ Len(s) \in Nat /\ DOMAIN s = 1..Len(s)
      /\ Len(t) \in Nat /\ DOMAIN t = 1..Len(t)
    BY ListRange
<1>2. Len(s) <= Len(t) /\ \A i \in 1..Len(s) : s[i] = t[i]
    BY <1>1 DEF IsPrefix
<1>3. QED
    BY <1>1, <1>2 DEF Elements

\* A key is a prefix of itself.
LEMMA PrefixOfItself ==
    ASSUME NEW s, IsList(s)
    PROVE  IsPrefix(s, s)
<1>1. Len(s) \in Nat
    BY ListRange
<1>2. QED
    BY <1>1 DEF IsPrefix

\* An entity of the composed system is one of a file, as the parser left it.
LEMMA ComposedEntities ==
    ASSUME FromJob, ComposedInv
    PROVE  IsList(system.entity) /\ \A e \in Elements(system.entity) : ParsedEntity(e)
<1>1. "entity" \in Kinds
    BY DEF Kinds
<1>2. Laid(<<system.entity>>, loaded, OwnOf("entity"), IncludeMap)
    BY <1>1 DEF ComposedInv, HeldAtEnd
<1>3. DOMAIN <<system.entity>> = {1} /\ <<system.entity>>[1] = system.entity
    OBVIOUS
<1>4. IsList(system.entity)
    BY <1>2, <1>3 DEF Laid
<1>5. ASSUME NEW e \in Elements(system.entity)
      PROVE  ParsedEntity(e)
  <2>1. PICK p \in loaded : e \in Elements(OwnOf("entity")[p])
    BY <1>2, <1>3 DEF Laid
  <2>2. p \in DOMAIN sources /\ OwnOf("entity")[p] = Own(p, "entity")
    BY DEF ComposedInv, OwnOf
  <2>3. ~Bare(p)
    BY <2>1, <2>2, EmptyList DEF Own, Elements
  <2>4. e \in Elements(sources[p].system.entity) /\ sources[p].system # None
    BY <2>1, <2>2, <2>3 DEF Own, Bare
  <2>5. Parsed(sources)
    BY ParsedFiles
  <2>6. ParsedSystem(sources[p].system)
    BY <2>2, <2>4, <2>5 DEF Parsed
  <2>7. QED
    BY <2>4, <2>6 DEF ParsedSystem
<1>6. QED
    BY <1>4, <1>5

\* find_entity finds the entity that is declared: names are unique.
LEMMA EntityFound ==
    ASSUME SymbolsUnique(system), IsList(system.entity), NEW e \in Elements(system.entity)
    PROVE  IsEntity(system, e.name) /\ EntityNamed(system, e.name) = e
<1> DEFINE s == system.entity
<1>1. Unique(s)
    BY NamesUnique DEF Kinds
<1>2. DOMAIN s = 1..Len(s) /\ Len(s) \in Nat
    BY ListRange
<1> HIDE DEF s
<1>3. PICK i \in DOMAIN s : s[i] = e
    BY DEF Elements, s
<1>4. \A j \in 1..(i - 1) : s[j].name # e.name
  <2> SUFFICES ASSUME NEW j \in 1..(i - 1), s[j].name = e.name
               PROVE  FALSE
    OBVIOUS
  <2>1. j \in DOMAIN s /\ j # i
    BY <1>2
  <2>2. QED
    BY <1>1, <1>3, <2>1 DEF Unique
<1>5. \A j \in DOMAIN s : s[j].name = e.name => j = i
    BY <1>1, <1>3 DEF Unique
<1>6. (CHOOSE j \in DOMAIN s : s[j].name = e.name /\ \A l \in 1..(j - 1) : s[l].name # e.name) = i
    BY <1>3, <1>4, <1>5
<1>7. FirstNamed(s, e.name) = e
    BY <1>3, <1>6 DEF FirstNamed
<1>8. QED
    BY <1>7 DEF EntityNamed, IsEntity, s

\* The shapes of an api block are in the table.
LEMMA ShapesTabled ==
    ASSUME NEW e \in Elements(system.entity)
    PROVE  Names(DerivedShapes(e)) \subseteq DOMAIN ShapeTable(system)
<1>1. PICK i \in DOMAIN system.entity : system.entity[i] = e
    BY DEF Elements
<1>2. DOMAIN ShapeTable(system) =
          Names(system.shape)
             \cup UNION {Names(DerivedShapes(system.entity[j])) : j \in DOMAIN system.entity}
    BY DEF ShapeTable
<1>3. QED
    BY <1>1, <1>2

\* The operations of an api block find the shapes derived from it.
LEMMA BlockShapes ==
    ASSUME NEW e, e.api # None, IsList(e.api.lists)
    PROVE  /\ ResponseName(e) \in Names(DerivedShapes(e))
           /\ e.api.create # None => Request(CreateName(e)) \in Names(DerivedShapes(e))
           /\ e.api.update # None => Request(UpdateName(e)) \in Names(DerivedShapes(e))
           /\ \A list \in Elements(e.api.lists) :
                 Response(ListName(e, list)) \in Names(DerivedShapes(e))
<1> DEFINE api == e.api
           Shape(name, fields) == [name |-> name, fields |-> fields]
           answer == Shape(ResponseName(e), ResponseFields(e))
           create == Shape(Request(CreateName(e)), RequestFields(e, api.create.fields))
           update == Shape(Request(UpdateName(e)), RequestFields(e, <<"status">>))
           List(list) == Shape(Response(ListName(e, list)), ListFields(e, list))
           creates == IF api.create = None THEN <<>> ELSE <<create>>
           updates == IF api.update = None THEN <<>> ELSE <<update>>
           lists == [i \in DOMAIN api.lists |-> List(api.lists[i])]
<1>1. DerivedShapes(e) = <<answer>> \o creates \o updates \o lists
    BY DEF DerivedShapes
<1>2. /\ answer.name = ResponseName(e) /\ create.name = Request(CreateName(e))
      /\ update.name = Request(UpdateName(e))
      /\ \A list : List(list).name = Response(ListName(e, list))
    OBVIOUS
<1> HIDE DEF answer, create, update, List, api
<1>3. IsList(<<answer>>) /\ Elements(<<answer>>) = {answer}
  <2>1. IsList(<<answer>>) /\ DOMAIN <<answer>> = {1} /\ <<answer>>[1] = answer
    BY OneList
  <2>2. QED
    BY <2>1 DEF Elements
<1>4. /\ IsList(creates) /\ Elements(creates) = IF api.create = None THEN {} ELSE {create}
      /\ IsList(updates) /\ Elements(updates) = IF api.update = None THEN {} ELSE {update}
    BY IfAnyElements
<1>5. IsList(lists) /\ Elements(lists) = {lists[i] : i \in DOMAIN api.lists}
    BY MappedList DEF api
<1>6. \A i \in DOMAIN api.lists : lists[i] = List(api.lists[i])
    OBVIOUS
<1> HIDE DEF creates, updates, lists
<1>7. Elements(DerivedShapes(e)) =
          {answer} \cup Elements(creates) \cup Elements(updates) \cup Elements(lists)
  <2>1. /\ IsList(<<answer>> \o creates)
        /\ Elements(<<answer>> \o creates) = {answer} \cup Elements(creates)
    BY <1>3, <1>4, ConcatElements
  <2>2. /\ IsList(<<answer>> \o creates \o updates)
        /\ Elements(<<answer>> \o creates \o updates) =
              {answer} \cup Elements(creates) \cup Elements(updates)
    BY <1>4, <2>1, ConcatElements
  <2>3. QED
    BY <1>1, <1>5, <2>2, ConcatElements
<1>8. Names(DerivedShapes(e)) = {x.name : x \in Elements(DerivedShapes(e))}
    BY DEF Names, Elements
<1>9. \A list \in Elements(api.lists) : List(list) \in Elements(lists)
    BY <1>5, <1>6 DEF Elements
<1>10. QED
    BY <1>2, <1>4, <1>7, <1>8, <1>9 DEF api

\* The operations of an api block: what each of them is lowered to.
LEMMA BlockOperations ==
    ASSUME NEW e, e.api # None, IsList(e.api.lists), NEW a \in Elements(DerivedApis(system, e))
    PROVE  /\ a.entity = e.name
           /\ \/ /\ a.operation = "create" /\ a.method = "POST" /\ e.api.create # None
                 /\ a.path = Resource(e)
                 /\ a.input = Request(CreateName(e)) /\ a.output = ResponseName(e)
              \/ /\ a.operation = "get" /\ a.method = "GET" /\ e.api.get # None
                 /\ a.path = Resource(e) /\ a.output = ResponseName(e)
              \/ /\ a.operation = "list" /\ a.method = "GET"
                 /\ \E list \in Elements(e.api.lists) :
                       /\ a.path = list.path
                       /\ a.selector = SelectorFields(e, list)
                       /\ a.output = Response(ListName(e, list))
              \/ /\ a.operation = "update_status" /\ a.method = "PATCH" /\ e.api.update # None
                 /\ a.path = StatusPath(Resource(e))
                 /\ a.input = Request(UpdateName(e)) /\ a.output = ResponseName(e)
              \/ /\ a.operation = "delete" /\ a.method = "DELETE" /\ e.api.delete # None
                 /\ a.path = Resource(e)
<1> DEFINE api == e.api
           out == ResponseName(e)
           Api(name, method, path, op, input, output, selector) ==
               [name |-> name, method |-> method, path |-> path, entity |-> e.name,
                operation |-> op, input |-> input, output |-> output,
                starts |-> None, enqueues |-> None, selector |-> selector,
                fieldPath |-> FieldPath(system, path, e.name)]
           create == Api(CreateName(e), "POST", Resource(e), "create",
                         Request(CreateName(e)), out, <<>>)
           get == Api(GetName(e), "GET", Resource(e), "get", None, out, <<>>)
           List(list) == Api(ListName(e, list), "GET", list.path, "list", None,
                             Response(ListName(e, list)), SelectorFields(e, list))
           update == Api(UpdateName(e), "PATCH", StatusPath(Resource(e)), "update_status",
                         Request(UpdateName(e)), out, <<>>)
           delete == Api(DeleteName(e), "DELETE", Resource(e), "delete", None, None, <<>>)
           creates == IF api.create = None THEN <<>> ELSE <<create>>
           gets == IF api.get = None THEN <<>> ELSE <<get>>
           lists == [i \in DOMAIN api.lists |-> List(api.lists[i])]
           updates == IF api.update = None THEN <<>> ELSE <<update>>
           deletes == IF api.delete = None THEN <<>> ELSE <<delete>>
<1>1. DerivedApis(system, e) = creates \o gets \o lists \o updates \o deletes
    BY DEF DerivedApis
<1>2. /\ create.entity = e.name /\ create.operation = "create" /\ create.method = "POST"
      /\ create.path = Resource(e) /\ create.input = Request(CreateName(e)) /\ create.output = out
    OBVIOUS
<1>3. /\ get.entity = e.name /\ get.operation = "get" /\ get.method = "GET"
      /\ get.path = Resource(e) /\ get.output = out
    OBVIOUS
<1>4. ASSUME NEW list
      PROVE  /\ List(list).entity = e.name /\ List(list).operation = "list"
             /\ List(list).method = "GET" /\ List(list).path = list.path
             /\ List(list).selector = SelectorFields(e, list)
             /\ List(list).output = Response(ListName(e, list))
    OBVIOUS
<1>5. /\ update.entity = e.name /\ update.operation = "update_status" /\ update.method = "PATCH"
      /\ update.path = StatusPath(Resource(e)) /\ update.input = Request(UpdateName(e))
      /\ update.output = out
    OBVIOUS
<1>6. /\ delete.entity = e.name /\ delete.operation = "delete" /\ delete.method = "DELETE"
      /\ delete.path = Resource(e)
    OBVIOUS
<1> HIDE DEF Api, create, get, List, update, delete, api
<1>7. /\ IsList(creates) /\ Elements(creates) = IF api.create = None THEN {} ELSE {create}
      /\ IsList(gets) /\ Elements(gets) = IF api.get = None THEN {} ELSE {get}
      /\ IsList(updates) /\ Elements(updates) = IF api.update = None THEN {} ELSE {update}
      /\ IsList(deletes) /\ Elements(deletes) = IF api.delete = None THEN {} ELSE {delete}
    BY IfAnyElements
<1>8. IsList(lists) /\ Elements(lists) = {lists[i] : i \in DOMAIN api.lists}
    BY MappedList DEF api
<1>9. \A i \in DOMAIN api.lists : lists[i] = List(api.lists[i])
    OBVIOUS
<1> HIDE DEF creates, gets, lists, updates, deletes
<1>10. Elements(DerivedApis(system, e)) =
          Elements(creates) \cup Elements(gets) \cup Elements(lists)
             \cup Elements(updates) \cup Elements(deletes)
  <2>1. /\ IsList(creates \o gets)
        /\ Elements(creates \o gets) = Elements(creates) \cup Elements(gets)
    BY <1>7, ConcatElements
  <2>2. /\ IsList(creates \o gets \o lists)
        /\ Elements(creates \o gets \o lists) =
              Elements(creates) \cup Elements(gets) \cup Elements(lists)
    BY <1>8, <2>1, ConcatElements
  <2>3. /\ IsList(creates \o gets \o lists \o updates)
        /\ Elements(creates \o gets \o lists \o updates) =
              Elements(creates) \cup Elements(gets) \cup Elements(lists) \cup Elements(updates)
    BY <1>7, <2>2, ConcatElements
  <2>4. QED
    BY <1>1, <1>7, <2>3, ConcatElements
<1>11. CASE a \in Elements(creates)
    BY <1>2, <1>7, <1>11 DEF api
<1>12. CASE a \in Elements(gets)
    BY <1>3, <1>7, <1>12 DEF api
<1>13. CASE a \in Elements(lists)
  <2>1. PICK list \in Elements(api.lists) : a = List(list)
    BY <1>8, <1>9, <1>13 DEF Elements
  <2>2. QED
    BY <1>4, <2>1 DEF api
<1>14. CASE a \in Elements(updates)
    BY <1>5, <1>7, <1>14 DEF api
<1>15. CASE a \in Elements(deletes)
    BY <1>6, <1>7, <1>15 DEF api
<1>16. QED
    BY <1>10, <1>11, <1>12, <1>13, <1>14, <1>15

\* What a list is selected by: the fields of an index that is named, else the
\* fields written down; both start an index or the key.
LEMMA SelectorBacked ==
    ASSUME NEW e, ParsedEntity(e), e.api # None, EntitiesOk(system),
           e \in Elements(system.entity), NEW list \in Elements(e.api.lists)
    PROVE  LET by == SelectorFields(e, list)
           IN  /\ by # <<>> /\ Elements(by) \subseteq Names(e.fields)
               /\ \/ IsPrefix(by, e.key)
                  \/ \E index \in Elements(e.indexes) : IsPrefix(by, index.fields)
<1> DEFINE named == {i \in DOMAIN e.indexes : list.by = <<e.indexes[i].name>>}
<1>1. /\ IsList(e.key) /\ IsList(e.indexes) /\ IsList(list.by)
      /\ \A index \in Elements(e.indexes) : IsList(index.fields)
    BY DEF ParsedEntity
<1>2. /\ Elements(e.key) \subseteq Names(e.fields)
      /\ IndexesOk(e) /\ EntityApiOk(e)
    BY DEF EntitiesOk
<1>3. list.by # <<>> /\ ListSelectorAllowed(e, list.by)
    BY <1>2 DEF EntityApiOk, ListOk
<1>4. \A index \in Elements(e.indexes) :
         index.fields # <<>> /\ Elements(index.fields) \subseteq Names(e.fields)
    BY <1>2 DEF IndexesOk
<1>5. \A i, j \in DOMAIN e.indexes : e.indexes[i].name = e.indexes[j].name => i = j
    BY <1>2 DEF IndexesOk, Unique
<1>6. DOMAIN e.indexes = 1..Len(e.indexes) /\ Len(e.indexes) \in Nat
    BY <1>1, ListRange
<1>7. CASE named = {}
  <2>1. SelectorFields(e, list) = list.by
    BY <1>7 DEF SelectorFields
  <2>2. \A index \in Elements(e.indexes) : list.by # <<index.name>>
    BY <1>7 DEF Elements
  <2>3. CASE IsPrefix(list.by, e.key)
    <3>1. Elements(list.by) \subseteq Elements(e.key)
      BY <1>1, <2>3, PrefixElements
    <3>2. QED
      BY <1>2, <1>3, <2>1, <2>3, <3>1
  <2>4. CASE ~IsPrefix(list.by, e.key)
    <3>1. PICK index \in Elements(e.indexes) : IsPrefix(list.by, index.fields)
      BY <1>3, <2>2, <2>4 DEF ListSelectorAllowed
    <3>2. Elements(list.by) \subseteq Elements(index.fields)
      BY <1>1, <3>1, PrefixElements
    <3>3. QED
      BY <1>3, <1>4, <2>1, <3>1, <3>2
  <2>5. QED
    BY <2>3, <2>4
<1>8. CASE named # {}
  <2>1. PICK i \in DOMAIN e.indexes : list.by = <<e.indexes[i].name>>
    BY <1>8
  <2>2. \A j \in named : j = i
    <3>1. \A j \in named : <<e.indexes[j].name>> = <<e.indexes[i].name>>
      BY <2>1
    <3>2. \A j \in named : e.indexes[j].name = e.indexes[i].name
      BY <3>1
    <3>3. QED
      BY <1>5, <3>2
  <2>3. i \in named /\ i <= i
    BY <1>6, <2>1
  <2>4. (CHOOSE j \in named : \A l \in named : j <= l) = i
    BY <2>2, <2>3
  <2>5. SelectorFields(e, list) = e.indexes[i].fields
    BY <1>8, <2>4 DEF SelectorFields
  <2>6. e.indexes[i] \in Elements(e.indexes)
    BY DEF Elements
  <2>7. IsPrefix(e.indexes[i].fields, e.indexes[i].fields)
    BY <1>1, <2>6, PrefixOfItself
  <2>8. QED
    BY <1>4, <2>5, <2>6, <2>7
<1>9. QED
    BY <1>7, <1>8

\* What has a route has one for the status as well, with the same parameters.
LEMMA StatusRoute ==
    ASSUME NEW path, ParsedPath(path), path # None
    PROVE  StatusPath(path) # None /\ Parameters(StatusPath(path)) = Parameters(path)
  BY DEF ParsedPath, StatusPath, Parameters

\* An operation of an api block meets the contract the generators check.
LEMMA BlockKeepsContract ==
    ASSUME FromJob, ComposedInv, Valid, ir = Lowered(system),
           NEW e \in Elements(system.entity), NEW a \in Elements(DerivedApis(system, e)),
           a.operation = "create" => e.api.resource # None,
           a.operation = "list" => Elements(a.selector) \subseteq Parameters(a.path)
    PROVE  CrudContract(system, a)
<1>1. IsList(system.entity) /\ ParsedEntity(e)
    BY ComposedEntities
<1>2. SymbolsUnique(system) /\ EntitiesOk(system)
    BY DEF Valid
<1>3. e.api # None
  <2>1. e.api = None => DerivedApis(system, e) = <<>>
    BY DEF DerivedApis
  <2>2. Elements(<<>>) = {}
    BY EmptyList DEF Elements
  <2>3. QED
    BY <2>1, <2>2
<1>4. IsList(e.api.lists) /\ ParsedPath(e.api.resource)
    BY <1>1, <1>3 DEF ParsedEntity
<1>5. IsEntity(system, e.name) /\ EntityNamed(system, e.name) = e
    BY <1>1, <1>2, EntityFound
<1>6. Names(DerivedShapes(e)) \subseteq ir.shapes
  <2>1. ir.shapes = DOMAIN ShapeTable(system)
    BY DEF Lowered
  <2>2. QED
    BY <2>1, ShapesTabled
<1>7. ResourceOk(e, e.api)
    BY <1>2, <1>3 DEF EntitiesOk, EntityApiOk
<1>8. /\ Method("create") = "POST" /\ Method("get") = "GET" /\ Method("list") = "GET"
      /\ Method("update_status") = "PATCH" /\ Method("delete") = "DELETE"
    BY DEF Method
<1>9. CASE a.operation = "list"
  <2>1. PICK list \in Elements(e.api.lists) :
            /\ a.entity = e.name /\ a.method = "GET"
            /\ a.selector = SelectorFields(e, list)
            /\ a.output = Response(ListName(e, list))
    BY <1>3, <1>4, <1>9, BlockOperations
  <2>2. a.output \in ir.shapes
    BY <1>3, <1>4, <1>6, <2>1, BlockShapes
  <2>3. /\ a.selector # <<>> /\ Elements(a.selector) \subseteq Names(e.fields)
        /\ \/ IsPrefix(a.selector, e.key)
           \/ \E index \in Elements(e.indexes) : IsPrefix(a.selector, index.fields)
    BY <1>1, <1>2, <1>3, <2>1, SelectorBacked
  <2>4. ListRoute(e, a)
    BY <1>9, <2>3 DEF ListRoute
  <2>5. QED
    BY <1>5, <1>8, <1>9, <2>1, <2>2, <2>4 DEF CrudContract, NeedsInput
<1>10. CASE a.operation # "list"
  <2>1. /\ a.entity = e.name /\ a.method = Method(a.operation)
        /\ e.api.resource # None
        /\ a.path \in {Resource(e), StatusPath(Resource(e))}
        /\ NeedsInput(a.operation) => a.input \in Names(DerivedShapes(e))
        /\ NeedsOutput(a.operation) => a.output \in Names(DerivedShapes(e))
    <3>1. CASE a.operation = "create"
      BY <1>3, <1>4, <1>8, <3>1, BlockOperations, BlockShapes
    <3>2. CASE a.operation = "get"
      BY <1>3, <1>4, <1>7, <1>8, <3>2, BlockOperations, BlockShapes DEF ResourceOk, NeedsInput
    <3>3. CASE a.operation = "update_status"
      BY <1>3, <1>4, <1>7, <1>8, <3>3, BlockOperations, BlockShapes DEF ResourceOk
    <3>4. CASE a.operation = "delete"
      BY <1>3, <1>4, <1>7, <1>8, <3>4, BlockOperations DEF ResourceOk, NeedsInput, NeedsOutput
    <3>5. QED
      BY <1>3, <1>4, <1>10, <3>1, <3>2, <3>3, <3>4, BlockOperations
  <2>2. Resource(e) = e.api.resource
    BY <2>1 DEF Resource
  <2>3. Elements(e.key) \subseteq Parameters(e.api.resource)
    BY <1>7, <2>1 DEF ResourceOk, HasAllKeyFields
  <2>4. KeyRoute(e, a)
    BY <1>4, <2>1, <2>2, <2>3, StatusRoute DEF KeyRoute
  <2>5. QED
    BY <1>5, <1>6, <1>10, <2>1, <2>4 DEF CrudContract
<1>11. QED
    BY <1>9, <1>10

\* An api block the validator let through becomes operations the generators
\* take, shapes, routes and selectors included: two checks far apart agree.
THEOREM CompilerContractKept == Spec => []ContractKept
<1>1. WalkInv /\ PhaseInv => ContractKept
  <2> SUFFICES ASSUME WalkInv, PhaseInv, AtContract,
                      NEW e \in Elements(system.entity), NEW a \in BlockApis(e),
                      a.operation = "create" => e.api.resource # None,
                      a.operation = "list" => Elements(a.selector) \subseteq Parameters(a.path)
               PROVE  CrudContract(system, a)
    BY DEF ContractKept
  <2>1. FromJob /\ ComposedInv /\ Valid /\ ir = Lowered(system)
    BY DEF WalkInv, PhaseInv, AtContract
  <2>2. a \in Elements(DerivedApis(system, e))
    BY DEF BlockApis
  <2>3. QED
    BY <2>1, <2>2, BlockKeepsContract
<1>2. QED
    BY <1>1, WalkAlways, PhasesAlways, PTL
================================================================================
