-------------------------- MODULE DeadLettersProofs ---------------------------
(***************************************************************************)
(* Proofs about Redaction and DeadLetters, for any heap of values, cyclic  *)
(* or not, any depth limit, any calls, any retention and any throttle.     *)
(***************************************************************************)
EXTENDS DeadLetters, FiniteSetTheorems, WellFoundedInduction, TLAPS

\* The keys there are.
Names == UNION {DOMAIN Heap[node].fields : node \in {n \in DOMAIN Heap : Heap[n].kind # "leaf"}}

Stops(call) ==
    \/ Heap[call.node].kind = "leaf"
    \/ call.depth >= MaxDepth
    \/ call.node \in call.ancestors

-----------------------------------------------------------------------------
\* A set of depths has a least one: the recursions are unfolded from the limit upwards.
LEMMA LeastOf ==
    ASSUME NEW I \in SUBSET Nat, I # {}
    PROVE  \E i \in I : \A j \in I : i <= j
  <1> DEFINE T == {1 .. i : i \in I}
  <1>1. T \subseteq FiniteSubsetsOf(Nat)
    BY FS_Interval DEF FiniteSubsetsOf
  <1>2. T # {}
    OBVIOUS
  <1> HIDE DEF T
  <1>3. PICK x \in T : \A y \in T : ~ (<<y, x>> \in StrictSubsetOrdering(Nat))
    BY <1>1, <1>2, WFMin, FS_StrictSubsetOrderingWellFounded
  <1>4. PICK i \in I : x = 1 .. i
    BY DEF T
  <1>5. ASSUME NEW j \in I, j < i PROVE FALSE
    <2>1. 1 .. j \in T /\ 1 .. j \in FiniteSubsetsOf(Nat) /\ x \in FiniteSubsetsOf(Nat)
      BY <1>1 DEF T
    <2>2. 1 .. j \subseteq x /\ i \in x /\ i \notin 1 .. j
      BY <1>4, <1>5
    <2> QED
      BY <1>3, <2>1, <2>2 DEF StrictSubsetOrdering, FiniteSubsetsOf
  <1> QED
    BY <1>5

\* A field that is entered is a call one deeper.
LEMMA FieldType ==
    ASSUME NEW call \in Calls, ~Stops(call), NEW key \in DOMAIN Heap[call.node].fields
    PROVE  Field(call, key) \in Calls /\ Field(call, key).depth = call.depth + 1
  <1>1. /\ call.node \in DOMAIN Heap /\ call.depth \in 0 .. MaxDepth
        /\ call.ancestors \in SUBSET DOMAIN Heap
    BY DEF Calls
  <1>2. MaxDepth \in Nat /\ ~(call.depth >= MaxDepth)
    BY HeapAssumption DEF Stops
  <1>3. call.depth + 1 \in 0 .. MaxDepth
    BY <1>1, <1>2
  <1>4. Heap[call.node].fields[key] \in DOMAIN Heap
    BY <1>1, HeapAssumption DEF Stops
  <1> QED
    BY <1>1, <1>3, <1>4 DEF Field, Calls

-----------------------------------------------------------------------------
\* What redactNode returns of a call, given what the calls it makes return.
OfKey(f, call, key) ==
    Under(key, IF Heap[call.node].kind = "object" /\ IsForbiddenKey(key)
               THEN {[path |-> <<>>, is |-> "redacted"]}
               ELSE f[Field(call, key)])
Keys(call) == DOMAIN Heap[call.node].fields
Redacting(f, call) ==
    IF Heap[call.node].kind = "leaf" THEN {[path |-> <<>>, is |-> "kept"]}
    ELSE IF call.depth >= MaxDepth THEN {[path |-> <<>>, is |-> "tooDeep"]}
    ELSE IF call.node \in call.ancestors THEN {[path |-> <<>>, is |-> "circular"]}
    ELSE UNION {OfKey(f, call, key) : key \in Keys(call)}

\* The same of the forbidden paths.
ForbiddenIn(f, call) ==
    IF Stops(call) THEN {}
    ELSE {<<key>> : key \in {k \in Keys(call) : Lower[k] \in Forbidden}}
         \cup UNION {{<<key>> \o path : path \in f[Field(call, key)]} : key \in Keys(call)}

\* The copy of a value depends on the calls one level deeper only.
LEMMA RedactingDeeper ==
    ASSUME NEW f, NEW g, NEW call \in Calls,
           \A x \in Calls : x.depth = call.depth + 1 => f[x] = g[x]
    PROVE  Redacting(f, call) = Redacting(g, call)
  <1>1. ASSUME ~Stops(call), NEW key \in Keys(call) PROVE OfKey(f, call, key) = OfKey(g, call, key)
    BY <1>1, FieldType DEF Keys, OfKey
  <1>2. CASE Stops(call)
    BY <1>2 DEF Stops, Redacting
  <1>3. CASE ~Stops(call)
    <2>1. {OfKey(f, call, key) : key \in Keys(call)} = {OfKey(g, call, key) : key \in Keys(call)}
      BY <1>1, <1>3
    <2> QED
      BY <2>1 DEF Redacting
  <1> QED
    BY <1>2, <1>3

\* So do the paths of its forbidden keys.
LEMMA ForbiddenDeeper ==
    ASSUME NEW f, NEW g, NEW call \in Calls,
           \A x \in Calls : x.depth = call.depth + 1 => f[x] = g[x]
    PROVE  ForbiddenIn(f, call) = ForbiddenIn(g, call)
  <1>1. ASSUME ~Stops(call), NEW key \in Keys(call)
        PROVE  {<<key>> \o path : path \in f[Field(call, key)]}
                   = {<<key>> \o path : path \in g[Field(call, key)]}
    BY <1>1, FieldType DEF Keys
  <1>2. CASE Stops(call)
    BY <1>2 DEF ForbiddenIn
  <1>3. CASE ~Stops(call)
    <2> DEFINE F(key) == {<<key>> \o path : path \in f[Field(call, key)]}
               G(key) == {<<key>> \o path : path \in g[Field(call, key)]}
    <2>1. \A key \in Keys(call) : F(key) = G(key)
      BY <1>1, <1>3
    <2> HIDE DEF F, G
    <2>2. {F(key) : key \in Keys(call)} = {G(key) : key \in Keys(call)}
      BY <2>1
    <2> QED
      BY <2>2 DEF ForbiddenIn, F, G
  <1> QED
    BY <1>2, <1>3

\* The recursion of redactNode ends: there is a function that does what it says.
LEMMA RedactNodeIs ==
    ASSUME NEW call \in Calls
    PROVE  RedactNode[call] = Redacting(RedactNode, call)
  <1> DEFINE From(n, g) == \A x \in Calls : x.depth >= n => g[x] = Redacting(g, x)
             Bad == {k \in 0 .. MaxDepth + 1 : ~\E g : From(MaxDepth + 1 - k, g)}
  <1>1. MaxDepth \in Nat /\ \A x \in Calls : x.depth \in 0 .. MaxDepth
    BY HeapAssumption DEF Calls
  <1>2. ASSUME NEW n \in 0 .. MaxDepth, NEW g, From(n + 1, g)
        PROVE  \E h : From(n, h)
    <2> DEFINE h == [x \in Calls |-> IF x.depth >= n + 1 THEN g[x] ELSE Redacting(g, x)]
    <2>1. \A x \in Calls : x.depth >= n + 1 => h[x] = g[x]
      OBVIOUS
    <2>2. \A x \in Calls : x.depth >= n => h[x] = Redacting(g, x)
      BY <1>2
    <2> HIDE DEF h
    <2>3. ASSUME NEW x \in Calls, x.depth >= n PROVE Redacting(g, x) = Redacting(h, x)
      <3>1. \A y \in Calls : y.depth = x.depth + 1 => g[y] = h[y]
        BY <1>1, <2>1, <2>3
      <3> QED
        BY <3>1, RedactingDeeper
    <2>4. From(n, h)
      BY <2>2, <2>3
    <2> QED
      BY <2>4
  <1> HIDE DEF From
  <1>3. Bad = {}
    <2> SUFFICES ASSUME Bad # {} PROVE FALSE
      OBVIOUS
    <2>1. PICK k \in Bad : \A j \in Bad : k <= j
      <3>1. Bad \in SUBSET Nat
        BY <1>1
      <3> HIDE DEF Bad
      <3> QED
        BY <3>1, LeastOf
    <2>2. k \in 0 .. MaxDepth + 1 /\ ~\E g : From(MaxDepth + 1 - k, g)
      OBVIOUS
    <2>3. k # 0
      <3>1. \A x \in Calls : ~(x.depth >= MaxDepth + 1)
        BY <1>1
      <3>2. \E g : From(MaxDepth + 1, g)
        BY <3>1 DEF From
      <3> QED
        BY <1>1, <2>2, <3>2
    <2>4. k - 1 \in 0 .. MaxDepth + 1 /\ k - 1 \notin Bad
      BY <1>1, <2>1, <2>2, <2>3
    <2>5. \E g : From(MaxDepth + 1 - (k - 1), g)
      BY <2>4
    <2>6. MaxDepth + 1 - (k - 1) = (MaxDepth + 1 - k) + 1 /\ MaxDepth + 1 - k \in 0 .. MaxDepth
      BY <1>1, <2>2, <2>3
    <2> QED
      BY <1>2, <2>2, <2>5, <2>6
  <1>4. PICK g : From(0, g)
    <2>1. MaxDepth + 1 \in 0 .. MaxDepth + 1 /\ MaxDepth + 1 - (MaxDepth + 1) = 0
      BY <1>1
    <2> QED
      BY <1>3, <2>1
  <1> DEFINE h == [x \in Calls |-> g[x]]
  <1>5. h = [x \in Calls |-> Redacting(h, x)]
    <2>1. \A x \in Calls : g[x] = Redacting(g, x)
      BY <1>1, <1>4 DEF From
    <2>2. ASSUME NEW x \in Calls PROVE Redacting(g, x) = Redacting(h, x)
      <3>1. \A y \in Calls : g[y] = h[y]
        OBVIOUS
      <3> HIDE DEF h
      <3> QED
        BY <3>1, RedactingDeeper
    <2> QED
      BY <2>1, <2>2
  <1> HIDE DEF h
  <1>6. RedactNode = CHOOSE f : f = [x \in Calls |-> Redacting(f, x)]
    BY DEF RedactNode, Redacting, OfKey, Keys
  <1>7. RedactNode = [x \in Calls |-> Redacting(RedactNode, x)]
    BY <1>5, <1>6
  <1> QED
    BY <1>7

\* So does the walk of the forbidden paths.
LEMMA ForbiddenPathsAre ==
    ASSUME NEW call \in Calls
    PROVE  ForbiddenPaths[call] = ForbiddenIn(ForbiddenPaths, call)
  <1> DEFINE From(n, g) == \A x \in Calls : x.depth >= n => g[x] = ForbiddenIn(g, x)
             Bad == {k \in 0 .. MaxDepth + 1 : ~\E g : From(MaxDepth + 1 - k, g)}
  <1>1. MaxDepth \in Nat /\ \A x \in Calls : x.depth \in 0 .. MaxDepth
    BY HeapAssumption DEF Calls
  <1>2. ASSUME NEW n \in 0 .. MaxDepth, NEW g, From(n + 1, g)
        PROVE  \E h : From(n, h)
    <2> DEFINE h == [x \in Calls |-> IF x.depth >= n + 1 THEN g[x] ELSE ForbiddenIn(g, x)]
    <2>1. \A x \in Calls : x.depth >= n + 1 => h[x] = g[x]
      OBVIOUS
    <2>2. \A x \in Calls : x.depth >= n => h[x] = ForbiddenIn(g, x)
      BY <1>2
    <2> HIDE DEF h
    <2>3. ASSUME NEW x \in Calls, x.depth >= n PROVE ForbiddenIn(g, x) = ForbiddenIn(h, x)
      <3>1. \A y \in Calls : y.depth = x.depth + 1 => g[y] = h[y]
        BY <1>1, <2>1, <2>3
      <3> QED
        BY <3>1, ForbiddenDeeper
    <2>4. From(n, h)
      BY <2>2, <2>3
    <2> QED
      BY <2>4
  <1> HIDE DEF From
  <1>3. Bad = {}
    <2> SUFFICES ASSUME Bad # {} PROVE FALSE
      OBVIOUS
    <2>1. PICK k \in Bad : \A j \in Bad : k <= j
      <3>1. Bad \in SUBSET Nat
        BY <1>1
      <3> HIDE DEF Bad
      <3> QED
        BY <3>1, LeastOf
    <2>2. k \in 0 .. MaxDepth + 1 /\ ~\E g : From(MaxDepth + 1 - k, g)
      OBVIOUS
    <2>3. k # 0
      <3>1. \A x \in Calls : ~(x.depth >= MaxDepth + 1)
        BY <1>1
      <3>2. \E g : From(MaxDepth + 1, g)
        BY <3>1 DEF From
      <3> QED
        BY <1>1, <2>2, <3>2
    <2>4. k - 1 \in 0 .. MaxDepth + 1 /\ k - 1 \notin Bad
      BY <1>1, <2>1, <2>2, <2>3
    <2>5. \E g : From(MaxDepth + 1 - (k - 1), g)
      BY <2>4
    <2>6. MaxDepth + 1 - (k - 1) = (MaxDepth + 1 - k) + 1 /\ MaxDepth + 1 - k \in 0 .. MaxDepth
      BY <1>1, <2>2, <2>3
    <2> QED
      BY <1>2, <2>2, <2>5, <2>6
  <1>4. PICK g : From(0, g)
    <2>1. MaxDepth + 1 \in 0 .. MaxDepth + 1 /\ MaxDepth + 1 - (MaxDepth + 1) = 0
      BY <1>1
    <2> QED
      BY <1>3, <2>1
  <1> DEFINE h == [x \in Calls |-> g[x]]
  <1>5. h = [x \in Calls |-> ForbiddenIn(h, x)]
    <2>1. \A x \in Calls : g[x] = ForbiddenIn(g, x)
      BY <1>1, <1>4 DEF From
    <2>2. ASSUME NEW x \in Calls PROVE ForbiddenIn(g, x) = ForbiddenIn(h, x)
      <3>1. \A y \in Calls : g[y] = h[y]
        OBVIOUS
      <3> HIDE DEF h
      <3> QED
        BY <3>1, ForbiddenDeeper
    <2> QED
      BY <2>1, <2>2
  <1> HIDE DEF h
  <1>6. ForbiddenPaths = CHOOSE f : f = [x \in Calls |-> ForbiddenIn(f, x)]
    BY DEF ForbiddenPaths, ForbiddenIn, Stops, Keys
  <1>7. ForbiddenPaths = [x \in Calls |-> ForbiddenIn(ForbiddenPaths, x)]
    BY <1>5, <1>6
  <1> QED
    BY <1>7

-----------------------------------------------------------------------------
\* What is to be shown of a call: its copy has a path to every end, and shows nothing at a
\* forbidden key but the placeholder; the placeholder stands at forbidden keys only, and on
\* the way to every one of them.
Ends(call) == RedactNode[call]
WellPlaced(end) ==
    /\ end.path \in Seq(Names)
    /\ \A i \in DOMAIN end.path :
          Lower[end.path[i]] \in Forbidden => i = Len(end.path) /\ end.is = "redacted"
NamedOnTheWay(call, path) ==
    \E n \in DOMAIN path, end \in Ends(call) :
        end.is = "redacted" /\ end.path = SubSeq(path, 1, n)
RedactedWell(call) ==
    /\ \A end \in Ends(call) : WellPlaced(end)
    /\ \A end \in Ends(call) : end.is = "redacted" => end.path \in ForbiddenPaths[call]
    /\ \A path \in ForbiddenPaths[call] : path \in Seq(Names) /\ NamedOnTheWay(call, path)

\* The prefix of length one of a path is its first key.
LEMMA FirstKey ==
    ASSUME NEW path \in Seq(Names), Len(path) >= 1
    PROVE  SubSeq(path, 1, 1) = <<path[1]>>
  <1> DEFINE a == SubSeq(path, 1, 1)
  <1>1. a \in Seq(Names) /\ Len(a) = 1 /\ a[1] = path[1]
    OBVIOUS
  <1> HIDE DEF a
  <1>2. a = <<path[1]>>
    BY <1>1
  <1> QED
    BY <1>2 DEF a

\* A path with a key before it.
LEMMA Before ==
    ASSUME NEW key \in Names, NEW path \in Seq(Names)
    PROVE  /\ <<key>> \o path \in Seq(Names)
           /\ Len(<<key>> \o path) = Len(path) + 1
           /\ (<<key>> \o path)[1] = key
           /\ \A i \in 1 .. Len(path) : (<<key>> \o path)[i + 1] = path[i]
           /\ SubSeq(<<key>> \o path, 1, 1) = <<key>>
           /\ \A n \in 1 .. Len(path) :
                 SubSeq(<<key>> \o path, 1, n + 1) = <<key>> \o SubSeq(path, 1, n)
  <1> DEFINE p == <<key>> \o path
  <1>1. <<key>> \in Seq(Names) /\ Len(<<key>>) = 1 /\ Len(path) \in Nat
    OBVIOUS
  <1>2. p \in Seq(Names)
    BY <1>1
  <1>3. Len(p) = Len(path) + 1
    BY <1>1
  <1>4. p[1] = key
    BY <1>1
  <1>5. \A i \in 1 .. Len(path) : p[i + 1] = path[i]
    BY <1>1
  <1> HIDE DEF p
  <1>6. SubSeq(p, 1, 1) = <<key>>
    BY <1>1, <1>2, <1>3, <1>4, FirstKey
  <1>7. ASSUME NEW n \in 1 .. Len(path)
        PROVE  SubSeq(p, 1, n + 1) = <<key>> \o SubSeq(path, 1, n)
    <2> DEFINE a == SubSeq(p, 1, n + 1)
               q == SubSeq(path, 1, n)
               b == <<key>> \o q
    <2>1. a \in Seq(Names) /\ Len(a) = n + 1 /\ \A i \in 1 .. n + 1 : a[i] = p[i]
      BY <1>1, <1>2, <1>3, <1>7
    <2>2. q \in Seq(Names) /\ Len(q) = n /\ \A i \in 1 .. n : q[i] = path[i]
      BY <1>1, <1>7
    <2> HIDE DEF q
    <2>3. b \in Seq(Names) /\ Len(b) = n + 1
      BY <1>1, <2>2
    <2>4. b[1] = key /\ \A i \in 1 .. n : b[i + 1] = q[i]
      BY <1>1, <2>2
    <2> HIDE DEF a, b
    <2>5. ASSUME NEW i \in 1 .. n + 1 PROVE a[i] = b[i]
      <3>1. CASE i = 1
        BY <1>4, <1>7, <2>1, <2>4, <3>1
      <3>2. CASE i # 1
        <4>1. i - 1 \in 1 .. n /\ i = (i - 1) + 1 /\ i - 1 \in 1 .. Len(path)
          BY <1>1, <1>7, <3>2
        <4> QED
          BY <1>5, <2>1, <2>2, <2>4, <4>1
      <3> QED
        BY <3>1, <3>2
    <2>6. a = b
      BY <1>7, <2>1, <2>3, <2>5
    <2> QED
      BY <2>6 DEF a, b, q
  <1> QED
    BY <1>2, <1>3, <1>4, <1>5, <1>6, <1>7 DEF p

\* An end of the copy of an object or an array is the placeholder of one of its keys, or
\* under one of its keys an end of the copy of what the key holds.
LEMMA EndsAre ==
    ASSUME NEW call \in Calls, ~Stops(call)
    PROVE  /\ \A end \in Ends(call) : \E key \in Keys(call) :
                 \/ /\ Heap[call.node].kind = "object" /\ IsForbiddenKey(key)
                    /\ end.path = <<key>> /\ end.is = "redacted"
                 \/ /\ ~(Heap[call.node].kind = "object" /\ IsForbiddenKey(key))
                    /\ \E e \in Ends(Field(call, key)) :
                          end.path = <<key>> \o e.path /\ end.is = e.is
           /\ \A key \in Keys(call) :
                 IF Heap[call.node].kind = "object" /\ IsForbiddenKey(key)
                 THEN \E end \in Ends(call) : end.path = <<key>> /\ end.is = "redacted"
                 ELSE \A e \in Ends(Field(call, key)) : \E end \in Ends(call) :
                         end.path = <<key>> \o e.path /\ end.is = e.is
  <1> DEFINE red(key) == Heap[call.node].kind = "object" /\ IsForbiddenKey(key)
  <1>1. Ends(call) = UNION {OfKey(RedactNode, call, key) : key \in Keys(call)}
    BY RedactNodeIs DEF Ends, Redacting, Stops
  <1>2. ASSUME NEW key, red(key)
        PROVE  OfKey(RedactNode, call, key) = {[path |-> <<key>> \o <<>>, is |-> "redacted"]}
    <2> DEFINE r == [path |-> <<>>, is |-> "redacted"]
    <2>1. OfKey(RedactNode, call, key) = Under(key, {r})
      BY <1>2 DEF OfKey
    <2>2. r.path = <<>> /\ r.is = "redacted"
      OBVIOUS
    <2> HIDE DEF r
    <2>3. Under(key, {r}) = {[path |-> <<key>> \o r.path, is |-> r.is]}
      BY DEF Under
    <2> QED
      BY <2>1, <2>2, <2>3
  <1>3. ASSUME NEW key, ~red(key)
        PROVE  OfKey(RedactNode, call, key)
                 = {[path |-> <<key>> \o e.path, is |-> e.is] : e \in Ends(Field(call, key))}
    BY <1>3 DEF OfKey, Under, Ends
  <1>4. ASSUME NEW key PROVE <<key>> \o <<>> = <<key>>
    <2>1. <<key>> \in Seq({key}) /\ <<>> \in Seq({key})
      OBVIOUS
    <2> QED
      BY <2>1
  <1> HIDE DEF red
  <1>5. ASSUME NEW end \in Ends(call)
        PROVE  \E key \in Keys(call) :
                 \/ red(key) /\ end.path = <<key>> /\ end.is = "redacted"
                 \/ ~red(key) /\ \E e \in Ends(Field(call, key)) :
                                   end.path = <<key>> \o e.path /\ end.is = e.is
    <2>1. PICK key \in Keys(call) : end \in OfKey(RedactNode, call, key)
      BY <1>1
    <2>2. CASE red(key)
      BY <1>2, <1>4, <2>1, <2>2
    <2>3. CASE ~red(key)
      BY <1>3, <2>1, <2>3
    <2> QED
      BY <2>2, <2>3
  <1>6. ASSUME NEW key \in Keys(call), red(key)
        PROVE  \E end \in Ends(call) : end.path = <<key>> /\ end.is = "redacted"
    <2>1. [path |-> <<key>> \o <<>>, is |-> "redacted"] \in Ends(call)
      BY <1>1, <1>2, <1>6
    <2> QED
      BY <1>4, <2>1
  <1>7. ASSUME NEW key \in Keys(call), ~red(key), NEW e \in Ends(Field(call, key))
        PROVE  \E end \in Ends(call) : end.path = <<key>> \o e.path /\ end.is = e.is
    <2>1. [path |-> <<key>> \o e.path, is |-> e.is] \in Ends(call)
      BY <1>1, <1>3, <1>7
    <2> QED
      BY <2>1
  <1> QED
    BY <1>5, <1>6, <1>7 DEF red

\* The claim for a call follows from the claim for the calls it makes.
LEMMA RedactedFromBelow ==
    ASSUME NEW call \in Calls,
           \A x \in Calls : x.depth = call.depth + 1 => RedactedWell(x)
    PROVE  RedactedWell(call)
  <1>1. CASE Stops(call)
    <2>1. /\ \A end \in Ends(call) : end.path = <<>> /\ end.is # "redacted"
          /\ ForbiddenPaths[call] = {}
      <3>1. PICK is \in {"kept", "tooDeep", "circular"} :
               Redacting(RedactNode, call) = {[path |-> <<>>, is |-> is]}
        BY <1>1 DEF Redacting, Stops
      <3>2. Ends(call) = {[path |-> <<>>, is |-> is]}
        BY <3>1, RedactNodeIs DEF Ends
      <3>3. ForbiddenPaths[call] = {}
        BY <1>1, ForbiddenPathsAre DEF ForbiddenIn
      <3> QED
        BY <3>2, <3>3
    <2>2. <<>> \in Seq(Names) /\ DOMAIN <<>> = {}
      OBVIOUS
    <2>3. \A end \in Ends(call) : WellPlaced(end)
      BY <2>1, <2>2 DEF WellPlaced
    <2> QED
      BY <2>1, <2>3 DEF RedactedWell
  <1>2. CASE ~Stops(call)
    <2> DEFINE red(key) == Heap[call.node].kind = "object" /\ IsForbiddenKey(key)
    <2>1. ASSUME NEW key \in Keys(call)
          PROVE  /\ key \in Names
                 /\ red(key) <=> Lower[key] \in Forbidden
                 /\ RedactedWell(Field(call, key))
      <3>1. call.node \in DOMAIN Heap /\ Heap[call.node].kind \in {"object", "array"}
        BY <1>2, HeapAssumption DEF Calls, Stops
      <3>2. key \in Names
        BY <3>1 DEF Names, Keys
      <3>3. red(key) <=> Lower[key] \in Forbidden
        BY <3>1, HeapAssumption DEF IsForbiddenKey, Keys
      <3>4. RedactedWell(Field(call, key))
        BY <1>2, FieldType DEF Keys
      <3> QED
        BY <3>2, <3>3, <3>4
    <2> HIDE DEF red
    <2>2. ASSUME NEW end \in Ends(call)
          PROVE  \E key \in Keys(call) :
                   \/ red(key) /\ end.path = <<key>> /\ end.is = "redacted"
                   \/ ~red(key) /\ \E e \in Ends(Field(call, key)) :
                                     end.path = <<key>> \o e.path /\ end.is = e.is
      BY <1>2, EndsAre DEF red
    <2>3. ASSUME NEW key \in Keys(call), red(key)
          PROVE  \E end \in Ends(call) : end.path = <<key>> /\ end.is = "redacted"
      BY <1>2, <2>3, EndsAre DEF red
    <2>4. ASSUME NEW key \in Keys(call), ~red(key), NEW e \in Ends(Field(call, key))
          PROVE  \E end \in Ends(call) : end.path = <<key>> \o e.path /\ end.is = e.is
      BY <1>2, <2>4, EndsAre DEF red
    <2>5. ForbiddenPaths[call] =
            {<<key>> : key \in {k \in Keys(call) : Lower[k] \in Forbidden}}
            \cup UNION {{<<key>> \o path : path \in ForbiddenPaths[Field(call, key)]} :
                          key \in Keys(call)}
      BY <1>2, ForbiddenPathsAre DEF ForbiddenIn
    <2>6. ASSUME NEW key \in Keys(call) PROVE <<key>> \in Seq(Names) /\ Len(<<key>>) = 1
      BY <2>1
    <2>7. ASSUME NEW end \in Ends(call) PROVE WellPlaced(end)
      <3>1. PICK key \in Keys(call) :
               \/ red(key) /\ end.path = <<key>> /\ end.is = "redacted"
               \/ ~red(key) /\ \E e \in Ends(Field(call, key)) :
                                 end.path = <<key>> \o e.path /\ end.is = e.is
        BY <2>2, <2>7
      <3>2. CASE red(key) /\ end.path = <<key>> /\ end.is = "redacted"
        <4>1. DOMAIN end.path = {1} /\ Len(end.path) = 1
          BY <3>2
        <4> QED
          BY <2>6, <3>2, <4>1 DEF WellPlaced
      <3>3. CASE ~red(key)
        <4>1. PICK e \in Ends(Field(call, key)) : end.path = <<key>> \o e.path /\ end.is = e.is
          BY <2>1, <3>1, <3>3
        <4>2. WellPlaced(e) /\ key \in Names /\ Lower[key] \notin Forbidden
          BY <2>1, <3>3 DEF RedactedWell
        <4>3. e.path \in Seq(Names) /\ Len(e.path) \in Nat
          BY <4>2 DEF WellPlaced
        <4>4. /\ end.path \in Seq(Names) /\ Len(end.path) = Len(e.path) + 1
              /\ end.path[1] = key
              /\ \A i \in 1 .. Len(e.path) : end.path[i + 1] = e.path[i]
          BY <4>1, <4>2, <4>3, Before
        <4>5. ASSUME NEW i \in DOMAIN end.path, Lower[end.path[i]] \in Forbidden
              PROVE  i = Len(end.path) /\ end.is = "redacted"
          <5>1. i # 1 /\ i \in 1 .. Len(e.path) + 1
            BY <4>2, <4>4, <4>5
          <5>2. i - 1 \in 1 .. Len(e.path) /\ i = (i - 1) + 1 /\ DOMAIN e.path = 1 .. Len(e.path)
            BY <4>3, <5>1
          <5>3. end.path[i] = e.path[i - 1]
            BY <4>4, <5>2
          <5>4. i - 1 = Len(e.path) /\ e.is = "redacted"
            BY <4>2, <4>5, <5>2, <5>3 DEF WellPlaced
          <5> QED
            BY <4>1, <4>3, <4>4, <5>1, <5>4
        <4> QED
          BY <4>4, <4>5 DEF WellPlaced
      <3> QED
        BY <3>1, <3>2, <3>3
    <2>8. ASSUME NEW end \in Ends(call), end.is = "redacted" PROVE end.path \in ForbiddenPaths[call]
      <3>1. PICK key \in Keys(call) :
               \/ red(key) /\ end.path = <<key>> /\ end.is = "redacted"
               \/ ~red(key) /\ \E e \in Ends(Field(call, key)) :
                                 end.path = <<key>> \o e.path /\ end.is = e.is
        BY <2>2, <2>8
      <3>2. CASE red(key) /\ end.path = <<key>>
        BY <2>1, <2>5, <3>2
      <3>3. CASE ~red(key)
        <4>1. PICK e \in Ends(Field(call, key)) : end.path = <<key>> \o e.path /\ end.is = e.is
          BY <2>1, <3>1, <3>3
        <4>2. e.path \in ForbiddenPaths[Field(call, key)]
          BY <2>1, <2>8, <4>1 DEF RedactedWell
        <4> DEFINE below == {<<key>> \o path : path \in ForbiddenPaths[Field(call, key)]}
        <4>3. end.path \in below
          BY <4>1, <4>2
        <4>4. below \subseteq ForbiddenPaths[call]
          BY <2>5
        <4> QED
          BY <4>3, <4>4
      <3> QED
        BY <3>1, <3>2, <3>3
    <2>9. ASSUME NEW path \in ForbiddenPaths[call]
          PROVE  path \in Seq(Names) /\ NamedOnTheWay(call, path)
      <3>1. PICK key \in Keys(call) :
               \/ Lower[key] \in Forbidden /\ path = <<key>>
               \/ \E q \in ForbiddenPaths[Field(call, key)] : path = <<key>> \o q
        BY <2>5, <2>9
      <3>2. CASE Lower[key] \in Forbidden /\ path = <<key>>
        <4>1. PICK end \in Ends(call) : end.path = <<key>> /\ end.is = "redacted"
          BY <2>1, <2>3, <3>2
        <4>2. SubSeq(path, 1, 1) = <<key>> /\ 1 \in DOMAIN path
          <5>1. path \in Seq(Names) /\ Len(path) = 1 /\ path[1] = key
            BY <2>6, <3>2
          <5>2. 1 \in DOMAIN path /\ Len(path) >= 1
            BY <5>1
          <5>3. SubSeq(path, 1, 1) = <<path[1]>>
            BY <5>1, <5>2, FirstKey
          <5> QED
            BY <5>1, <5>2, <5>3
        <4> QED
          BY <2>6, <3>2, <4>1, <4>2 DEF NamedOnTheWay
      <3>3. ASSUME NEW q \in ForbiddenPaths[Field(call, key)], path = <<key>> \o q
            PROVE  path \in Seq(Names) /\ NamedOnTheWay(call, path)
        <4>1. q \in Seq(Names) /\ NamedOnTheWay(Field(call, key), q) /\ key \in Names
          BY <2>1 DEF RedactedWell
        <4>2. PICK n \in DOMAIN q, e \in Ends(Field(call, key)) :
                 e.is = "redacted" /\ e.path = SubSeq(q, 1, n)
          BY <4>1 DEF NamedOnTheWay
        <4>3. /\ path \in Seq(Names) /\ Len(path) = Len(q) + 1
              /\ SubSeq(path, 1, 1) = <<key>>
              /\ \A i \in 1 .. Len(q) : SubSeq(path, 1, i + 1) = <<key>> \o SubSeq(q, 1, i)
          BY <3>3, <4>1, Before
        <4>4. /\ DOMAIN path = 1 .. Len(path) /\ Len(q) \in Nat
              /\ n \in 1 .. Len(q) /\ n + 1 \in DOMAIN path /\ 1 \in DOMAIN path
          BY <4>1, <4>3
        <4>5. CASE red(key)
          <5>1. PICK end \in Ends(call) : end.path = <<key>> /\ end.is = "redacted"
            BY <2>3, <4>5
          <5> QED
            BY <4>3, <4>4, <5>1 DEF NamedOnTheWay
        <4>6. CASE ~red(key)
          <5>1. PICK end \in Ends(call) : end.path = <<key>> \o e.path /\ end.is = e.is
            BY <2>4, <4>6
          <5>2. SubSeq(path, 1, n + 1) = end.path /\ end.is = "redacted"
            BY <4>2, <4>3, <4>4, <5>1
          <5> QED
            BY <4>3, <4>4, <5>2 DEF NamedOnTheWay
        <4> QED
          BY <4>5, <4>6
      <3> QED
        BY <3>1, <3>2, <3>3
    <2> QED
      BY <2>7, <2>8, <2>9 DEF RedactedWell
  <1> QED
    BY <1>1, <1>2

\* So it holds of every call, at any depth, in any values.
LEMMA RedactedEverywhere ==
    ASSUME NEW call \in Calls
    PROVE  RedactedWell(call)
  <1> DEFINE Bad == {k \in 0 .. MaxDepth : \E x \in Calls : x.depth = MaxDepth - k /\ ~RedactedWell(x)}
  <1>1. MaxDepth \in Nat /\ \A x \in Calls : x.depth \in 0 .. MaxDepth
    BY HeapAssumption DEF Calls
  <1>2. SUFFICES Bad = {}
    <2>1. MaxDepth - call.depth \in 0 .. MaxDepth
          /\ call.depth = MaxDepth - (MaxDepth - call.depth)
      BY <1>1
    <2> QED
      BY <2>1
  <1>3. SUFFICES ASSUME Bad # {} PROVE FALSE
    OBVIOUS
  <1>4. PICK k \in Bad : \A j \in Bad : k <= j
    <2>1. Bad \in SUBSET Nat
      BY <1>1
    <2> HIDE DEF Bad
    <2> QED
      BY <1>3, <2>1, LeastOf
  <1>5. PICK x \in Calls : x.depth = MaxDepth - k /\ ~RedactedWell(x)
    OBVIOUS
  <1>6. \A y \in Calls : y.depth = x.depth + 1 => RedactedWell(y)
    <2> SUFFICES ASSUME NEW y \in Calls, y.depth = x.depth + 1, ~RedactedWell(y) PROVE FALSE
      OBVIOUS
    <2>1. k \in 0 .. MaxDepth /\ y.depth = MaxDepth - (k - 1) /\ y.depth <= MaxDepth
      BY <1>1, <1>5
    <2>2. k - 1 \in 0 .. MaxDepth
      BY <1>1, <2>1
    <2>3. k - 1 \in Bad
      BY <2>1, <2>2
    <2> QED
      BY <1>4, <2>1, <2>3
  <1> QED
    BY <1>5, <1>6, RedactedFromBelow

-----------------------------------------------------------------------------
\* The inductive invariant: every entry is the redacted copy of its payload, and what a
\* call wrote is there until its window is over, from the add to the end of the call.
SendType ==
    /\ send \in [Sends -> [stage : {"idle", "added", "rejected", "cleans", "resolved", "lost"},
                           at : Nat]]
    /\ now \in Nat
    /\ lastClean \in Int
Copies ==
    /\ DOMAIN entries \subseteq Sends
    /\ \A s \in DOMAIN entries : entries[s] = RedactForbiddenKeys(PayloadOf[s])
Held ==
    \A s \in Sends :
        send[s].stage \in {"added", "cleans", "resolved"} =>
            s \in DOMAIN entries \/ now - send[s].at >= Retention
IInv == SendType /\ Copies /\ Held

\* An empty dead-letter queue holds nothing forbidden and has been cleaned of nothing.
LEMMA InitIInv == DlqInit => IInv
  BY DlqAssumption DEF DlqInit, IInv, SendType, Copies, Held, NeverCleaned

\* One entry more.
LEMMA WrittenHolds ==
    ASSUME IInv, NEW s \in Sends
    PROVE  /\ DOMAIN Written(s) = DOMAIN entries \cup {s}
           /\ DOMAIN Written(s) \subseteq Sends
           /\ \A t \in DOMAIN Written(s) : Written(s)[t] = RedactForbiddenKeys(PayloadOf[t])
  BY DEF Written, IInv, Copies

\* The sends, the sweep, a crash and the passage of time all keep the invariant.
LEMMA Inductive == IInv /\ [DlqNext]_dlqVars => IInv'
  <1> SUFFICES ASSUME IInv, [DlqNext]_dlqVars PROVE IInv'
    OBVIOUS
  <1>0. Retention \in Nat /\ Throttle \in Nat
    BY DlqAssumption
  <1>1. CASE UNCHANGED dlqVars
    BY <1>1 DEF dlqVars, IInv, SendType, Copies, Held
  <1>2. ASSUME NEW s \in Sends, SendAdds(s) PROVE IInv'
    <2>1. SendType'
      BY <1>2 DEF SendAdds, IInv, SendType
    <2>2. Copies'
      BY <1>2, WrittenHolds DEF SendAdds, Copies
    <2>3. Held'
      BY <1>2, WrittenHolds DEF SendAdds, IInv, SendType, Held
    <2> QED
      BY <2>1, <2>2, <2>3 DEF IInv
  <1>3. ASSUME NEW s \in Sends, SendRejects(s) PROVE IInv'
    <2>1. SendType'
      BY <1>3 DEF SendRejects, IInv, SendType
    <2>2. Copies' /\ DOMAIN entries \subseteq DOMAIN entries'
      BY <1>3, WrittenHolds DEF SendRejects, IInv, Copies
    <2>3. Held'
      BY <1>3, <2>2 DEF SendRejects, IInv, SendType, Held
    <2> QED
      BY <2>1, <2>2, <2>3 DEF IInv
  <1>4. ASSUME NEW s \in Sends, BeginsSweep(s) PROVE IInv'
    <2>1. SendType'
      BY <1>4 DEF BeginsSweep, IInv, SendType
    <2>2. Copies'
      BY <1>4 DEF BeginsSweep, IInv, Copies
    <2>3. Held'
      BY <1>4 DEF BeginsSweep, IInv, SendType, Held
    <2> QED
      BY <2>1, <2>2, <2>3 DEF IInv
  <1>5. ASSUME NEW s \in Sends, Sweeps(s) PROVE IInv'
    <2>1. PICK gone \in SUBSET {t \in DOMAIN entries : Aged(t)} :
             entries' = [t \in DOMAIN entries \ gone |-> entries[t]]
      BY <1>5 DEF Sweeps
    <2>2. SendType'
      BY <1>5 DEF Sweeps, IInv, SendType
    <2>3. Copies'
      BY <2>1 DEF IInv, Copies
    <2>4. ASSUME NEW t \in Sends, send'[t].stage \in {"added", "cleans", "resolved"}
          PROVE  t \in DOMAIN entries' \/ now' - send'[t].at >= Retention
      <3>1. /\ now' = now /\ send'[t].at = send[t].at
            /\ send[t].stage \in {"added", "cleans", "resolved"}
        BY <1>5, <2>4 DEF Sweeps, IInv, SendType
      <3>2. t \in DOMAIN entries \/ now - send[t].at >= Retention
        BY <3>1 DEF IInv, Held
      <3>3. t \in gone => now - send[t].at >= Retention
        BY <2>1 DEF Aged
      <3> QED
        BY <2>1, <3>1, <3>2, <3>3
    <2> QED
      BY <2>2, <2>3, <2>4 DEF IInv, Held
  <1>6. ASSUME NEW s \in Sends, SweepFails(s) PROVE IInv'
    <2>1. SendType'
      BY <1>6 DEF SweepFails, IInv, SendType
    <2>2. Copies' /\ Held'
      BY <1>6 DEF SweepFails, IInv, SendType, Copies, Held
    <2> QED
      BY <2>1, <2>2 DEF IInv
  <1>7. CASE DlqRestart
    <2>1. SendType'
      BY <1>0, <1>7 DEF DlqRestart, IInv, SendType, NeverCleaned
    <2>2. Copies' /\ Held'
      BY <1>7 DEF DlqRestart, IInv, SendType, Copies, Held
    <2> QED
      BY <2>1, <2>2 DEF IInv
  <1>8. CASE TimePasses
    <2>1. SendType' /\ Copies'
      BY <1>8 DEF TimePasses, IInv, SendType, Copies
    <2>2. Held'
      BY <1>0, <1>8 DEF TimePasses, IInv, SendType, Held
    <2> QED
      BY <2>1, <2>2 DEF IInv
  <1> QED
    BY <1>1, <1>2, <1>3, <1>4, <1>5, <1>6, <1>7, <1>8 DEF DlqNext

-----------------------------------------------------------------------------
\* Every entry is the redacted copy of the payload of its call, and stays for its window.
THEOREM Invariance == DlqSpec => []IInv
  BY InitIInv, Inductive, PTL DEF DlqSpec

\* Whatever is sent, however deep, however often a value is reached, and though it lies in
\* itself: the queue holds nothing of a forbidden key but the placeholder, every forbidden
\* key within the depth limit is named unless one above it is, and no other key is named.
THEOREM NothingForbidden == DlqSpec => []NoForbiddenValueStored
  <1>1. IInv => NoForbiddenValueStored
    <2> SUFFICES ASSUME IInv, NEW s \in DOMAIN entries
                 PROVE
        /\ \A end \in entries[s].value : \A i \in DOMAIN end.path :
              Lower[end.path[i]] \in Forbidden => i = Len(end.path) /\ end.is = "redacted"
        /\ \A path \in ForbiddenPaths[Payload(PayloadOf[s])] :
              \E n \in DOMAIN path : SubSeq(path, 1, n) \in entries[s].redactedKeys
        /\ entries[s].redactedKeys \subseteq ForbiddenPaths[Payload(PayloadOf[s])]
      BY DEF NoForbiddenValueStored
    <2> DEFINE call == Payload(PayloadOf[s])
    <2>1. call \in Calls
      <3>1. PayloadOf[s] \in DOMAIN Heap /\ 0 \in 0 .. MaxDepth
        BY DlqAssumption, HeapAssumption DEF IInv, Copies
      <3> QED
        BY <3>1 DEF Payload, Calls
    <2>2. /\ entries[s].value = Ends(call)
          /\ entries[s].redactedKeys = {end.path : end \in {e \in Ends(call) : e.is = "redacted"}}
      BY DEF IInv, Copies, RedactForbiddenKeys, Ends
    <2> HIDE DEF call
    <2>3. RedactedWell(call)
      BY <2>1, RedactedEverywhere
    <2> QED
      BY <2>2, <2>3 DEF RedactedWell, WellPlaced, NamedOnTheWay, call
  <1> QED
    BY <1>1, Invariance, PTL

\* What send() has resolved for is in the queue until the retention window is over, through
\* every sweep of every call, every throttle and every restart.
THEOREM HeldForTheWindow == DlqSpec => []KeptForTheWindow
  <1>1. IInv => KeptForTheWindow
    BY DEF IInv, Held, KeptForTheWindow
  <1> QED
    BY <1>1, Invariance, PTL
===============================================================================
