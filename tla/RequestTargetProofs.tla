-------------------------- MODULE RequestTargetProofs --------------------------
(***************************************************************************)
(* Proofs about RequestTarget: what the router takes for a link is what    *)
(* buildLinkUrl can build, for any host, any path and any vocabulary.      *)
(***************************************************************************)
EXTENDS RequestTarget, FiniteSetTheorems, TLAPS

Link(path) ==
    /\ path # <<>> /\ Head(path) = "/" /\ ToSet(path) \cap Malformed = {}
    /\ IsValidSlug(Decode(Tail(path)))

\* Decode maps a path token by token and keeps its length.
LEMMA DecodeType ==
    ASSUME NEW S, NEW s \in Seq(S)
    PROVE  /\ Decode(s) \in Seq(UNION {S, {Encoded[t] : t \in DOMAIN Encoded}})
           /\ Len(Decode(s)) = Len(s) /\ DOMAIN Decode(s) = 1 .. Len(s)
           /\ \A i \in 1 .. Len(s) :
                 Decode(s)[i] = IF s[i] \in DOMAIN Encoded THEN Encoded[s[i]] ELSE s[i]
  <1> DEFINE T == UNION {S, {Encoded[t] : t \in DOMAIN Encoded}}
  <1>1. /\ DOMAIN Decode(s) = 1 .. Len(s)
        /\ \A i \in 1 .. Len(s) :
              Decode(s)[i] = IF s[i] \in DOMAIN Encoded THEN Encoded[s[i]] ELSE s[i]
    BY DEF Decode
  <1>2. Decode(s) \in [1 .. Len(s) -> T]
    BY DEF Decode
  <1>3. Decode(s) \in Seq(T) /\ Len(Decode(s)) = Len(s)
    BY <1>2
  <1> QED
    BY <1>1, <1>3

\* The decoded rest of a path is the rest of the decoded path.
LEMMA DecodeTail ==
    ASSUME NEW path \in Seq(STRING), path # <<>>, Head(path) = "/"
    PROVE  /\ Tail(Decode(path)) = Decode(Tail(path))
           /\ Decode(path) = <<"/">> \o Decode(Tail(path))
  <1> DEFINE T == UNION {STRING, {Encoded[t] : t \in DOMAIN Encoded}}
             d == Decode(path)
             r == Decode(Tail(path))
  <1>1. Tail(path) \in Seq(STRING) /\ Len(Tail(path)) = Len(path) - 1 /\ Len(path) >= 1
    OBVIOUS
  <1>2. /\ d \in Seq(T) /\ Len(d) = Len(path)
        /\ \A i \in 1 .. Len(path) :
              d[i] = IF path[i] \in DOMAIN Encoded THEN Encoded[path[i]] ELSE path[i]
    BY DecodeType
  <1>3. /\ r \in Seq(T) /\ Len(r) = Len(path) - 1
        /\ \A i \in 1 .. Len(path) - 1 :
              r[i] = IF Tail(path)[i] \in DOMAIN Encoded THEN Encoded[Tail(path)[i]]
                                                         ELSE Tail(path)[i]
    BY <1>1, DecodeType
  <1>4. \A i \in 1 .. Len(path) - 1 : Tail(path)[i] = path[i + 1]
    OBVIOUS
  <1>5. d[1] = "/"
    BY <1>1, <1>2, TokenAssumption
  <1> HIDE DEF d, r, T
  <1>6. \A i \in 1 .. Len(path) - 1 : r[i] = d[i + 1]
    BY <1>1, <1>2, <1>3, <1>4
  <1>7. Tail(d) = r
    <2>1. Tail(d) \in Seq(T) /\ Len(Tail(d)) = Len(r)
      BY <1>1, <1>2, <1>3
    <2>2. \A i \in 1 .. Len(r) : Tail(d)[i] = r[i]
      BY <1>1, <1>2, <1>3, <1>6
    <2> QED
      BY <1>3, <2>1, <2>2
  <1>8. d = <<"/">> \o r
    <2>1. "/" \in T
      BY DEF T
    <2> DEFINE e == <<"/">> \o r
    <2>2. /\ e \in Seq(T) /\ Len(e) = Len(d) /\ e[1] = "/"
          /\ \A i \in 2 .. Len(d) : e[i] = r[i - 1]
      <3>1. <<"/">> \in Seq(T) /\ Len(<<"/">>) = 1 /\ Len(path) \in Nat
        BY <2>1
      <3>2. e \in Seq(T)
        BY <1>3, <3>1
      <3>3. Len(e) = 1 + Len(r)
        BY <1>3, <3>1
      <3>4. e[1] = "/"
        BY <1>3, <3>1
      <3>5. \A i \in 2 .. Len(d) : e[i] = r[i - 1]
        BY <1>1, <1>2, <1>3, <3>1
      <3> HIDE DEF e
      <3> QED
        BY <1>1, <1>2, <1>3, <3>1, <3>2, <3>3, <3>4, <3>5
    <2>3. \A i \in 2 .. Len(d) : d[i] = r[i - 1]
      BY <1>1, <1>2, <1>6
    <2> HIDE DEF e
    <2>4. \A i \in 1 .. Len(d) : e[i] = d[i]
      BY <1>2, <1>5, <2>2, <2>3
    <2>5. e = d
      BY <1>2, <2>2, <2>4
    <2> QED
      BY <2>5 DEF e
  <1> QED
    BY <1>7, <1>8 DEF d, r

\* An escape takes three characters for one, so that no slug is too long for the bound.
LEMMA EncodedBound ==
    ASSUME NEW s \in Seq(STRING)
    PROVE  EncodedLength(s) <= 3 * Len(s)
  <1> DEFINE I == {i \in DOMAIN s : s[i] \in DOMAIN Encoded}
  <1>1. IsFiniteSet(1 .. Len(s)) /\ Cardinality(1 .. Len(s)) = Len(s)
    <2>1. Len(s) \in Int /\ Len(s) >= 0 /\ 1 \in Int
      OBVIOUS
    <2>2. /\ IsFiniteSet(1 .. Len(s))
          /\ Cardinality(1 .. Len(s)) = IF 1 > Len(s) THEN 0 ELSE Len(s) - 1 + 1
      BY <2>1, FS_Interval
    <2> QED
      BY <2>1, <2>2
  <1>2. I \subseteq 1 .. Len(s)
    OBVIOUS
  <1>3. Cardinality(I) <= Len(s) /\ Cardinality(I) \in Nat
    BY <1>1, <1>2, FS_Subset, FS_CardinalityType
  <1> HIDE DEF I
  <1>4. Len(s) + 2 * Cardinality(I) <= 3 * Len(s)
    BY <1>3
  <1> QED
    BY <1>4 DEF EncodedLength, I

\* What a slug's path looks like.
LEMMA LinkPath ==
    ASSUME NEW path \in Seq(STRING), Link(path)
    PROVE  /\ Tail(path) \in Seq(STRING) /\ Len(path) >= 2
           /\ \A i \in 2 .. Len(path) : path[i] # "/"
           /\ "/" \notin ToSet(Tail(path)) /\ "/" \notin ToSet(Decode(Tail(path)))
           /\ path # <<"/", WellKnown>>
           /\ \A name \in ReservedNames : path # <<"/", name>>
  <1> DEFINE rest == Tail(path)
             slug == Decode(rest)
  <1>1. rest \in Seq(STRING) /\ Len(rest) = Len(path) - 1 /\ Len(path) >= 1
    BY DEF Link
  <1>2. /\ Len(slug) = Len(rest) /\ DOMAIN slug = 1 .. Len(rest)
        /\ \A i \in 1 .. Len(rest) :
              slug[i] = IF rest[i] \in DOMAIN Encoded THEN Encoded[rest[i]] ELSE rest[i]
    BY <1>1, DecodeType
  <1>3. /\ Len(slug) >= 1 /\ \A i \in 1 .. Len(rest) : slug[i] \in SlugTokens
        /\ \A name \in ReservedNames : slug # <<name>>
    <2>1. IsValidSlug(slug)
      BY DEF Link
    <2> HIDE DEF slug, rest
    <2> QED
      BY <1>2, <2>1, TargetAssumption DEF IsValidSlug, ToSet
  <1>4. "/" \notin ToSet(slug)
    <2> HIDE DEF slug, rest
    <2> QED
      BY <1>2, <1>3, TokenAssumption DEF ToSet
  <1>5. \A i \in 1 .. Len(rest) : rest[i] # "/"
    <2> HIDE DEF slug, rest
    <2> QED
      BY <1>2, <1>3, TokenAssumption
  <1>6. \A i \in 2 .. Len(path) : i - 1 \in 1 .. Len(rest) /\ path[i] = rest[i - 1]
    BY <1>1
  <1>7. "/" \notin ToSet(rest)
    BY <1>1, <1>5 DEF ToSet
  <1>8. ASSUME NEW name \in ReservedNames \cup {WellKnown}, path = <<"/", name>>
        PROVE  FALSE
    <2>1. Len(path) = 2 /\ path[2] = name
      BY <1>8
    <2>2. Len(rest) = 1 /\ rest[1] = name
      BY <1>1, <2>1
    <2>3. slug[1] = name
      <3> HIDE DEF slug, rest
      <3> QED
        BY <1>2, <2>2, TokenAssumption
    <2>4. slug = <<name>>
      <3>1. slug = [i \in 1 .. 1 |-> name]
        BY <2>2, <2>3, <1>2 DEF Decode
      <3> QED
        BY <3>1
    <2> QED
      BY <1>2, <1>3, <1>8, <2>2, <2>3, <2>4, TokenAssumption
  <1>9. Len(path) >= 2
    <2> HIDE DEF slug, rest
    <2> QED
      BY <1>1, <1>2, <1>3
  <1> QED
    BY <1>1, <1>4, <1>5, <1>6, <1>7, <1>8, <1>9

\* A path of which a slug is left is none of the paths the router turns away.
LEMMA LinkIsExtracted ==
    ASSUME NEW path \in Seq(STRING), Link(path)
    PROVE  /\ ExtractSlug(path) = Decode(Tail(path))
           /\ path \notin {<<>>, <<"/">>} /\ ToSet(path) # {"/"} /\ ~IsReservedPath(path)
  <1> DEFINE rest == Tail(path)
             slug == Decode(rest)
  <1>1. /\ rest \in Seq(STRING) /\ Len(path) >= 2 /\ Len(path) = Len(rest) + 1
        /\ \A i \in 2 .. Len(path) : path[i] # "/"
        /\ "/" \notin ToSet(rest) /\ "/" \notin ToSet(slug)
        /\ path # <<"/", WellKnown>>
        /\ \A name \in ReservedNames : path # <<"/", name>>
    BY LinkPath
  <1>2. path # <<>> /\ Head(path) = "/" /\ IsValidSlug(slug)
        /\ ToSet(path) \cap Malformed = {}
    BY DEF Link
  <1>3. Len(slug) = Len(rest) /\ Len(slug) <= MaxSlug /\ Len(rest) \in Nat
    <2>1. Len(slug) = Len(rest)
      BY <1>1, DecodeType
    <2>2. Len(rest) \in Nat
      BY <1>1
    <2>3. Len(slug) <= MaxSlug
      <3> DEFINE n == Len(slug)
      <3>1. n \in 1 .. MaxSlug
        BY <1>2 DEF IsValidSlug
      <3> HIDE DEF n
      <3>2. n <= MaxSlug
        BY <3>1
      <3> QED
        BY <3>2 DEF n
    <2> HIDE DEF slug, rest
    <2> QED
      BY <2>1, <2>2, <2>3
  <1>4. EncodedLength(rest) <= 3 * MaxSlug /\ EncodedLength(rest) \in Int
    <2>1. EncodedLength(rest) <= 3 * Len(rest)
      BY <1>1, EncodedBound
    <2>2. EncodedLength(rest) \in Int
      <3>1. IsFiniteSet(DOMAIN rest)
        BY <1>1, FS_Interval
      <3>2. Cardinality({i \in DOMAIN rest : rest[i] \in DOMAIN Encoded}) \in Nat
        BY <3>1, FS_Subset, FS_CardinalityType
      <3> DEFINE c == Cardinality({i \in DOMAIN rest : rest[i] \in DOMAIN Encoded})
                 k == Len(rest)
      <3>3. c \in Nat /\ k \in Nat
        BY <1>3, <3>2
      <3>4. EncodedLength(rest) = k + 2 * c
        BY DEF EncodedLength
      <3> HIDE DEF c, k
      <3>5. k + 2 * c \in Int
        BY <3>3
      <3> QED
        BY <3>4, <3>5
    <2> DEFINE n == Len(rest)
               e == EncodedLength(rest)
    <2> HIDE DEF n, e
    <2>3. n \in Nat /\ n <= MaxSlug /\ e <= 3 * n /\ e \in Int
      BY <1>3, <2>1, <2>2 DEF n, e
    <2>4. e <= 3 * MaxSlug
      BY <2>3, TargetAssumption
    <2> QED
      BY <2>3, <2>4 DEF e
  <1>5. ToSet(rest) \cap Malformed = {}
    <2>1. ToSet(rest) \subseteq ToSet(path)
      BY <1>1 DEF ToSet
    <2> QED
      BY <1>2, <2>1
  <1>6. ExtractSlug(path) = slug
    <2>1. ~(EncodedLength(rest) > 3 * MaxSlug)
      <3> DEFINE e == EncodedLength(rest)
                 n == 3 * MaxSlug
      <3> HIDE DEF e, n
      <3>1. e <= n /\ e \in Int /\ n \in Int
        BY <1>4, TargetAssumption DEF e, n
      <3>2. ~(e > n)
        BY <3>1
      <3> QED
        BY <3>2 DEF e, n
    <2> QED
      BY <1>1, <1>2, <1>5, <2>1 DEF ExtractSlug
  <1>7. path[2] \in ToSet(path) /\ path[2] # "/"
    BY <1>1 DEF ToSet
  <1>8. path \notin {<<>>, <<"/">>} /\ ToSet(path) # {"/"}
    BY <1>1, <1>7
  <1>9. NormalizePath(path) = path
    <2>1. Last(path) # "/"
      BY <1>1 DEF Last
    <2> QED
      BY <1>2, <2>1 DEF NormalizePath
  <1>10. ~IsPrefix(<<"/", WellKnown, "/">>, path)
    <2>1. SUFFICES ASSUME IsPrefix(<<"/", WellKnown, "/">>, path) PROVE FALSE
      OBVIOUS
    <2>2. Len(path) >= 3 /\ path[3] = "/"
      BY <1>1, <2>1 DEF IsPrefix
    <2> QED
      BY <1>1, <2>2
  <1>11. ~IsReservedPath(path)
    BY <1>1, <1>8, <1>9, <1>10 DEF IsReservedPath
  <1> QED
    BY <1>6, <1>8, <1>11

\* A slug is only ever read off a path that holds one.
LEMMA ExtractedIsLink ==
    ASSUME NEW path \in Seq(STRING), IsValidSlug(ExtractSlug(path))
    PROVE  Link(path)
  <1>1. ~IsValidSlug(<<>>)
    BY DEF IsValidSlug
  <1>2. /\ path # <<>> /\ Head(path) = "/"
        /\ ToSet(Tail(path)) \cap Malformed = {}
        /\ ExtractSlug(path) = Decode(Tail(path))
    BY <1>1 DEF ExtractSlug
  <1>3. ToSet(path) \subseteq {"/"} \cup ToSet(Tail(path))
    <2>1. \A i \in 2 .. Len(path) : i - 1 \in 1 .. Len(Tail(path)) /\ path[i] = Tail(path)[i - 1]
      BY <1>2
    <2>2. path[1] = "/" /\ DOMAIN path = 1 .. Len(path) /\ Len(path) \in Nat
      BY <1>2
    <2>3. \A i \in 1 .. Len(path) : i = 1 \/ i \in 2 .. Len(path)
      BY <2>2
    <2>4. DOMAIN Tail(path) = 1 .. Len(Tail(path))
      BY <1>2
    <2>5. \A i \in 2 .. Len(path) : path[i] \in ToSet(Tail(path))
      <3> DEFINE t == Tail(path)
      <3> HIDE DEF t
      <3> QED
        BY <2>1, <2>4 DEF ToSet, t
    <2>6. \A i \in 1 .. Len(path) : path[i] \in {"/"} \cup ToSet(Tail(path))
      BY <2>2, <2>3, <2>5
    <2> QED
      BY <2>2, <2>6 DEF ToSet
  <1> QED
    BY <1>2, <1>3, TokenAssumption DEF Link

\* The handle a host has is the one its link URL is built from.
LEMMA HandleOfUrl ==
    ASSUME NEW host, host.labels \in Seq(STRING)
    PROVE  /\ ParseHandleFromHost(host) # NoHandle
           /\ ~IsReservedHandle(ParseHandleFromHost(host))
           <=> \E handle \in Labels \ (Subdomains \cup Reserved) :
                  WithoutRoot(host.labels) = <<handle>> \o Domain
  <1> DEFINE labels == WithoutRoot(host.labels)
             mine == /\ Len(labels) = Len(Domain) + 1 /\ Tail(labels) = Domain
                     /\ Head(labels) \in Labels \ Subdomains
             T == STRING \cup Labels
  <1>1. labels \in Seq(STRING)
    <2>1. host.labels # <<>> => Front(host.labels) \in Seq(STRING)
      BY DEF Front
    <2> QED
      BY <2>1 DEF WithoutRoot
  <1>2. Domain \in Seq(STRING) /\ NoHandle \notin Labels
    BY TargetAssumption
  <1>3. ParseHandleFromHost(host) = IF mine THEN Head(labels) ELSE NoHandle
    BY DEF ParseHandleFromHost
  <1> HIDE DEF labels
  <1>4. ASSUME mine
        PROVE  labels = <<Head(labels)>> \o Domain
    <2>1. labels # <<>>
      BY <1>1, <1>2, <1>4
    <2>2. labels[1] = Head(labels) /\ Len(Tail(labels)) = Len(labels) - 1 /\ Len(labels) \in Nat
      BY <1>1, <2>1
    <2>3. \A i \in 2 .. Len(labels) : labels[i] = Tail(labels)[i - 1]
      BY <1>1, <2>1
    <2> DEFINE h == Head(labels)
               u == <<h>> \o Domain
    <2>4. h \in STRING /\ <<h>> \in Seq(STRING) /\ Len(<<h>>) = 1
      BY <1>1, <2>1
    <2> HIDE DEF h
    <2>5. u \in Seq(STRING) /\ Len(u) = 1 + Len(Domain) /\ u[1] = h
      BY <1>2, <2>4
    <2>6. \A i \in 2 .. Len(u) : u[i] = Domain[i - 1]
      BY <1>2, <2>4
    <2> HIDE DEF u
    <2>7. \A i \in 1 .. Len(u) : u[i] = labels[i]
      <3>1. Len(u) = Len(labels) /\ Len(u) \in Nat
        BY <1>2, <1>4, <2>2, <2>5
      <3>2. u[1] = labels[1]
        BY <2>2, <2>5 DEF h
      <3>3. \A i \in 2 .. Len(u) : u[i] = labels[i]
        BY <1>4, <2>3, <2>6, <3>1
      <3>4. \A i \in 1 .. Len(u) : i = 1 \/ i \in 2 .. Len(u)
        BY <3>1
      <3> QED
        BY <3>2, <3>3, <3>4
    <2>8. u = labels
      BY <1>1, <1>2, <1>4, <2>5, <2>7
    <2> QED
      BY <2>8 DEF u, h
  <1>5. ASSUME NEW handle \in Labels \ Subdomains, labels = <<handle>> \o Domain
        PROVE  mine /\ Head(labels) = handle
    <2>1. <<handle>> \in Seq(T) /\ Domain \in Seq(T) /\ handle \in T
      BY <1>2
    <2>2. Len(labels) = Len(Domain) + 1 /\ labels[1] = handle /\ labels # <<>>
      BY <1>5, <2>1
    <2>3. Head(labels) = handle
      BY <2>1, <2>2, <1>5
    <2>4. Tail(labels) = Domain
      <3> DEFINE t == Tail(labels)
      <3>1. labels \in Seq(T) /\ t \in Seq(T) /\ Len(t) = Len(Domain)
        BY <1>5, <2>1, <2>2
      <3>2. \A i \in 1 .. Len(Domain) : t[i] = labels[i + 1]
        BY <2>1, <2>2, <3>1
      <3>3. \A i \in 1 .. Len(Domain) : labels[i + 1] = Domain[i]
        BY <1>5, <2>1
      <3> HIDE DEF t
      <3>4. t = Domain
        BY <2>1, <3>1, <3>2, <3>3
      <3> QED
        BY <3>4 DEF t
    <2> QED
      BY <2>2, <2>3, <2>4
  <1>6. CASE mine
    BY <1>2, <1>3, <1>4, <1>5, <1>6 DEF labels, IsReservedHandle
  <1>7. CASE ~mine
    BY <1>3, <1>5, <1>7 DEF labels
  <1> QED
    BY <1>6, <1>7

\* What the router routes to a link is what NamesALink describes: a path and a host that
\* buildLinkUrl can build, with whatever port, root dot or escapes.
THEOREM LinkIffNamed ==
    ASSUME NEW host, host.labels \in Seq(STRING), NEW path \in Seq(STRING)
    PROVE  ParseRequestTarget(host, path) = "link" <=> NamesALink(host, path)
  <1> DEFINE ours == /\ ParseHandleFromHost(host) # NoHandle
                     /\ ~IsReservedHandle(ParseHandleFromHost(host))
  <1>1. ours <=> \E handle \in Labels \ (Subdomains \cup Reserved) :
                    WithoutRoot(host.labels) = <<handle>> \o Domain
    BY HandleOfUrl
  <1>2. ParseRequestTarget(host, path) = "link"
        <=> /\ ours /\ path \notin {<<>>, <<"/">>} /\ ToSet(path) # {"/"}
            /\ ~IsReservedPath(path) /\ IsValidSlug(ExtractSlug(path))
    BY DEF ParseRequestTarget
  <1> HIDE DEF ours
  <1>3. ParseRequestTarget(host, path) = "link" <=> ours /\ Link(path)
    <2>1. Link(path) => /\ path \notin {<<>>, <<"/">>} /\ ToSet(path) # {"/"}
                        /\ ~IsReservedPath(path) /\ IsValidSlug(ExtractSlug(path))
      <3>1. Link(path) => IsValidSlug(Decode(Tail(path)))
        BY DEF Link
      <3> QED
        BY <3>1, LinkIsExtracted
    <2> QED
      BY <1>2, <2>1, ExtractedIsLink
  <1>4. ASSUME path # <<>>, Head(path) = "/"
        PROVE  Tail(Decode(path)) = Decode(Tail(path))
               /\ Decode(path) = <<"/">> \o Decode(Tail(path))
    BY <1>4, DecodeTail
  <1>5. NamesALink(host, path) <=> ours /\ Link(path)
    <2>1. CASE path # <<>> /\ Head(path) = "/"
      BY <1>1, <1>4, <2>1 DEF NamesALink, BuildLinkUrl, Link
    <2>2. CASE ~(path # <<>> /\ Head(path) = "/")
      BY <2>2 DEF NamesALink, Link
    <2> QED
      BY <2>1, <2>2
  <1> QED
    BY <1>3, <1>5
================================================================================
