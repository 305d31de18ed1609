---------------------------- MODULE RequestTarget ----------------------------
(***************************************************************************)
(* What a request addresses (redirect/host.ts) and who sent it             *)
(* (redirect/capture.ts): pure functions of a host, a path and two         *)
(* headers.                                                                *)
(*                                                                         *)
(* A host is its labels, the root label "" of a fully qualified name       *)
(* included, and its port; a path is a sequence of tokens, "/" and the     *)
(* pieces between, some of them percent-encoded.                           *)
(***************************************************************************)
EXTENDS Integers, Sequences, FiniteSets, SequencesExt

CONSTANTS
    Domain,       \* POSTA_LINK_DOMAIN, as a sequence of labels
    Subdomains,   \* the labels of the app and the api host
    Labels,       \* the labels HANDLE_PATTERN and HANDLE_MAX_LENGTH accept
    Reserved,     \* RESERVED_HANDLES and their overrides
    SlugTokens,   \* tokens a slug may consist of
    Encoded,      \* percent-encodings: a function from token to what it decodes to
    Malformed,    \* tokens decodeURIComponent throws on
    ReservedNames, \* the RESERVED_PATHS other than "/", without their slash
    WellKnown,    \* the name of the one RESERVED_PATH_PREFIXES
    MaxSlug,      \* SLUG_MAX_LENGTH
    NoHandle,     \* no handle
    NoAddress     \* no address

ASSUME TargetAssumption ==
    /\ NoHandle \notin Labels
    /\ MaxSlug \in Nat
    /\ Domain \in Seq(STRING)
\* A slug has no slash, and a reserved name is written without escapes; "/" is neither an
\* escape nor part of one, and .well-known has a character that no slug may have.
ASSUME TokenAssumption ==
    /\ "/" \notin SlugTokens \cup DOMAIN Encoded \cup Malformed
    /\ WellKnown \notin SlugTokens
    /\ (ReservedNames \cup {WellKnown}) \cap DOMAIN Encoded = {}

-----------------------------------------------------------------------------
\* One root label is stripped, not two.
WithoutRoot(labels) ==
    IF labels # <<>> /\ Last(labels) = "" THEN Front(labels) ELSE labels

\* parseHandleFromHost: the port never matters.
ParseHandleFromHost(host) ==
    LET labels == WithoutRoot(host.labels)
    IN  IF /\ Len(labels) = Len(Domain) + 1
           /\ Tail(labels) = Domain
           /\ Head(labels) \in Labels \ Subdomains
        THEN Head(labels)
        ELSE NoHandle

IsReservedHandle(handle) == handle \in Reserved

\* normalizePath strips one trailing slash.
NormalizePath(path) ==
    CASE path = <<>> -> <<"/">>
      [] Len(path) > 1 /\ Last(path) = "/" -> Front(path)
      [] OTHER -> path

\* A reserved prefix matches on a segment boundary only.
IsReservedPath(path) ==
    LET normal == NormalizePath(path)
    IN  \/ normal = <<"/">>
        \/ \E name \in ReservedNames : normal = <<"/", name>>
        \/ normal = <<"/", WellKnown>>
        \/ IsPrefix(<<"/", WellKnown, "/">>, normal)

Decode(tokens) ==
    [i \in DOMAIN tokens |->
        IF tokens[i] \in DOMAIN Encoded THEN Encoded[tokens[i]] ELSE tokens[i]]

IsValidSlug(slug) ==
    /\ Len(slug) \in 1 .. MaxSlug
    /\ ToSet(slug) \subseteq SlugTokens
    /\ Head(slug) # "-" /\ Last(slug) # "-"
    /\ \A name \in ReservedNames : slug # <<name>>

\* A percent-encoding takes the place of three characters.
EncodedLength(tokens) ==
    Len(tokens) + 2 * Cardinality({i \in DOMAIN tokens : tokens[i] \in DOMAIN Encoded})

\* Bug: the bound on an encoded segment is the bound on a slug.
ExtractSlugShort(path) ==
    IF path = <<>> \/ Head(path) # "/" \/ EncodedLength(Tail(path)) > MaxSlug
    THEN <<>>
    ELSE IF "/" \in ToSet(Decode(Tail(path))) THEN <<>> ELSE Decode(Tail(path))

\* extractSlug: the one segment of the path, decoded; <<>> if there is no such segment.
\* The segment is looked at for a slash before it is decoded and after.
ExtractSlug(path) ==
    LET encoded == Tail(path)
        decoded == Decode(encoded)
    IN  IF \/ path = <<>> \/ Head(path) # "/"
           \/ EncodedLength(encoded) > 3 * MaxSlug
           \/ "/" \in ToSet(encoded)
           \/ ToSet(encoded) \cap Malformed # {}
           \/ "/" \in ToSet(decoded)
        THEN <<>>
        ELSE decoded

\* parseRequestTarget.
ParseRequestTarget(host, path) ==
    LET handle == ParseHandleFromHost(host)
        slug == ExtractSlug(path)
    IN  CASE handle = NoHandle -> "not-ours"
          [] IsReservedHandle(handle) -> "reserved-handle"
          [] path \in {<<>>, <<"/">>} -> "handle-root"
          [] ToSet(path) = {"/"} -> "invalid-path"
          [] IsReservedPath(path) -> "reserved-path"
          [] ~IsValidSlug(slug) -> "invalid-path"
          [] OTHER -> "link"

-----------------------------------------------------------------------------
\* buildLinkUrl.
BuildLinkUrl(handle, slug) ==
    [host |-> [labels |-> <<handle>> \o Domain, port |-> ""], path |-> <<"/">> \o slug]

\* The request is for a link some tenant may own: it is what a browser makes of
\* buildLinkUrl, with whatever port, root dot or escapes.
NamesALink(host, path) ==
    /\ path # <<>> /\ Head(path) = "/"
    /\ ToSet(path) \cap Malformed = {}
    /\ IsValidSlug(Tail(Decode(path)))
    /\ \E handle \in Labels \ (Subdomains \cup Reserved) :
          LET url == BuildLinkUrl(handle, Tail(Decode(path)))
          IN  WithoutRoot(host.labels) = url.host.labels /\ Decode(path) = url.path

-----------------------------------------------------------------------------
\* leftmostForwardedFor: literally the leftmost, though it may be blank.
LeftmostForwardedFor(entries) ==
    IF entries = <<>> \/ Head(entries) = "" THEN NoAddress ELSE Head(entries)

\* readClientIp: CF-Connecting-IP unless it is absent or empty.
ReadClientIp(headers) ==
    IF headers.cf \notin {NoAddress, ""}
    THEN headers.cf
    ELSE LeftmostForwardedFor(headers.xff)
=============================================================================
