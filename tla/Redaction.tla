------------------------------ MODULE Redaction -------------------------------
(***************************************************************************)
(* redactForbiddenKeys (contracts/redact.ts) on a heap of JavaScript       *)
(* values: a leaf, an object whose keys lead to values, or an array; the   *)
(* same value may be reached twice, and may reach itself.                  *)
(***************************************************************************)
EXTENDS Naturals, Sequences

CONSTANTS
    Heap,        \* the values: [kind |-> "leaf"], or [kind, fields]
    Lower,       \* each key in lower case
    Forbidden,   \* FORBIDDEN_PAYLOAD_KEYS
    MaxDepth     \* MAX_REDACTION_DEPTH

\* A field holds a value of the heap; the keys of an array are its indices, and no index is
\* a forbidden key.
ASSUME HeapAssumption ==
    /\ MaxDepth \in Nat
    /\ \A node \in DOMAIN Heap : Heap[node].kind \in {"leaf", "object", "array"}
    /\ \A node \in DOMAIN Heap : Heap[node].kind # "leaf" =>
          \A key \in DOMAIN Heap[node].fields :
              /\ Heap[node].fields[key] \in DOMAIN Heap
              /\ Heap[node].kind = "array" => Lower[key] \notin Forbidden

\* Bug: keys are compared as they are written.
IsForbiddenKeyExactly(key) == key \in Forbidden

IsForbiddenKey(key) == Lower[key] \in Forbidden

-----------------------------------------------------------------------------
\* A call of redactNode: the value it is given, how deep, and the values it lies in.
Calls == [node : DOMAIN Heap, depth : 0 .. MaxDepth, ancestors : SUBSET DOMAIN Heap]

Payload(node) == [node |-> node, depth |-> 0, ancestors |-> {}]

Field(call, key) == [node |-> Heap[call.node].fields[key], depth |-> call.depth + 1,
                     ancestors |-> call.ancestors \cup {call.node}]

Under(key, ends) == {[path |-> <<key>> \o end.path, is |-> end.is] : end \in ends}

\* redactNode.  A copy is the set of its ends, the path to each and what stands there: a
\* leaf that was kept, or SECRET_REDACTION_PLACEHOLDER, MAX_DEPTH_EXCEEDED_PLACEHOLDER or
\* CIRCULAR_REFERENCE_PLACEHOLDER.
RedactNode[call \in Calls] ==
    LET value == Heap[call.node]
        End(is) == {[path |-> <<>>, is |-> is]}
    IN  IF value.kind = "leaf" THEN End("kept")
        ELSE IF call.depth >= MaxDepth THEN End("tooDeep")
        ELSE IF call.node \in call.ancestors THEN End("circular")
        ELSE UNION {Under(key, IF value.kind = "object" /\ IsForbiddenKey(key)
                               THEN End("redacted")
                               ELSE RedactNode[Field(call, key)]) : key \in DOMAIN value.fields}

\* redactedKeys holds the path of every key whose value was replaced.
RedactForbiddenKeys(node) ==
    LET copy == RedactNode[Payload(node)]
    IN  [value |-> copy,
         redactedKeys |-> {end.path : end \in {e \in copy : e.is = "redacted"}}]

-----------------------------------------------------------------------------
\* For the properties, walked on the heap: the paths of the forbidden keys of a value that
\* are no longer than the depth limit and go through no value twice.
ForbiddenPaths[call \in Calls] ==
    IF \/ Heap[call.node].kind = "leaf"
       \/ call.depth >= MaxDepth
       \/ call.node \in call.ancestors
    THEN {}
    ELSE LET keys == DOMAIN Heap[call.node].fields
         IN  {<<key>> : key \in {k \in keys : Lower[k] \in Forbidden}}
             \cup UNION {{<<key>> \o path : path \in ForbiddenPaths[Field(call, key)]} :
                            key \in keys}
=============================================================================
