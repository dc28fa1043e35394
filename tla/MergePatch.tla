------------------------------ MODULE MergePatch ------------------------------
(***************************************************************************)
(* jsonmergepatch: the delta between two JSON documents as an RFC 7396     *)
(* merge patch, and its application.  An object is a function of its       *)
(* members; an array is atomic.  The code recurses; resources nest objects *)
(* one level deep, and so do the definitions: the operators whose name     *)
(* ends in 0 work on objects without nested objects.                       *)
(***************************************************************************)
CONSTANTS Key,         \* names of members
          Atom,        \* the documents that are no object
          Null,        \* the JSON null
          NullArrays   \* arrays that contain a null

IsObject(d) == d \notin Atom

\* Objects of atoms, objects that have such objects as members too.
Flat == UNION {[keys -> Atom] : keys \in SUBSET Key}
Object == UNION {[keys -> Atom \cup Flat] : keys \in SUBSET Key}
JSON == Atom \cup Object

ASSUME AtomAssumption ==
    /\ Null \in Atom /\ NullArrays \subseteq Atom
    /\ Atom \cap Object = {}

EmptyObject == [k \in {} |-> Null]

\* hasNull
HasNull0(d) == d = Null \/ d \in NullArrays

\* mutant: the scan stops at the members
HasTopNull(d) ==
    IF IsObject(d) THEN \E k \in DOMAIN d : HasNull0(d[k]) ELSE HasNull0(d)

HasNull(d) ==
    IF IsObject(d)
    THEN \E k \in DOMAIN d :
            IF IsObject(d[k]) THEN \E j \in DOMAIN d[k] : HasNull0(d[k][j])
                              ELSE HasNull0(d[k])
    ELSE HasNull0(d)

\* The members a patch names: added or changed, and removed.
Changed(prev, curr) ==
    {k \in DOMAIN curr : k \notin DOMAIN prev \/ prev[k] # curr[k]}
        \cup (DOMAIN prev \ DOMAIN curr)

\* diffObjects
DiffObjects0(prev, curr) ==
    [k \in Changed(prev, curr) |-> IF k \in DOMAIN curr THEN curr[k] ELSE Null]

BothObjects(prev, curr, k) ==
    /\ k \in DOMAIN prev \cap DOMAIN curr
    /\ IsObject(prev[k]) /\ IsObject(curr[k])

DiffObjects(prev, curr) ==
    [k \in Changed(prev, curr) |->
        IF BothObjects(prev, curr, k) THEN DiffObjects0(prev[k], curr[k])
        ELSE IF k \in DOMAIN curr THEN curr[k] ELSE Null]

Diff(prev, curr) ==
    IF IsObject(prev) /\ IsObject(curr) THEN DiffObjects(prev, curr) ELSE curr

DiffOrFull(prev, curr) ==
    IF HasNull(curr) THEN [format |-> "full", patch |-> curr]
                     ELSE [format |-> "merge", patch |-> Diff(prev, curr)]

\* applyAny: the members of target that a patch keeps, replaces and adds.
Merged(target, patch) ==
    (DOMAIN target \cup DOMAIN patch) \ {k \in DOMAIN patch : patch[k] = Null}

AsObject(d) == IF IsObject(d) THEN d ELSE EmptyObject

ApplyAny0(target, patch) ==
    [k \in Merged(target, patch) |-> IF k \in DOMAIN patch THEN patch[k] ELSE target[k]]

ApplyMember(target, k, v) ==
    IF ~IsObject(v) THEN v
    ELSE ApplyAny0(IF k \in DOMAIN target THEN AsObject(target[k]) ELSE EmptyObject, v)

ApplyAny(target, patch) ==
    IF ~IsObject(patch) THEN patch
    ELSE LET old == AsObject(target)
         IN [k \in Merged(old, patch) |->
                IF k \in DOMAIN patch THEN ApplyMember(old, k, patch[k]) ELSE old[k]]

\* What a client has after a delta: FormatFull replaces, FormatMerge patches.
Received(copy, delta) ==
    IF delta.format = "full" THEN delta.patch ELSE ApplyAny(copy, delta.patch)

-----------------------------------------------------------------------------
(* A client that receives the delta from the document it has gets exactly  *)
(* the new one, with members added, removed and retyped and nulls at every *)
(* depth (FormatMerge: "Apply(prev, patch) == curr", merge_patch.go).      *)
RoundTrips ==
    \A prev, curr \in JSON : Received(prev, DiffOrFull(prev, curr)) = curr
=============================================================================
