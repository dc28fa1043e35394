--------------------------- MODULE MergePatch_proof ---------------------------
(***************************************************************************)
(* A client that applies the delta to the document it was computed from    *)
(* has the new document, for all members and values: what the comment of   *)
(* FormatMerge in merge_patch.go claims, with the full replacement for     *)
(* documents a merge patch cannot express.                                 *)
(***************************************************************************)
EXTENDS MergePatch, TLAPS

-----------------------------------------------------------------------------
(* Functions whose members are patched as a whole.                         *)

Members(d) == [k \in DOMAIN d |-> d[k]]

\* What the patch names is what changes.
LEMMA PatchOfMembers ==
    ASSUME NEW prev, NEW curr, NEW patch, patch = DiffObjects0(prev, curr)
    PROVE  /\ DOMAIN patch = Changed(prev, curr)
           /\ \A k \in DOMAIN patch :
                 patch[k] = IF k \in DOMAIN curr THEN curr[k] ELSE Null
           /\ \A k : k \in Changed(prev, curr) <=>
                 \/ k \in DOMAIN curr /\ (k \notin DOMAIN prev \/ prev[k] # curr[k])
                 \/ k \in DOMAIN prev /\ k \notin DOMAIN curr
BY DEF DiffObjects0, Changed

LEMMA FlatRoundTrip ==
    ASSUME NEW prev, NEW curr, curr = Members(curr), \A k \in DOMAIN curr : curr[k] # Null
    PROVE  ApplyAny0(prev, DiffObjects0(prev, curr)) = curr
<1>1. PICK patch : patch = DiffObjects0(prev, curr)
  OBVIOUS
<1>2. Merged(prev, patch) = DOMAIN curr
  BY <1>1, PatchOfMembers DEF Merged
<1>3. \A k \in DOMAIN curr :
         (IF k \in DOMAIN patch THEN patch[k] ELSE prev[k]) = curr[k]
  BY <1>1, PatchOfMembers
<1>4. ApplyAny0(prev, patch) = [k \in DOMAIN curr |-> curr[k]]
  BY <1>2, <1>3 DEF ApplyAny0
<1> QED BY <1>1, <1>4 DEF Members

\* A delta that arrives late finds what it would have brought.
LEMMA FlatLate ==
    ASSUME NEW prev, NEW curr, curr = Members(curr), \A k \in DOMAIN curr : curr[k] # Null
    PROVE  ApplyAny0(curr, DiffObjects0(prev, curr)) = curr
<1>1. PICK patch : patch = DiffObjects0(prev, curr)
  OBVIOUS
<1>2. Merged(curr, patch) = DOMAIN curr
  BY <1>1, PatchOfMembers DEF Merged
<1>3. \A k \in DOMAIN curr :
         (IF k \in DOMAIN patch THEN patch[k] ELSE curr[k]) = curr[k]
  BY <1>1, PatchOfMembers
<1>4. ApplyAny0(curr, patch) = [k \in DOMAIN curr |-> curr[k]]
  BY <1>2, <1>3 DEF ApplyAny0
<1> QED BY <1>1, <1>4 DEF Members

\* applyAny(nil, v): a new nested object is taken over as it is.
LEMMA NewObject ==
    ASSUME NEW v \in Flat, \A j \in DOMAIN v : v[j] # Null
    PROVE  ApplyAny0(EmptyObject, v) = v
<1>1. Merged(EmptyObject, v) = DOMAIN v
  BY DEF Merged, EmptyObject
<1>2. ApplyAny0(EmptyObject, v) = [k \in DOMAIN v |-> v[k]]
  BY <1>1 DEF ApplyAny0
<1>3. v = [k \in DOMAIN v |-> v[k]]
  BY DEF Flat
<1> QED BY <1>2, <1>3

LEMMA FlatIsObject == Flat \subseteq Object
<1> SUFFICES ASSUME NEW keys \in SUBSET Key, NEW f \in [keys -> Atom]
             PROVE  f \in [keys -> Atom \cup Flat]
  BY DEF Flat, Object
<1> QED OBVIOUS

-----------------------------------------------------------------------------
(* Apply(prev, patch) = curr for FormatMerge, and the document itself for  *)
(* FormatFull, whatever members come, go or change their type (DiffOrFull, *)
(* Apply).                                                                 *)
THEOREM RoundTrip == RoundTrips
<1>. SUFFICES ASSUME NEW prev \in JSON, NEW curr \in JSON
              PROVE  Received(prev, DiffOrFull(prev, curr)) = curr
  BY DEF RoundTrips
<1>a. /\ \A d \in Atom : ~IsObject(d)
      /\ \A f \in Flat : IsObject(f)
      /\ \A o \in Object : IsObject(o)
      /\ ~IsObject(Null)
      /\ curr \in Atom \cup Object /\ prev \in Atom \cup Object
  BY AtomAssumption, FlatIsObject DEF IsObject, JSON
<1>. HIDE DEF IsObject, JSON
<1>1. CASE HasNull(curr)
  BY <1>1 DEF Received, DiffOrFull
<1>2. CASE ~HasNull(curr)
  <2>1. Received(prev, DiffOrFull(prev, curr)) = ApplyAny(prev, Diff(prev, curr))
    BY <1>2 DEF Received, DiffOrFull
  <2>2. CASE curr \in Atom
    BY <1>a, <2>1, <2>2 DEF Diff, ApplyAny
  <2>3. CASE curr \in Object
    <3>1. IsObject(curr) /\ curr = [k \in DOMAIN curr |-> curr[k]]
      BY <1>a, <2>3 DEF Object
    <3>2. \A k \in DOMAIN curr : curr[k] \in Atom \cup Flat
      BY <2>3 DEF Object
    <3>3. \A k \in DOMAIN curr : curr[k] # Null
      BY <1>2, <3>1, <1>a DEF HasNull, HasNull0
    <3>4. \A k \in DOMAIN curr : IsObject(curr[k]) =>
             curr[k] \in Flat /\ \A j \in DOMAIN curr[k] : curr[k][j] # Null
      BY <1>a, <1>2, <3>1, <3>2 DEF HasNull, HasNull0
    <3>5. CASE prev \in Atom
      <4>1. Diff(prev, curr) = curr /\ AsObject(prev) = EmptyObject
        BY <1>a, <3>5 DEF Diff, AsObject
      <4>2. Merged(EmptyObject, curr) = DOMAIN curr
        BY <3>3 DEF Merged, EmptyObject
      <4>3. \A k \in DOMAIN curr : ApplyMember(EmptyObject, k, curr[k]) = curr[k]
        BY <3>4, NewObject DEF ApplyMember, EmptyObject
      <4>4. ApplyAny(prev, curr) = [k \in DOMAIN curr |-> curr[k]]
        BY <3>1, <4>1, <4>2, <4>3 DEF ApplyAny
      <4> QED BY <2>1, <3>1, <4>1, <4>4
    <3>6. CASE prev \in Object
      <4> DEFINE patch == DiffObjects(prev, curr)
      <4>1. IsObject(prev) /\ AsObject(prev) = prev /\ Diff(prev, curr) = patch
        BY <1>a, <3>1, <3>6 DEF Diff, AsObject
      <4>2. \A k \in DOMAIN prev : prev[k] \in Atom \cup Flat
        BY <3>6 DEF Object
      <4>3. /\ DOMAIN patch = Changed(prev, curr)
            /\ \A k \in DOMAIN patch : patch[k] =
                  IF BothObjects(prev, curr, k) THEN DiffObjects0(prev[k], curr[k])
                  ELSE IF k \in DOMAIN curr THEN curr[k] ELSE Null
        BY DEF DiffObjects
      <4>4. \A k : k \in Changed(prev, curr) <=>
                \/ k \in DOMAIN curr /\ (k \notin DOMAIN prev \/ prev[k] # curr[k])
                \/ k \in DOMAIN prev /\ k \notin DOMAIN curr
        BY DEF Changed
      <4>5. ASSUME NEW k \in DOMAIN patch, BothObjects(prev, curr, k)
            PROVE  /\ patch[k] \in Flat
                   /\ ApplyAny0(prev[k], patch[k]) = curr[k]
        <5>1. prev[k] \in Flat /\ curr[k] \in Flat
          BY <1>a, <4>5, <4>2, <3>2 DEF BothObjects
        <5>2. patch[k] = DiffObjects0(prev[k], curr[k])
          BY <4>3, <4>5
        <5>3. DiffObjects0(prev[k], curr[k]) \in Flat
          <6>1. Changed(prev[k], curr[k]) \in SUBSET Key
            BY <5>1 DEF Changed, Flat
          <6>2. DiffObjects0(prev[k], curr[k]) \in [Changed(prev[k], curr[k]) -> Atom]
            BY AtomAssumption, <5>1 DEF DiffObjects0, Flat
          <6> QED BY <6>1, <6>2 DEF Flat
        <5>4. curr[k] = Members(curr[k]) /\ \A j \in DOMAIN curr[k] : curr[k][j] # Null
          BY <5>1, <3>4, <4>5 DEF BothObjects, Flat, Members
        <5> QED BY <5>2, <5>3, <5>4, FlatRoundTrip
      <4>6. \A k \in DOMAIN patch : patch[k] = Null <=> k \notin DOMAIN curr
        <5> SUFFICES ASSUME NEW k \in DOMAIN patch
                     PROVE  patch[k] = Null <=> k \notin DOMAIN curr
          OBVIOUS
        <5>1. CASE BothObjects(prev, curr, k)
          BY <1>a, <5>1, <4>5 DEF BothObjects
        <5>2. CASE ~BothObjects(prev, curr, k)
          BY <5>2, <4>3, <3>3
        <5> QED BY <5>1, <5>2
      <4>7. Merged(prev, patch) = DOMAIN curr
        <5> HIDE DEF patch
        <5> QED BY <4>3, <4>4, <4>6 DEF Merged
      <4>8. IsObject(patch)
        <5>1. Changed(prev, curr) \in SUBSET Key
          BY <2>3, <3>6 DEF Changed, Object
        <5>2. \A k \in DOMAIN patch : patch[k] \in Atom \cup Flat
          BY AtomAssumption, <4>3, <4>5, <3>2
        <5>3. patch \in [Changed(prev, curr) -> Atom \cup Flat]
          BY <5>2 DEF DiffObjects
        <5> QED BY <1>a, <5>1, <5>3 DEF Object
      <4>9. ASSUME NEW k \in DOMAIN curr
            PROVE  (IF k \in DOMAIN patch THEN ApplyMember(prev, k, patch[k]) ELSE prev[k])
                      = curr[k]
        <5>1. CASE k \notin DOMAIN patch
          BY <5>1, <4>3, <4>4
        <5>2. CASE k \in DOMAIN patch /\ BothObjects(prev, curr, k)
          BY <1>a, <5>2, <4>5 DEF ApplyMember, AsObject, BothObjects
        <5>3. CASE k \in DOMAIN patch /\ ~BothObjects(prev, curr, k)
          <6>1. patch[k] = curr[k]
            BY <5>3, <4>3
          <6>2. CASE ~IsObject(curr[k])
            BY <6>1, <6>2, <5>3 DEF ApplyMember
          <6>3. CASE IsObject(curr[k])
            <7>1. (IF k \in DOMAIN prev THEN AsObject(prev[k]) ELSE EmptyObject) = EmptyObject
              BY <5>3, <6>3 DEF BothObjects, AsObject
            <7>2. ApplyAny0(EmptyObject, curr[k]) = curr[k]
              BY <3>4, <6>3, NewObject
            <7> QED BY <5>3, <6>1, <6>3, <7>1, <7>2 DEF ApplyMember
          <6> QED BY <6>2, <6>3
        <5> QED BY <5>1, <5>2, <5>3
      <4>10. ApplyAny(prev, patch) = [k \in DOMAIN curr |-> curr[k]]
        <5> HIDE DEF patch
        <5> QED BY <4>1, <4>7, <4>8, <4>9 DEF ApplyAny
      <4> QED BY <2>1, <3>1, <4>1, <4>10
    <3> QED BY <1>a, <3>5, <3>6
  <2> QED BY <1>a, <2>2, <2>3
<1> QED BY <1>1, <1>2
=============================================================================
