----------------------------- MODULE SeqLemmas -----------------------------
(***************************************************************************)
(* What Append and Tail do to the members of a sequence without duplicates: *)
(* the facts about queues and channels that the component proofs cite.      *)
(***************************************************************************)
EXTENDS SequenceTheorems, FiniteSetTheorems, TLAPS

(* Appending a value adds it to the members. *)
LEMMA AppendRange ==
    ASSUME NEW S, NEW s \in Seq(S), NEW e \in S
    PROVE  Range(Append(s, e)) = Range(s) \union {e}
<1> DEFINE t == Append(s, e)
<1>1. /\ t \in Seq(S)
      /\ Len(t) = Len(s) + 1
      /\ \A i \in 1 .. Len(s) : t[i] = s[i]
      /\ t[Len(s) + 1] = e
  BY AppendProperties
<1>2. Len(s) \in Nat
  BY LenProperties
<1>3. Range(t) = {t[i] : i \in 1 .. Len(t)}
  BY <1>1, RangeEquality
<1>4. Range(s) = {s[i] : i \in 1 .. Len(s)}
  BY RangeEquality
<1> HIDE DEF t
<1>5. Range(t) = Range(s) \union {e}
  BY <1>1, <1>2, <1>3, <1>4
<1> QED
  BY <1>5 DEF t

(* Appending a value that is not yet a member creates no duplicate. *)
LEMMA AppendKeepsInjective ==
    ASSUME NEW S, NEW s \in Seq(S), NEW e \in S, IsInjective(s), e \notin Range(s)
    PROVE  IsInjective(Append(s, e))
<1>1. PICK t : t = Append(s, e)
  OBVIOUS
<1>2. /\ t \in Seq(S)
      /\ Len(t) = Len(s) + 1
      /\ \A i \in 1 .. Len(s) : t[i] = s[i]
      /\ t[Len(s) + 1] = e
  BY <1>1, AppendProperties
<1>3. Len(s) \in Nat /\ DOMAIN s = 1 .. Len(s) /\ DOMAIN t = 1 .. Len(t)
  BY <1>2, LenProperties
<1>4. \A i \in 1 .. Len(s) : s[i] # e
  BY <1>3 DEF Range
<1>5. IsInjective(t)
  BY <1>2, <1>3, <1>4 DEF IsInjective
<1> QED
  BY <1>1, <1>5

(* Taking the head off a sequence without duplicates removes exactly it. *)
LEMMA TailRange ==
    ASSUME NEW S, NEW s \in Seq(S), s # << >>, IsInjective(s)
    PROVE  /\ Range(Tail(s)) = Range(s) \ {Head(s)}
           /\ IsInjective(Tail(s))
           /\ Head(s) \in Range(s)
<1> DEFINE t == Tail(s)
<1>1. /\ t \in Seq(S)
      /\ Len(t) = Len(s) - 1
      /\ \A i \in 1 .. Len(t) : t[i] = s[i + 1]
  BY HeadTailProperties
<1>2. Len(s) \in Nat \ {0} /\ DOMAIN s = 1 .. Len(s) /\ DOMAIN t = 1 .. Len(t)
  BY <1>1, LenProperties, EmptySeq
<1>3. Head(s) = s[1]
  OBVIOUS
<1>4. Range(t) = {t[i] : i \in 1 .. Len(t)}
  BY <1>1, RangeEquality
<1>5. Range(s) = {s[i] : i \in 1 .. Len(s)}
  BY RangeEquality
<1> HIDE DEF t
<1>6. IsInjective(t)
  BY <1>1, <1>2 DEF IsInjective
<1>7. Range(t) \subseteq Range(s) \ {s[1]}
  BY <1>1, <1>2, <1>4, <1>5 DEF IsInjective
<1>8. ASSUME NEW x \in Range(s) \ {s[1]} PROVE x \in Range(t)
  <2>1. PICK i \in 1 .. Len(s) : x = s[i]
    BY <1>5
  <2>2. i - 1 \in 1 .. Len(t) /\ t[i - 1] = s[i]
    BY <1>1, <1>2, <2>1
  <2> QED
    BY <1>4, <2>1, <2>2
<1>9. s[1] \in Range(s)
  BY <1>2, <1>5
<1> QED
  BY <1>3, <1>6, <1>7, <1>8, <1>9 DEF t

(* A sequence without duplicates is no longer than the set it draws from. *)
LEMMA InjectiveLen ==
    ASSUME NEW S, IsFiniteSet(S), NEW s \in Seq(S), IsInjective(s)
    PROVE  Len(s) <= Cardinality(S)
<1>1. Len(s) \in Nat /\ s \in [1 .. Len(s) -> S]
  BY LenProperties
<1>2. s \in Injection(1 .. Len(s), S)
  BY <1>1 DEF Injection
<1>3. Cardinality(1 .. Len(s)) <= Cardinality(S)
  BY <1>2, FS_Injection
<1>4. Cardinality(1 .. Len(s)) = Len(s)
  BY <1>1, FS_Interval
<1> QED
  BY <1>3, <1>4
=============================================================================
