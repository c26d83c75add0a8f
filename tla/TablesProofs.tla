---------------------------- MODULE TablesProofs ----------------------------
(***************************************************************************)
(* The arithmetic of a ballot, for any number of users.                    *)
(***************************************************************************)
EXTENDS Tables, FiniteSetTheorems, TLAPS

\* The voters on either side of a ballot are finitely many.
LEMMA SidesFinite ==
    ASSUME NEW b
    PROVE  /\ IsFiniteSet(Ethical(b)) /\ Cardinality(Ethical(b)) \in Nat
           /\ IsFiniteSet(Unethical(b)) /\ Cardinality(Unethical(b)) \in Nat
<1>1. Ethical(b) \subseteq Users /\ Unethical(b) \subseteq Users
  BY DEF Ethical, Unethical
<1>2. IsFiniteSet(Users)
  BY TablesAssumption
<1>3. IsFiniteSet(Ethical(b)) /\ IsFiniteSet(Unethical(b))
  BY <1>1, <1>2, FS_Subset
<1> QED
  BY <1>3, FS_CardinalityType

\* A tally is a number, and 0 when nobody has voted.
LEMMA TallyType ==
    /\ \A b : Tally(b) \in Int
    /\ Tally(NoVotes) = 0
<1>1. \A b : Tally(b) \in Int
  BY SidesFinite DEF Tally
<1>2. Ethical(NoVotes) = {} /\ Unethical(NoVotes) = {}
  BY DEF Ethical, Unethical, NoVotes
<1>3. Tally(NoVotes) = 0
  BY <1>2, FS_EmptySet DEF Tally
<1> QED
  BY <1>1, <1>3

\* How the two sides change when one vote does.
LEMMA SideChanges ==
    ASSUME NEW b \in Ballot, NEW u \in Users, NEW x \in Value \cup {0}
    PROVE  LET n == [b EXCEPT ![u] = x] IN
           /\ Ethical(n) = IF x = 1 THEN Ethical(b) \cup {u} ELSE Ethical(b) \ {u}
           /\ Unethical(n) = IF x = -1 THEN Unethical(b) \cup {u} ELSE Unethical(b) \ {u}
<1> DEFINE n == [b EXCEPT ![u] = x]
<1>1. /\ n \in Ballot /\ n[u] = x
      /\ \A w \in Users : w # u => n[w] = b[w]
  BY DEF Ballot
<1>2. \A w : w \in Ethical(n) <=> w \in Users /\ n[w] = 1
  BY DEF Ethical
<1>3. \A w : w \in Unethical(n) <=> w \in Users /\ n[w] = -1
  BY DEF Unethical
<1>4. \A w : w \in Ethical(b) <=> w \in Users /\ b[w] = 1
  BY DEF Ethical
<1>5. \A w : w \in Unethical(b) <=> w \in Users /\ b[w] = -1
  BY DEF Unethical
<1>6. Ethical(n) = IF x = 1 THEN Ethical(b) \cup {u} ELSE Ethical(b) \ {u}
  BY <1>1, <1>2, <1>4
<1>7. Unethical(n) = IF x = -1 THEN Unethical(b) \cup {u} ELSE Unethical(b) \ {u}
  BY <1>1, <1>3, <1>5
<1> QED
  BY <1>6, <1>7

\* Adding or taking away one voter moves the size of a side by one, or not at all.
LEMMA OneMore ==
    ASSUME NEW S, IsFiniteSet(S), NEW u
    PROVE  /\ u \in S => /\ Cardinality(S \cup {u}) = Cardinality(S)
                         /\ Cardinality(S \ {u}) = Cardinality(S) - 1
           /\ u \notin S => /\ Cardinality(S \cup {u}) = Cardinality(S) + 1
                            /\ Cardinality(S \ {u}) = Cardinality(S)
<1>1. ASSUME u \in S
      PROVE  /\ Cardinality(S \cup {u}) = Cardinality(S)
             /\ Cardinality(S \ {u}) = Cardinality(S) - 1
  <2>1. S \cup {u} = S
    BY <1>1
  <2>2. Cardinality(S \ {u}) = Cardinality(S) - 1
    BY <1>1, FS_RemoveElement
  <2> QED
    BY <2>1, <2>2
<1>2. ASSUME u \notin S
      PROVE  /\ Cardinality(S \cup {u}) = Cardinality(S) + 1
             /\ Cardinality(S \ {u}) = Cardinality(S)
  <2>1. S \ {u} = S
    BY <1>2
  <2>2. Cardinality(S \cup {u}) = Cardinality(S) + 1
    BY <1>2, FS_AddElement
  <2> QED
    BY <2>1, <2>2
<1> QED
  BY <1>1, <1>2

\* The difference that vote_on_report adds to vote_sum is the change of the tally:
\* for every ballot, voter and value, Toggle and Delta fit together.
THEOREM DeltaIsTallyChange ==
    ASSUME NEW b \in Ballot, NEW u \in Users, NEW v \in Value
    PROVE  Tally([b EXCEPT ![u] = Toggle(b[u], v)]) = Tally(b) + Delta(b[u], v)
<1> DEFINE x == Toggle(b[u], v)
           n == [b EXCEPT ![u] = x]
           E == Ethical(b)
           A == Unethical(b)
<1>1. b[u] \in {1, -1, 0} /\ v \in {1, -1}
  BY DEF Ballot, Value
<1>2. x \in Value \cup {0}
  BY <1>1 DEF Toggle, Value
<1>3. /\ Ethical(n) = IF x = 1 THEN E \cup {u} ELSE E \ {u}
      /\ Unethical(n) = IF x = -1 THEN A \cup {u} ELSE A \ {u}
  BY <1>2, SideChanges
<1>4. (u \in E <=> b[u] = 1) /\ (u \in A <=> b[u] = -1)
  BY DEF Ethical, Unethical
<1>5. /\ Cardinality(E) \in Nat /\ IsFiniteSet(E)
      /\ Cardinality(A) \in Nat /\ IsFiniteSet(A)
  BY SidesFinite
<1>6. /\ b[u] = 1 => /\ Cardinality(E \cup {u}) = Cardinality(E)
                     /\ Cardinality(E \ {u}) = Cardinality(E) - 1
      /\ b[u] # 1 => /\ Cardinality(E \cup {u}) = Cardinality(E) + 1
                     /\ Cardinality(E \ {u}) = Cardinality(E)
  BY <1>4, <1>5, OneMore
<1>7. /\ b[u] = -1 => /\ Cardinality(A \cup {u}) = Cardinality(A)
                      /\ Cardinality(A \ {u}) = Cardinality(A) - 1
      /\ b[u] # -1 => /\ Cardinality(A \cup {u}) = Cardinality(A) + 1
                      /\ Cardinality(A \ {u}) = Cardinality(A)
  BY <1>4, <1>5, OneMore
<1>8. Tally(n) = Cardinality(Ethical(n)) - Cardinality(Unethical(n))
  BY DEF Tally
<1>9. Tally(b) = Cardinality(E) - Cardinality(A)
  BY DEF Tally
<1> HIDE DEF n, E, A
<1>10. Tally(n) = Tally(b) + Delta(b[u], v)
  <2>1. CASE b[u] = 0
    <3>1. x = v /\ Delta(b[u], v) = v
      BY <1>1, <2>1 DEF Toggle, Delta
    <3> QED
      BY <1>1, <1>3, <1>5, <1>6, <1>7, <1>8, <1>9, <2>1, <3>1
  <2>2. CASE b[u] # 0 /\ b[u] = v
    <3>1. x = 0 /\ Delta(b[u], v) = -v
      BY <1>1, <2>2 DEF Toggle, Delta
    <3> QED
      BY <1>1, <1>3, <1>5, <1>6, <1>7, <1>8, <1>9, <2>2, <3>1
  <2>3. CASE b[u] # 0 /\ b[u] # v
    <3>1. x = v /\ Delta(b[u], v) = 2 * v
      BY <1>1, <2>3 DEF Toggle, Delta
    <3> QED
      BY <1>1, <1>3, <1>5, <1>6, <1>7, <1>8, <1>9, <2>3, <3>1
  <2> QED
    BY <2>1, <2>2, <2>3
<1> QED
  BY <1>10 DEF n
=============================================================================
