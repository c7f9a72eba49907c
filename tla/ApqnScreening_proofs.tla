------------------------ MODULE ApqnScreening_proofs ------------------------
(***************************************************************************)
(* The checks and comparisons of the screening are exact, for every set of *)
(* configurations and all hardware: Verify refuses what some machine would *)
(* have in two places, what it lets through makes the one-way comparison   *)
(* of lists exact, the lookups agree, and no device id is announced twice. *)
(***************************************************************************)
EXTENDS ApqnScreening, Sums

(* The least of some positions of a list is one of them.                   *)
LEMMA MinIsMember ==
    ASSUME NEW T, T \subseteq Nat, T # {}
    PROVE  Min(T) \in T
  <1>1. \E x \in T : \A y \in T : x =< y
    BY LeastNumber
  <1> QED
    BY <1>1 DEF Min

(* A list without repetitions has as many elements as its length says.     *)
LEMMA InjectiveCount ==
    ASSUME NEW n \in Nat, NEW f, DOMAIN f = 1 .. n, IsInjective(f)
    PROVE  LET T == {f[i] : i \in DOMAIN f}
           IN  IsFiniteSet(T) /\ Cardinality(T) = n
  <1> DEFINE T == {f[i] : i \in DOMAIN f}
             g == [i \in 1 .. n |-> f[i]]
  <1>1. g \in Bijection(1 .. n, T)
    <2>1. g \in [1 .. n -> T]
      OBVIOUS
    <2>2. \A a, b \in 1 .. n : g[a] = g[b] => a = b
      BY DEF IsInjective
    <2>3. \A t \in T : \E i \in 1 .. n : g[i] = t
      OBVIOUS
    <2> HIDE DEF g, T
    <2> QED
      BY <2>1, <2>2, <2>3 DEF Bijection, Injection, Surjection, IsInjective
  <1>2. ExistsBijection(1 .. n, T)
    BY <1>1 DEF ExistsBijection
  <1>3. IsFiniteSet(1 .. n) /\ Cardinality(1 .. n) = n
    BY FS_Interval
  <1> QED
    BY <1>2, <1>3, FS_Bijection

-----------------------------------------------------------------------------
(* What the recursion of FlattenSeq defines, up to the n-th list.          *)
Joins(f, seqs, n) ==
    f = [i \in 1 .. n |-> IF i = 1 THEN seqs[i] ELSE f[i - 1] \o seqs[i]]

(* There is such a function.                                               *)
LEMMA JoinExists ==
    ASSUME NEW seqs
    PROVE  \A n \in Nat : \E f : Joins(f, seqs, n)
  <1> DEFINE P == {n \in Nat : \E f : Joins(f, seqs, n)}
  <1>1. 0 \in P
    <2> DEFINE f == [i \in 1 .. 0 |-> 0]
    <2>1. Joins(f, seqs, 0)
      BY DEF Joins
    <2> QED
      BY <2>1
  <1>2. ASSUME NEW n \in Nat, n \in P PROVE n + 1 \in P
    <2>1. PICK f : Joins(f, seqs, n)
      BY <1>2
    <2> DEFINE g == [i \in 1 .. n + 1 |->
                        IF i \in 1 .. n THEN f[i]
                        ELSE IF i = 1 THEN seqs[i] ELSE f[i - 1] \o seqs[i]]
    <2>2. \A i \in 1 .. n : f[i] = IF i = 1 THEN seqs[i] ELSE f[i - 1] \o seqs[i]
      BY <2>1 DEF Joins
    <2>3. ASSUME NEW i \in 1 .. n + 1
          PROVE  g[i] = IF i = 1 THEN seqs[i] ELSE g[i - 1] \o seqs[i]
      <3>1. i # 1 => i - 1 \in 1 .. n /\ i - 1 \in 1 .. n + 1
        OBVIOUS
      <3>2. i # 1 => g[i - 1] = f[i - 1]
        BY <3>1
      <3>3. g[i] = IF i = 1 THEN seqs[i] ELSE f[i - 1] \o seqs[i]
        BY <2>2
      <3> HIDE DEF g
      <3> QED
        BY <3>2, <3>3
    <2>4. g = [i \in 1 .. n + 1 |-> IF i = 1 THEN seqs[i] ELSE g[i - 1] \o seqs[i]]
      BY <2>3
    <2> HIDE DEF g
    <2>5. Joins(g, seqs, n + 1)
      BY <2>4, Zenon DEF Joins
    <2> QED
      BY <2>5
  <1> HIDE DEF P
  <1>3. Nat \subseteq P
    BY <1>1, <1>2, InductionOverNat
  <1> QED
    BY <1>3 DEF P

(* The concatenation of two lists.                                         *)
LEMMA Concatenate ==
    ASSUME NEW S, NEW s \in Seq(S), NEW t \in Seq(S)
    PROVE  /\ s \o t \in Seq(S)
           /\ ToSet(s \o t) = ToSet(s) \cup ToSet(t)
           /\ IsInjective(s) /\ IsInjective(t) /\ ToSet(s) \cap ToSet(t) = {}
              => IsInjective(s \o t)
  <1> DEFINE u == s \o t
  <1>1. /\ u \in Seq(S) /\ DOMAIN u = 1 .. (Len(s) + Len(t))
        /\ DOMAIN s = 1 .. Len(s) /\ DOMAIN t = 1 .. Len(t)
        /\ Len(s) \in Nat /\ Len(t) \in Nat
    OBVIOUS
  <1>2. /\ \A i \in 1 .. Len(s) : u[i] = s[i]
        /\ \A i \in 1 .. (Len(s) + Len(t)) : i \notin 1 .. Len(s) =>
               i - Len(s) \in 1 .. Len(t) /\ u[i] = t[i - Len(s)]
    OBVIOUS
  <1>3. \A k \in 1 .. Len(t) : Len(s) + k \in DOMAIN u /\ u[Len(s) + k] = t[k]
    OBVIOUS
  <1> HIDE DEF u
  <1>4. ToSet(u) \subseteq ToSet(s) \cup ToSet(t)
    BY <1>1, <1>2 DEF ToSet
  <1>5. ToSet(s) \subseteq ToSet(u)
    BY <1>1, <1>2 DEF ToSet
  <1>6. ToSet(t) \subseteq ToSet(u)
    BY <1>1, <1>3 DEF ToSet
  <1>7. ASSUME IsInjective(s), IsInjective(t), ToSet(s) \cap ToSet(t) = {}
        PROVE  IsInjective(u)
    <2> SUFFICES ASSUME NEW a \in DOMAIN u, NEW b \in DOMAIN u, u[a] = u[b] PROVE a = b
      BY DEF IsInjective
    <2>1. CASE a \in 1 .. Len(s) /\ b \in 1 .. Len(s)
      BY <1>1, <1>2, <1>7, <2>1 DEF IsInjective
    <2>2. CASE a \notin 1 .. Len(s) /\ b \notin 1 .. Len(s)
      <3>1. a - Len(s) \in DOMAIN t /\ b - Len(s) \in DOMAIN t
            /\ t[a - Len(s)] = t[b - Len(s)]
        BY <1>1, <1>2, <2>2
      <3>2. a - Len(s) = b - Len(s)
        BY <1>7, <3>1 DEF IsInjective
      <3> QED
        BY <1>1, <3>2
    <2>3. CASE ~(a \in 1 .. Len(s) <=> b \in 1 .. Len(s))
      BY <1>1, <1>2, <1>7, <2>3 DEF ToSet
    <2> QED
      BY <2>1, <2>2, <2>3
  <1> QED
    BY <1>1, <1>4, <1>5, <1>6, <1>7 DEF u

(* Flattening keeps every element of every list, and without repetitions   *)
(* in and between the lists there are none in the result.                  *)
LEMMA Flatten ==
    ASSUME NEW S, NEW seqs \in Seq(Seq(S))
    PROVE  /\ FlattenSeq(seqs) \in Seq(S)
           /\ ToSet(FlattenSeq(seqs)) = UNION {ToSet(seqs[i]) : i \in 1 .. Len(seqs)}
           /\ /\ \A i \in 1 .. Len(seqs) : IsInjective(seqs[i])
              /\ \A i, j \in 1 .. Len(seqs) : i # j => ToSet(seqs[i]) \cap ToSet(seqs[j]) = {}
              => IsInjective(FlattenSeq(seqs))
  <1> DEFINE n == Len(seqs)
             f == CHOOSE g : Joins(g, seqs, n)
             Apart == /\ \A i \in 1 .. n : IsInjective(seqs[i])
                      /\ \A i, j \in 1 .. n : i # j => ToSet(seqs[i]) \cap ToSet(seqs[j]) = {}
             Right(m) == /\ f[m] \in Seq(S)
                         /\ ToSet(f[m]) = UNION {ToSet(seqs[i]) : i \in 1 .. m}
                         /\ Apart => IsInjective(f[m])
             P == {m \in Nat : m \in 1 .. n => Right(m)}
  <1>1. n \in Nat /\ \A i \in 1 .. n : seqs[i] \in Seq(S)
    OBVIOUS
  <1>2. Joins(f, seqs, n)
    BY <1>1, JoinExists, Zenon
  <1>3. CASE n = 0
    <2>1. FlattenSeq(seqs) = seqs
      BY <1>3, Zenon DEF FlattenSeq
    <2>2. seqs = << >> /\ DOMAIN seqs = {} /\ seqs \in Seq(S)
      BY <1>3
    <2> QED
      BY <1>3, <2>1, <2>2 DEF ToSet, IsInjective
  <1>4. CASE n # 0
    <2>1. FlattenSeq(seqs) = f[n]
      BY <1>4, Zenon DEF FlattenSeq, Joins
    <2>2. \A m \in 1 .. n : f[m] = IF m = 1 THEN seqs[m] ELSE f[m - 1] \o seqs[m]
      BY <1>2, Zenon DEF Joins
    <2> HIDE DEF f
    <2>3. 0 \in P
      OBVIOUS
    <2>4. ASSUME NEW m \in Nat, m \in P PROVE m + 1 \in P
      <3> SUFFICES ASSUME m + 1 \in 1 .. n PROVE Right(m + 1)
        <4> HIDE DEF Right
        <4> QED
          OBVIOUS
      <3> DEFINE t == seqs[m + 1]
      <3>1. t \in Seq(S)
        BY <1>1
      <3>2. CASE m = 0
        <4>1. f[m + 1] = t
          BY <2>2, <3>2
        <4>2. 1 .. (m + 1) = {m + 1}
          BY <3>2
        <4>3. UNION {ToSet(seqs[i]) : i \in 1 .. (m + 1)} = ToSet(t)
          BY <4>2
        <4> QED
          BY <3>1, <4>1, <4>3
      <3>3. CASE m # 0
        <4> DEFINE r == f[m]
        <4>1. m \in 1 .. n /\ m + 1 # 1 /\ (m + 1) - 1 = m
          BY <3>3
        <4>2. f[m + 1] = r \o t
          BY <2>2, <4>1
        <4>3. /\ r \in Seq(S)
              /\ ToSet(r) = UNION {ToSet(seqs[i]) : i \in 1 .. m}
              /\ Apart => IsInjective(r)
          BY <2>4, <4>1
        <4>4. 1 .. (m + 1) = (1 .. m) \cup {m + 1} /\ m + 1 \notin 1 .. m
              /\ 1 .. m \subseteq 1 .. n
          BY <4>1
        <4>5. UNION {ToSet(seqs[i]) : i \in 1 .. (m + 1)} = ToSet(r) \cup ToSet(t)
          BY <4>3, <4>4
        <4>6. ASSUME Apart PROVE IsInjective(t) /\ ToSet(r) \cap ToSet(t) = {}
          <5>1. \A i \in 1 .. m : ToSet(seqs[i]) \cap ToSet(t) = {}
            BY <4>4, <4>6
          <5> QED
            BY <4>3, <4>6, <5>1
        <4> HIDE DEF r, t, Apart
        <4>7. /\ r \o t \in Seq(S)
              /\ ToSet(r \o t) = ToSet(r) \cup ToSet(t)
              /\ Apart => IsInjective(r \o t)
          BY <3>1, <4>3, <4>6, Concatenate
        <4> QED
          BY <4>2, <4>5, <4>7
      <3> QED
        BY <3>2, <3>3
    <2> HIDE DEF P
    <2>5. Nat \subseteq P
      BY <2>3, <2>4, InductionOverNat
    <2>6. n \in 1 .. n
      BY <1>1, <1>4
    <2> QED
      BY <1>1, <2>1, <2>5, <2>6 DEF P
  <1> QED
    BY <1>3, <1>4

-----------------------------------------------------------------------------
(* Two definitions clash exactly if both mean one APQN on some machine.    *)
LEMMA ClashMeansMachine ==
    ASSUME NEW d, NEW e,
           d.machineid \in Machines \cup {AnyMachine},
           e.machineid \in Machines \cup {AnyMachine}
    PROVE  ~checkapqns(d, e) <=> \E m \in Machines : Covers(d, d, m) /\ Covers(e, d, m)
  BY MachineAssumption DEF checkapqns, Covers

(* What covers an APQN on one machine clashes with whatever else does.     *)
LEMMA CoversClash ==
    ASSUME NEW d, NEW e, NEW a, NEW m, Covers(d, a, m), Covers(e, a, m)
    PROVE  ~checkapqns(d, e)
  BY DEF checkapqns, Covers

(* Verify visits pairs of places, its loops over the own set and over the  *)
(* other sets taken together.                                              *)
Places(c) == UNION {{i} \X DOMAIN c[i].apqns : i \in DOMAIN c}
DefAt(c, p) == c[p[1]].apqns[p[2]]

(* A place is a set's index and a definition's index.                      *)
LEMMA PlacesOf ==
    ASSUME NEW c
    PROVE  /\ \A i \in DOMAIN c : \A k \in DOMAIN c[i].apqns :
                  <<i, k>> \in Places(c) /\ DefAt(c, <<i, k>>) = c[i].apqns[k]
           /\ \A p \in Places(c) : /\ p[1] \in DOMAIN c
                                   /\ p[2] \in DOMAIN c[p[1]].apqns
                                   /\ p = <<p[1], p[2]>>
  BY DEF Places, DefAt

(* No two places of a verified configuration clash.                        *)
LEMMA PairsOf ==
    ASSUME NEW c, Verify(c), NEW p \in Places(c), NEW q \in Places(c), p # q
    PROVE  checkapqns(DefAt(c, p), DefAt(c, q))
  <1>1. CASE p[1] = q[1]
    <2>1. p[2] # q[2]
      BY <1>1, PlacesOf
    <2> QED
      BY <1>1, <2>1, PlacesOf DEF Verify, DefAt
  <1>2. CASE p[1] # q[1]
    BY <1>2, PlacesOf DEF Verify, DefAt
  <1> QED
    BY <1>1, <1>2

(* In a verified configuration at most one place means an APQN of a        *)
(* machine, so at most one set does.                                       *)
LEMMA OnePlace ==
    ASSUME NEW c, Verify(c), NEW a, NEW m, NEW p \in Hits(c, a, m), NEW q \in Hits(c, a, m)
    PROVE  p = q
  <1>1. /\ p \in Places(c) /\ Covers(DefAt(c, p), a, m)
        /\ q \in Places(c) /\ Covers(DefAt(c, q), a, m)
    BY DEF Hits, Places, DefAt
  <1> QED
    BY <1>1, CoversClash, PairsOf

(* Verify decides well-formedness.                                         *)
LEMMA VerifyExact ==
    ASSUME NEW c,
           \A i \in DOMAIN c : \A k \in DOMAIN c[i].apqns :
               c[i].apqns[k].machineid \in Machines \cup {AnyMachine}
    PROVE  Verify(c) <=> WellFormed(c)
  <1>1. ASSUME Verify(c) PROVE WellFormed(c)
    <2>1. \A i \in DOMAIN c : ValidFields(c[i])
      BY <1>1 DEF Verify
    <2>2. \A i, j \in DOMAIN c : c[i].setname = c[j].setname => i = j
      BY <1>1 DEF Verify
    <2>3. ASSUME NEW i \in DOMAIN c, NEW k \in DOMAIN c[i].apqns
          PROVE  c[i].apqns[k].adapter \in 0 .. 255 /\ c[i].apqns[k].domain \in 0 .. 255
      BY <1>1 DEF Verify
    <2>4. \A a, m : \A p, q \in Hits(c, a, m) : p = q
      BY <1>1, OnePlace
    <2> QED
      BY <2>1, <2>2, <2>3, <2>4 DEF WellFormed
  <1>2. ASSUME WellFormed(c) PROVE Verify(c)
    <2>1. ASSUME NEW i \in DOMAIN c, NEW k \in DOMAIN c[i].apqns,
                 NEW j \in DOMAIN c, NEW n \in DOMAIN c[j].apqns,
                 <<i, k>> # <<j, n>>
          PROVE  checkapqns(c[i].apqns[k], c[j].apqns[n])
      <3> DEFINE d == c[i].apqns[k]
                 e == c[j].apqns[n]
      <3>1. SUFFICES ASSUME ~checkapqns(d, e) PROVE FALSE
        OBVIOUS
      <3>2. PICK m \in Machines : Covers(d, d, m) /\ Covers(e, d, m)
        BY <3>1, ClashMeansMachine
      <3>3. <<i, k>> \in Hits(c, d, m) /\ <<j, n>> \in Hits(c, d, m)
        BY <3>2, PlacesOf DEF Hits, Places
      <3>4. \A p, q \in Hits(c, d, m) : p = q
        BY <1>2 DEF WellFormed
      <3> QED
        BY <2>1, <3>3, <3>4
    <2>2. ASSUME NEW i \in DOMAIN c, NEW k \in DOMAIN c[i].apqns
          PROVE  c[i].apqns[k].adapter \in 0 .. 255 /\ c[i].apqns[k].domain \in 0 .. 255
      BY <1>2 DEF WellFormed
    <2>3. /\ \A i \in DOMAIN c : ValidFields(c[i])
          /\ \A i, j \in DOMAIN c : c[i].setname = c[j].setname => i = j
      BY <1>2 DEF WellFormed
    <2> QED
      BY <2>1, <2>2, <2>3 DEF Verify
  <1> QED
    BY <1>1, <1>2

-----------------------------------------------------------------------------
(* Lookups.  The set found for a name has it.                              *)
LEMMA SetOfName ==
    ASSUME NEW c, c # nil => c \in Seq(ToSet(c)), NEW n, GetCryptoConfigSet(c, n) # nil
    PROVE  c # nil /\ \E i \in DOMAIN c : c[i].setname = n /\ GetCryptoConfigSet(c, n) = c[i]
  <1> DEFINE I == {i \in 1 .. Len(c) : c[i].setname = n}
  <1>1. c # nil
    BY DEF GetCryptoConfigSet, FirstSet
  <1>2. DOMAIN c = 1 .. Len(c) /\ Len(c) \in Nat
    BY <1>1
  <1>3. GetCryptoConfigSet(c, n)
            = IF (IF I # {} THEN Min(I) ELSE 0) = 0
                THEN nil ELSE c[IF I # {} THEN Min(I) ELSE 0]
    BY <1>1 DEF GetCryptoConfigSet, FirstSet, SelectInSeq
  <1>4. I # {} /\ I \subseteq Nat
    BY <1>3
  <1>5. Min(I) \in I
    BY <1>4, MinIsMember
  <1> QED
    BY <1>1, <1>2, <1>3, <1>4, <1>5

(* In a verified configuration the set that defines an APQN on a machine   *)
(* is the one found for it.                                                *)
LEMMA FindByAPQN ==
    ASSUME NEW c, c # nil, c \in Seq(ToSet(c)), Verify(c), NEW a, NEW m,
           NEW j \in DOMAIN c, NEW k \in DOMAIN c[j].apqns, Covers(c[j].apqns[k], a, m)
    PROVE  GetCryptoConfigSetForThisAPQN(c, a, m) = c[j]
  <1> DEFINE I == {i \in 1 .. Len(c) : \E l \in DOMAIN c[i].apqns : Covers(c[i].apqns[l], a, m)}
  <1>1. DOMAIN c = 1 .. Len(c) /\ Len(c) \in Nat
    OBVIOUS
  <1>2. GetCryptoConfigSetForThisAPQN(c, a, m)
            = IF (IF I # {} THEN Min(I) ELSE 0) = 0
                THEN nil ELSE c[IF I # {} THEN Min(I) ELSE 0]
    BY DEF GetCryptoConfigSetForThisAPQN, FirstSet, SelectInSeq
  <1>3. j \in I /\ I \subseteq Nat
    BY <1>1
  <1>4. Min(I) \in I
    BY <1>3, MinIsMember
  <1>5. ASSUME NEW i \in I PROVE i = j
    <2>1. PICK l \in DOMAIN c[i].apqns : Covers(c[i].apqns[l], a, m)
      OBVIOUS
    <2>2. <<i, l>> \in Hits(c, a, m) /\ <<j, k>> \in Hits(c, a, m)
      BY <1>1, <2>1 DEF Hits
    <2>3. <<i, l>> = <<j, k>>
      BY <2>2, OnePlace
    <2> QED
      BY <2>3
  <1>6. Min(I) = j /\ j # 0 /\ I # {}
    BY <1>1, <1>3, <1>4, <1>5
  <1> HIDE DEF I
  <1> QED
    BY <1>2, <1>6

-----------------------------------------------------------------------------
(* A set as a verified configuration has it, or none.                      *)
Screens(set) ==
    set # nil =>
        /\ set.mincexgen \in Nat
        /\ \A a : \A k, l \in DOMAIN set.apqns :
               Covers(set.apqns[k], a, ThisMachine) /\ Covers(set.apqns[l], a, ThisMachine)
                   => k = l

(* A list that names no APQN twice.                                        *)
Distinct(list) ==
    /\ list \in Seq(ToSet(list))
    /\ \A i, j \in DOMAIN list :
           list[i].adapter = list[j].adapter /\ list[i].domain = list[j].domain => i = j

(* Verification makes the sets fit for screening.                          *)
LEMMA VerifiedScreens ==
    ASSUME NEW c, c # nil => c \in Seq(ToSet(c)) /\ Verify(c), NEW n
    PROVE  Screens(GetCryptoConfigSet(c, n))
  <1> DEFINE set == GetCryptoConfigSet(c, n)
  <1> SUFFICES ASSUME set # nil PROVE Screens(set)
    BY DEF Screens
  <1>1. PICK i \in DOMAIN c : c[i].setname = n /\ set = c[i]
    BY SetOfName
  <1>2. c # nil
    BY SetOfName
  <1>3. c[i].mincexgen \in Nat
    <2>1. c[i].mincexgen \in {0} \cup 4 .. 9
      BY <1>2 DEF Verify, ValidFields
    <2> QED
      BY <2>1
  <1>4. ASSUME NEW a, NEW k \in DOMAIN c[i].apqns, NEW l \in DOMAIN c[i].apqns,
               Covers(c[i].apqns[k], a, ThisMachine), Covers(c[i].apqns[l], a, ThisMachine)
        PROVE  k = l
    <2>1. <<i, k>> \in Hits(c, a, ThisMachine) /\ <<i, l>> \in Hits(c, a, ThisMachine)
      BY <1>4 DEF Hits
    <2>2. <<i, k>> = <<i, l>>
      BY <1>2, <2>1, OnePlace
    <2> QED
      BY <2>2
  <1> HIDE DEF set
  <1> QED
    BY <1>1, <1>3, <1>4 DEF Screens

(* filterAPQNs, which goes through the definitions and compares strings,   *)
(* returns the eligible APQNs, each once.                                  *)
LEMMA FilterIsExact ==
    ASSUME NEW set, Screens(set), NEW list \in Hardware
    PROVE  /\ ToSet(filterAPQNs(set, list)) = Eligible(set, list)
           /\ Distinct(filterAPQNs(set, list))
  <1>1. CASE set = nil
    <2>1. filterAPQNs(set, list) = << >>
      BY <1>1 DEF filterAPQNs
    <2>2. DOMAIN << >> = {} /\ << >> \in Seq({}) /\ ToSet(<< >>) = {}
      BY DEF ToSet
    <2> QED
      BY <1>1, <2>1, <2>2 DEF Eligible, Distinct
  <1>2. CASE set # nil
    <2> DEFINE S == ToSet(list)
               Passed(a) == {k \in DOMAIN set.apqns :
                                /\ Covers(set.apqns[k], a, ThisMachine)
                                /\ ~GenBelow(a.gen, set.mincexgen)}
               Copies(a) == [k \in 1 .. Cardinality(Passed(a)) |-> a]
               seqs == [i \in DOMAIN list |-> Copies(list[i])]
    <2>1. filterAPQNs(set, list) = FlattenSeq(seqs)
      BY <1>2, Zenon DEF filterAPQNs
    <2>2. /\ list \in Seq(S) /\ DOMAIN list = 1 .. Len(list) /\ Len(list) \in Nat
          /\ \A i \in DOMAIN list : list[i] \in S
      BY HardwareAssumption DEF ToSet
    <2>3. \A a \in S : a \in Eligible(set, list) <=> Passed(a) # {}
      <3> SUFFICES ASSUME NEW i \in DOMAIN list
                   PROVE  list[i] \in Eligible(set, list) <=> Passed(list[i]) # {}
        BY DEF ToSet
      <3> DEFINE a == list[i]
      <3>1. GenBelow(a.gen, set.mincexgen) <=> ~(a.gen >= set.mincexgen)
        BY <1>2, HardwareAssumption DEF GenBelow, LeadingDigit, Screens
      <3>2. a \in ToSet(list)
        BY DEF ToSet
      <3> HIDE DEF a
      <3>3. a \in Eligible(set, list)
                <=> /\ a.gen >= set.mincexgen
                    /\ \E k \in DOMAIN set.apqns : Covers(set.apqns[k], a, ThisMachine)
        BY <1>2, <3>2 DEF Eligible, ToSet
      <3> QED
        BY <3>1, <3>3 DEF a
    <2>4. ASSUME NEW a \in S
          PROVE  Cardinality(Passed(a)) = IF a \in Eligible(set, list) THEN 1 ELSE 0
      <3>1. CASE Passed(a) = {}
        BY <2>3, <3>1, FS_EmptySet
      <3>2. ASSUME NEW k \in Passed(a)
            PROVE  Cardinality(Passed(a)) = IF a \in Eligible(set, list) THEN 1 ELSE 0
        <4>1. Passed(a) = {k}
          BY <1>2, <3>2 DEF Screens
        <4>2. Cardinality(Passed(a)) = 1
          BY <4>1, FS_Singleton
        <4> QED
          BY <2>3, <3>2, <4>2
      <3> QED
        BY <3>1, <3>2
    <2> HIDE DEF Passed
    <2>5. ASSUME NEW a \in S
          PROVE  /\ Copies(a) \in Seq(S) /\ IsInjective(Copies(a))
                 /\ ToSet(Copies(a)) = IF a \in Eligible(set, list) THEN {a} ELSE {}
      <3> DEFINE n == Cardinality(Passed(a))
      <3>1. n \in {0, 1}
        BY <2>4, <2>5
      <3> HIDE DEF n
      <3>2. DOMAIN [k \in 1 .. n |-> a] = 1 .. n /\ \A k \in 1 .. n : [l \in 1 .. n |-> a][k] = a
        OBVIOUS
      <3>3. [k \in 1 .. n |-> a] \in Seq(S)
        BY <2>5, <3>1
      <3>4. IsInjective([k \in 1 .. n |-> a])
        BY <3>1, <3>2 DEF IsInjective
      <3>5. ToSet([k \in 1 .. n |-> a]) = IF n = 1 THEN {a} ELSE {}
        BY <3>1, <3>2 DEF ToSet
      <3> QED
        BY <2>4, <2>5, <3>1, <3>3, <3>4, <3>5 DEF n
    <2> HIDE DEF Copies
    <2>6. seqs \in Seq(Seq(S)) /\ Len(seqs) = Len(list)
          /\ \A i \in DOMAIN list : seqs[i] = Copies(list[i])
      BY <2>2, <2>5
    <2> HIDE DEF seqs
    <2>7. \A i \in DOMAIN list :
              /\ IsInjective(seqs[i])
              /\ ToSet(seqs[i]) = IF list[i] \in Eligible(set, list) THEN {list[i]} ELSE {}
      BY <2>2, <2>5, <2>6
    <2>8. \A i, j \in DOMAIN list : i # j => ToSet(seqs[i]) \cap ToSet(seqs[j]) = {}
      BY <2>7, HardwareAssumption
    <2>9. /\ FlattenSeq(seqs) \in Seq(S)
          /\ ToSet(FlattenSeq(seqs)) = UNION {ToSet(seqs[i]) : i \in DOMAIN list}
          /\ IsInjective(FlattenSeq(seqs))
      BY <2>2, <2>6, <2>7, <2>8, Flatten
    <2>10. ToSet(FlattenSeq(seqs)) = Eligible(set, list)
      <3>1. \A i \in DOMAIN list : ToSet(seqs[i]) \subseteq Eligible(set, list)
        BY <2>7
      <3>2. \A a \in Eligible(set, list) : \E i \in DOMAIN list : a \in ToSet(seqs[i])
        BY <2>7 DEF Eligible, ToSet
      <3> QED
        BY <2>9, <3>1, <3>2
    <2>11. Distinct(FlattenSeq(seqs))
      <3> DEFINE F == FlattenSeq(seqs)
      <3> HIDE DEF F
      <3>1. F \in Seq(S) /\ IsInjective(F) /\ ToSet(F) \subseteq S
        BY <2>9, <2>10 DEF F, Eligible
      <3>2. F \in Seq(ToSet(F))
        BY <3>1 DEF ToSet
      <3>3. \A x, y \in S : x.adapter = y.adapter /\ x.domain = y.domain => x = y
        BY HardwareAssumption DEF ToSet
      <3>4. \A i \in DOMAIN F : F[i] \in S
        BY <3>1
      <3> QED
        BY <3>1, <3>2, <3>3, <3>4 DEF Distinct, F, IsInjective
    <2> QED
      BY <2>1, <2>10, <2>11
  <1> QED
    BY <1>1, <1>2

-----------------------------------------------------------------------------
(* The devices of a list that names no APQN twice have different ids, and  *)
(* each is named after an APQN of the list.                                *)
LEMMA DevicesOfList ==
    ASSUME NEW set, NEW list, Distinct(list)
    PROVE  LET D == makePluginDevsFromAPQNs(set, list, Limit)
           IN  /\ \A x, y \in DOMAIN D : D[x].id = D[y].id => x = y
               /\ \A x \in DOMAIN D : \E a \in ToSet(list) : \E k \in Int :
                      D[x].id = <<a.adapter, a.domain, k>>
  <1> DEFINE D == makePluginDevsFromAPQNs(set, list, Limit)
             L == Max({1, Limit})
             Device(a, i) == [id |-> <<a.adapter, a.domain, i>>, healthy |-> a.online]
             Devices(a)   == [i \in 1 .. L |-> Device(a, i - 1)]
             seqs == [i \in DOMAIN list |-> Devices(list[i])]
             S == UNION {ToSet(Devices(a)) : a \in ToSet(list)}
  <1>1. CASE set = nil
    <2>1. D = << >> /\ DOMAIN << >> = {}
      BY <1>1 DEF makePluginDevsFromAPQNs
    <2> QED
      BY <2>1
  <1>2. CASE set # nil
    <2>1. D = FlattenSeq(seqs)
      BY <1>2, Zenon DEF makePluginDevsFromAPQNs
    <2>2. L \in Nat
      BY LimitAssumption DEF Max
    <2>3. /\ DOMAIN list = 1 .. Len(list) /\ Len(list) \in Nat
          /\ \A i \in DOMAIN list : list[i] \in ToSet(list)
      BY DEF ToSet, Distinct
    <2> HIDE DEF L
    <2>4. ASSUME NEW i \in DOMAIN list
          PROVE  /\ Devices(list[i]) \in Seq(S)
                 /\ IsInjective(Devices(list[i]))
                 /\ ToSet(Devices(list[i])) = {Device(list[i], k) : k \in 0 .. (L - 1)}
      <3> DEFINE a == list[i]
                 dev == Devices(a)
      <3>1. DOMAIN dev = 1 .. L /\ \A k \in 1 .. L : dev[k] = Device(a, k - 1)
        OBVIOUS
      <3>2. \A k \in 1 .. L : dev[k] \in ToSet(dev)
        BY DEF ToSet
      <3>3. ToSet(dev) \subseteq S
        BY <2>3
      <3>4. IsInjective(dev)
        <4> SUFFICES ASSUME NEW k \in 1 .. L, NEW l \in 1 .. L, dev[k] = dev[l] PROVE k = l
          BY <3>1 DEF IsInjective
        <4>1. dev[k].id[3] = k - 1 /\ dev[l].id[3] = l - 1
          OBVIOUS
        <4>2. k - 1 = l - 1
          BY <4>1
        <4> QED
          BY <2>2, <4>2
      <3>5. ToSet(dev) = {Device(a, k) : k \in 0 .. (L - 1)}
        <4> HIDE DEF Device, a
        <4>1. \A k \in 1 .. L : k - 1 \in 0 .. (L - 1)
          BY <2>2
        <4>2. \A k \in 0 .. (L - 1) : k + 1 \in 1 .. L /\ (k + 1) - 1 = k
          BY <2>2
        <4> QED
          BY <3>1, <4>1, <4>2 DEF ToSet
      <3>6. dev \in Seq(S)
        <4>1. dev = [k \in 1 .. L |-> dev[k]]
          OBVIOUS
        <4> HIDE DEF S, dev
        <4>2. dev \in [1 .. L -> S]
          BY <3>1, <3>2, <3>3, <4>1
        <4> QED
          BY <2>2, <4>2
      <3> QED
        BY <3>4, <3>5, <3>6
    <2> HIDE DEF Devices, S
    <2>5. seqs \in Seq(Seq(S)) /\ Len(seqs) = Len(list)
          /\ \A i \in DOMAIN list : seqs[i] = Devices(list[i])
      BY <2>3, <2>4
    <2> HIDE DEF seqs
    <2>6. ASSUME NEW i \in DOMAIN list, NEW j \in DOMAIN list, i # j
          PROVE  ToSet(seqs[i]) \cap ToSet(seqs[j]) = {}
      <3> SUFFICES ASSUME NEW k \in Int, NEW l \in Int,
                          Device(list[i], k) = Device(list[j], l)
                   PROVE  FALSE
        <4> HIDE DEF Device
        <4> QED
          BY <2>2, <2>4, <2>5
      <3>1. Device(list[i], k).id[1] = list[i].adapter /\ Device(list[j], l).id[1] = list[j].adapter
            /\ Device(list[i], k).id[2] = list[i].domain /\ Device(list[j], l).id[2] = list[j].domain
        OBVIOUS
      <3> HIDE DEF Device
      <3>2. list[i].adapter = list[j].adapter /\ list[i].domain = list[j].domain
        BY <3>1
      <3> QED
        BY <2>6, <3>2 DEF Distinct
    <2> HIDE DEF D
    <2>7. /\ D \in Seq(S)
          /\ ToSet(D) = UNION {ToSet(seqs[i]) : i \in DOMAIN list}
          /\ IsInjective(D)
      <3>1. \A i \in 1 .. Len(seqs) : IsInjective(seqs[i])
        BY <2>3, <2>4, <2>5
      <3>2. \A i, j \in 1 .. Len(seqs) : i # j => ToSet(seqs[i]) \cap ToSet(seqs[j]) = {}
        BY <2>3, <2>5, <2>6
      <3> QED
        BY <2>1, <2>3, <2>5, <3>1, <3>2, Flatten
    <2>8. ASSUME NEW x \in DOMAIN D
          PROVE  \E i \in DOMAIN list : \E k \in Int : D[x] = Device(list[i], k)
      <3> HIDE DEF Device
      <3>1. D[x] \in ToSet(D)
        BY DEF ToSet
      <3>2. PICK i \in DOMAIN list : D[x] \in ToSet(seqs[i])
        BY <2>7, <3>1
      <3> QED
        BY <2>2, <2>4, <2>5, <3>2
    <2>9. ASSUME NEW x \in DOMAIN D, NEW y \in DOMAIN D, D[x].id = D[y].id
          PROVE  x = y
      <3>1. PICK i \in DOMAIN list, k \in Int : D[x] = Device(list[i], k)
        BY <2>8
      <3>2. PICK j \in DOMAIN list, l \in Int : D[y] = Device(list[j], l)
        BY <2>8
      <3>3. list[i].adapter = list[j].adapter /\ list[i].domain = list[j].domain /\ k = l
        BY <2>9, <3>1, <3>2
      <3>4. i = j
        BY <3>3 DEF Distinct
      <3>5. D[x] = D[y]
        BY <3>1, <3>2, <3>3, <3>4
      <3> QED
        BY <2>7, <3>5 DEF IsInjective
    <2>10. ASSUME NEW x \in DOMAIN D
           PROVE  \E a \in ToSet(list) : \E k \in Int : D[x].id = <<a.adapter, a.domain, k>>
      <3>1. PICK i \in DOMAIN list, k \in Int : D[x] = Device(list[i], k)
        BY <2>8
      <3>2. D[x].id = <<list[i].adapter, list[i].domain, k>>
        BY <3>1
      <3> QED
        BY <2>3, <3>2
    <2> QED
      BY <2>9, <2>10 DEF D
  <1> QED
    BY <1>1, <1>2

-----------------------------------------------------------------------------
(* Two lists without repetitions that the one-way comparison finds equal   *)
(* have the same APQNs in the same state.                                  *)
LEMMA ListsEqual ==
    ASSUME NEW l1, NEW l2, Distinct(l1), Distinct(l2), apEqualAPQNLists(l1, l2)
    PROVE  ToSet(l1) = ToSet(l2)
  <1> DEFINE find(i) == SelectInSeq(l2, LAMBDA b : b.adapter = l1[i].adapter /\ b.domain = l1[i].domain)
  <1>1. ASSUME NEW l, Distinct(l)
        PROVE  IsFiniteSet(ToSet(l)) /\ Cardinality(ToSet(l)) = Len(l)
    <2>1. DOMAIN l = 1 .. Len(l) /\ Len(l) \in Nat
      BY <1>1 DEF Distinct
    <2>2. IsInjective(l)
      BY <1>1 DEF Distinct, IsInjective
    <2> QED
      BY <2>1, <2>2, InjectiveCount DEF ToSet
  <1>2. Len(l1) = Len(l2) /\ \A i \in DOMAIN l1 : find(i) # 0 /\ l2[find(i)] = l1[i]
    BY DEF apEqualAPQNLists
  <1>3. ASSUME NEW i \in DOMAIN l1 PROVE find(i) \in DOMAIN l2
    <2> DEFINE I == {j \in 1 .. Len(l2) : l2[j].adapter = l1[i].adapter /\ l2[j].domain = l1[i].domain}
    <2>1. find(i) = IF I # {} THEN Min(I) ELSE 0
      BY DEF SelectInSeq
    <2>2. I \subseteq Nat /\ I \subseteq DOMAIN l2
      BY DEF Distinct
    <2> QED
      BY <1>2, <2>1, <2>2, MinIsMember
  <1> HIDE DEF find
  <1>4. ToSet(l1) \subseteq ToSet(l2)
    BY <1>2, <1>3 DEF ToSet
  <1> QED
    BY <1>1, <1>2, <1>4, FS_Subset

-----------------------------------------------------------------------------
(* The configuration in use is a verified one, a plug-in's list names no   *)
(* APQN twice, and its devices are those of its list.                      *)
ScreeningInv ==
    /\ file \in Configs
    /\ cc # nil => cc \in Configs /\ Verify(cc)
    /\ hw \in Hardware
    /\ DOMAIN ccset = Names /\ DOMAIN apqns = Names /\ DOMAIN devices = Names
    /\ \A n \in Names :
           /\ Distinct(apqns[n])
           /\ devices[n] = makePluginDevsFromAPQNs(ccset[n], apqns[n], Limit)

(* It holds from the start, and checkChanged, the only step that screens,  *)
(* re-establishes it with a set of the configuration in use.               *)
LEMMA ScreeningInvHolds == Spec => []ScreeningInv
  <1>1. Init => ScreeningInv
    <2> SUFFICES ASSUME Init PROVE ScreeningInv
      OBVIOUS
    <2>1. Distinct(<< >>)
      BY DEF Distinct, ToSet
    <2>2. makePluginDevsFromAPQNs(nil, << >>, Limit) = << >>
      BY DEF makePluginDevsFromAPQNs
    <2> QED
      BY <2>1, <2>2 DEF Init, ScreeningInv
  <1>2. ScreeningInv /\ [Next]_vars => ScreeningInv'
    <2> SUFFICES ASSUME ScreeningInv, [Next]_vars PROVE ScreeningInv'
      OBVIOUS
    <2>1. CASE Edit
      BY <2>1 DEF Edit, plugins, ScreeningInv
    <2>2. CASE updateConfig
      BY <2>2 DEF updateConfig, plugins, ScreeningInv
    <2>3. CASE HardwareChange
      BY <2>3 DEF HardwareChange, plugins, ScreeningInv
    <2>4. ASSUME NEW n \in Names, checkChanged(n) PROVE ScreeningInv'
      <3> DEFINE set  == GetCryptoConfigSet(cc, n)
                 list == filterAPQNs(set, hw)
      <3>1. cc # nil => cc \in Seq(ToSet(cc)) /\ Verify(cc)
        BY ConfigAssumption DEF ScreeningInv
      <3>2. Screens(set)
        BY <3>1, VerifiedScreens
      <3>3. Distinct(list)
        BY <3>2, FilterIsExact DEF ScreeningInv
      <3>4. /\ ccset' = [ccset EXCEPT ![n] = set]
            /\ apqns' = [apqns EXCEPT ![n] = list]
            /\ devices' = [devices EXCEPT ![n] = makePluginDevsFromAPQNs(set, list, Limit)]
            /\ UNCHANGED <<file, cc, hw>>
        BY <2>4 DEF checkChanged
      <3> HIDE DEF set, list
      <3> QED
        BY <3>3, <3>4 DEF ScreeningInv
    <2>5. CASE UNCHANGED vars
      BY <2>5 DEF vars, plugins, ScreeningInv
    <2> QED
      BY <2>1, <2>2, <2>3, <2>4, <2>5 DEF Next
  <1> QED
    BY <1>1, <1>2, PTL DEF Spec

(* What the invariant gives for each name: a set fit for screening, whose  *)
(* list is the eligible APQNs, each once.                                  *)
LEMMA ScreenedNow ==
    ASSUME ScreeningInv, NEW n
    PROVE  LET set == GetCryptoConfigSet(cc, n)
           IN  /\ ToSet(filterAPQNs(set, hw)) = Eligible(set, hw)
               /\ Distinct(filterAPQNs(set, hw))
               /\ set # nil =>
                      /\ cc # nil
                      /\ \E i \in DOMAIN cc : cc[i].setname = n /\ set = cc[i]
  <1>1. cc # nil => cc \in Seq(ToSet(cc)) /\ Verify(cc)
    BY ConfigAssumption DEF ScreeningInv
  <1>2. Screens(GetCryptoConfigSet(cc, n)) /\ hw \in Hardware
    BY <1>1, VerifiedScreens DEF ScreeningInv
  <1> QED
    BY <1>1, <1>2, FilterIsExact, SetOfName

(* An eligible APQN is looked up under the set it is eligible for.         *)
LEMMA EligibleIsFound ==
    ASSUME ScreeningInv, NEW n, NEW a \in Eligible(GetCryptoConfigSet(cc, n), hw)
    PROVE  GetCryptoConfigSetForThisAPQN(cc, a, ThisMachine) = GetCryptoConfigSet(cc, n)
  <1> DEFINE set == GetCryptoConfigSet(cc, n)
  <1>1. set # nil /\ \E k \in DOMAIN set.apqns : Covers(set.apqns[k], a, ThisMachine)
    BY DEF Eligible, ToSet
  <1>2. PICK i \in DOMAIN cc : cc[i].setname = n /\ set = cc[i]
    BY <1>1, ScreenedNow
  <1>3. cc # nil /\ cc \in Seq(ToSet(cc)) /\ Verify(cc)
    BY <1>1, ScreenedNow, ConfigAssumption DEF ScreeningInv
  <1>4. PICK k \in DOMAIN cc[i].apqns : Covers(cc[i].apqns[k], a, ThisMachine)
    BY <1>1, <1>2
  <1> HIDE DEF set
  <1>5. GetCryptoConfigSetForThisAPQN(cc, a, ThisMachine) = cc[i]
    BY <1>3, <1>4, FindByAPQN
  <1> QED
    BY <1>2, <1>5 DEF set

-----------------------------------------------------------------------------
(* Whatever the file says, the code's verdict on it is the right one.      *)
THEOREM VerdictIsRight == Spec => []VerifyIsExact
  <1>1. ScreeningInv => VerifyIsExact
    BY ConfigAssumption, VerifyExact DEF ScreeningInv, VerifyIsExact
  <1> QED
    BY <1>1, ScreeningInvHolds, PTL

(* The pod lister attributes every announced APQN to the set that          *)
(* announces it.                                                           *)
THEOREM LookupIsRight == Spec => []LookupAgrees
  <1>1. ScreeningInv => LookupAgrees
    BY ScreenedNow, EligibleIsFound DEF LookupAgrees
  <1> QED
    BY <1>1, ScreeningInvHolds, PTL

(* A plug-in that sees no change has the eligible APQNs in its list.       *)
THEOREM ChangesAreSeen == Spec => []NoChangeMissed
  <1>1. ScreeningInv => NoChangeMissed
    <2> SUFFICES ASSUME ScreeningInv, NEW n \in Names,
                        apEqualAPQNLists(filterAPQNs(GetCryptoConfigSet(cc, n), hw), apqns[n])
                 PROVE  ToSet(apqns[n]) = Eligible(GetCryptoConfigSet(cc, n), hw)
      BY DEF NoChangeMissed
    <2>1. Distinct(apqns[n])
      BY DEF ScreeningInv
    <2> QED
      BY <2>1, ScreenedNow, ListsEqual
  <1> QED
    BY <1>1, ScreeningInvHolds, PTL

(* No device id is announced twice, whatever the configurations and the    *)
(* hardware were and are.                                                  *)
THEOREM DevicesAreUnique == Spec => []NoDeviceTwice
  <1>1. ASSUME ScreeningInv, NEW n \in Names
        PROVE  /\ IsInjective(Ids(n))
               /\ \A x \in Range(Ids(n)) : \E a \in ToSet(apqns[n]) : \E k \in Int :
                      x = <<a.adapter, a.domain, k>>
    <2> DEFINE D == devices[n]
    <2>1. /\ \A x, y \in DOMAIN D : D[x].id = D[y].id => x = y
          /\ \A x \in DOMAIN D : \E a \in ToSet(apqns[n]) : \E k \in Int :
                 D[x].id = <<a.adapter, a.domain, k>>
      BY <1>1, DevicesOfList DEF ScreeningInv
    <2>2. DOMAIN Ids(n) = DOMAIN D /\ \A x \in DOMAIN D : Ids(n)[x] = D[x].id
      BY DEF Ids
    <2> HIDE DEF D
    <2>3. IsInjective(Ids(n))
      BY <2>1, <2>2 DEF IsInjective
    <2>4. ASSUME NEW x \in Range(Ids(n))
          PROVE  \E a \in ToSet(apqns[n]) : \E k \in Int : x = <<a.adapter, a.domain, k>>
      <3>1. PICK y \in DOMAIN D : x = D[y].id
        BY <2>2 DEF Range
      <3>2. PICK a \in ToSet(apqns[n]), k \in Int : D[y].id = <<a.adapter, a.domain, k>>
        BY <2>1
      <3>3. x = <<a.adapter, a.domain, k>>
        BY <3>1, <3>2
      <3> QED
        BY <3>3
    <2> QED
      BY <2>3, <2>4
  <1>2. ASSUME ScreeningInv, NEW n1 \in Names, NEW n2 \in Names, n1 # n2,
               InStep(n1), InStep(n2)
        PROVE  Range(Ids(n1)) \cap Range(Ids(n2)) = {}
    <2> SUFFICES ASSUME NEW x \in Range(Ids(n1)), x \in Range(Ids(n2)) PROVE FALSE
      OBVIOUS
    <2>1. PICK a \in ToSet(apqns[n1]), k \in Int : x = <<a.adapter, a.domain, k>>
      BY <1>1, <1>2
    <2>2. PICK b \in ToSet(apqns[n2]), l \in Int : x = <<b.adapter, b.domain, l>>
      BY <1>1, <1>2
    <2>3. a.adapter = b.adapter /\ a.domain = b.domain
      BY <2>1, <2>2
    <2>4. /\ a \in Eligible(GetCryptoConfigSet(cc, n1), hw)
          /\ b \in Eligible(GetCryptoConfigSet(cc, n2), hw)
      BY <1>2 DEF InStep
    <2>5. a = b
      <3>1. a \in ToSet(hw) /\ b \in ToSet(hw)
        BY <2>4 DEF Eligible
      <3>2. PICK i \in DOMAIN hw, j \in DOMAIN hw : a = hw[i] /\ b = hw[j]
        BY <3>1 DEF ToSet
      <3>3. i = j
        BY <1>2, <2>3, <3>2, HardwareAssumption DEF ScreeningInv
      <3> QED
        BY <3>2, <3>3
    <2>6. GetCryptoConfigSet(cc, n1) = GetCryptoConfigSet(cc, n2)
      BY <1>2, <2>4, <2>5, EligibleIsFound
    <2>7. GetCryptoConfigSet(cc, n1) # nil
      BY <2>4 DEF Eligible
    <2>8. GetCryptoConfigSet(cc, n1).setname = n1 /\ GetCryptoConfigSet(cc, n2).setname = n2
      BY <1>2, <2>6, <2>7, ScreenedNow
    <2> QED
      BY <1>2, <2>6, <2>8
  <1>3. ScreeningInv => NoDeviceTwice
    BY <1>1, <1>2 DEF NoDeviceTwice
  <1> QED
    BY <1>3, ScreeningInvHolds, PTL

=============================================================================
