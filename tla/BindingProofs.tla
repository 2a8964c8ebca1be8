---------------------------- MODULE BindingProofs ----------------------------
(***************************************************************************)
(* Parameters keep the values they were written for, in compiled           *)
(* statements and in SQL given as text, for all names, callers and         *)
(* environments: names that are made up are never taken.                   *)
(***************************************************************************)
EXTENDS ParameterBinding, DirectSql,
        SequenceTheorems, FiniteSetTheorems, WellFoundedInduction, TLAPS

-----------------------------------------------------------------------------
(* Names. *)

LEMMA LessThanIsWellFounded ==
  IsWellFoundedOn({ss \in Nat \X Nat : ss[1] < ss[2]}, Nat)
BY NatLessThanWellFounded, Zenon DEF OpToRel

LEMMA LeastOf ==
  ASSUME NEW T \in SUBSET Nat, T # {}
  PROVE  \E m \in T : \A j \in T : m <= j
<1> DEFINE R == {ss \in Nat \X Nat : ss[1] < ss[2]}
<1> HIDE DEF R
<1>1. PICK m \in T : \A j \in T : ~(<<j, m>> \in R)
  BY LessThanIsWellFounded, WFMin DEF R
<1>2. m \in Nat /\ \A j \in T : j \in Nat /\ ~(j < m)
  BY <1>1 DEF R
<1>3. \A j \in T : m <= j
  BY <1>2
<1> QED
  BY <1>3

(* More numbers than names: one of them is free. *)
LEMMA OneIsFree ==
  ASSUME NEW S, IsFiniteSet(S), NEW I, IsFiniteSet(I), Cardinality(S) < Cardinality(I),
         NEW f, \A i \in I : f[i] \in S,
         \A i, j \in I : f[i] = f[j] => i = j
  PROVE  FALSE
<1> DEFINE g == [i \in I |-> f[i]]
<1>1. g \in [I -> S] /\ \A i \in I : g[i] = f[i]
  OBVIOUS
<1> HIDE DEF g
<1>2. PICK x, y \in I : x # y /\ g[x] = g[y]
  BY <1>1, FS_PigeonHole
<1> QED
  BY <1>1, <1>2

LEMMA TextIs ==
  ASSUME NEW k \in Nat, NEW f \in [1..k -> Words]
  PROVE  f \in Texts /\ Len(f) = k
<1>1. f \in Texts
  BY SeqDef DEF Texts
<1>2. Len(f) \in Nat /\ DOMAIN f = 1..Len(f)
  BY <1>1, LenProperties DEF Texts
<1> QED
  BY <1>1, <1>2

LEMMA NumberIs ==
  ASSUME NEW base \in Texts, NEW i \in Nat
  PROVE  /\ base \o Number(i) \in Texts /\ Len(base \o Number(i)) = Len(base) + 1 + i
         /\ \A k \in 1..Len(base) : (base \o Number(i))[k] = base[k]
<1> DEFINE strokes == [j \in 1..i |-> "+"]
<1>1. strokes \in Texts /\ Len(strokes) = i
  <2>1. strokes \in [1..i -> Words]
    BY NamesAssumption
  <2> QED
    BY <2>1, TextIs
<1>2. <<"#">> \in Texts /\ Len(<<"#">>) = 1
  <2>1. PICK mark \in Words : mark = "#"
    BY NamesAssumption
  <2>2. <<mark>> \in Texts /\ Len(<<mark>>) = 1
    BY DEF Texts
  <2> QED
    BY <2>1, <2>2
<1> HIDE DEF strokes
<1>3. PICK number : number = <<"#">> \o strokes
  OBVIOUS
<1>4. number \in Texts /\ Len(number) = 1 + i
  BY <1>1, <1>2, <1>3, ConcatProperties DEF Texts
<1>5. Number(i) = number
  BY <1>3 DEF Number, strokes
<1>6. Len(base) \in Nat
  BY LenProperties DEF Texts
<1>7. /\ base \o number \in Texts /\ Len(base \o number) = Len(base) + (1 + i)
      /\ \A k \in 1..(Len(base) + (1 + i)) :
           (base \o number)[k] = IF k <= Len(base) THEN base[k] ELSE number[k - Len(base)]
  BY <1>4, ConcatProperties DEF Texts
<1>8. \A k \in 1..Len(base) : k \in 1..(Len(base) + (1 + i)) /\ k <= Len(base)
  BY <1>6
<1> QED
  BY <1>5, <1>6, <1>7, <1>8

LEMMA NumbersDiffer ==
  ASSUME NEW base \in Texts, NEW i \in Nat, NEW j \in Nat, base \o Number(i) = base \o Number(j)
  PROVE  i = j
<1>1. Len(base \o Number(i)) = Len(base) + 1 + i /\ Len(base \o Number(j)) = Len(base) + 1 + j
  BY NumberIs
<1>2. Len(base) \in Nat
  BY LenProperties DEF Texts
<1> QED
  BY <1>1, <1>2

LEMMA PaddedIs ==
  ASSUME NEW n \in Texts, NEW k \in Nat
  PROVE  /\ Padded(k, n) \in Texts /\ Len(Padded(k, n)) = k + Len(n)
         /\ \A i \in 1..k : Padded(k, n)[i] = Underscore
         /\ \A i \in 1..Len(n) : Padded(k, n)[k + i] = n[i]
<1> DEFINE pad == [i \in 1..k |-> Underscore]
<1>1. pad \in Texts /\ Len(pad) = k /\ \A i \in 1..k : pad[i] = Underscore
  <2>1. pad \in [1..k -> Words] /\ \A i \in 1..k : pad[i] = Underscore
    BY NamesAssumption
  <2> QED
    BY <2>1, TextIs
<1>2. Len(n) \in Nat
  BY LenProperties DEF Texts
<1>3. Padded(k, n) = pad \o n
  BY DEF Padded
<1> HIDE DEF pad
<1>4. /\ pad \o n \in Texts /\ Len(pad \o n) = k + Len(n)
      /\ \A i \in 1..(k + Len(n)) : (pad \o n)[i] = IF i <= k THEN pad[i] ELSE n[i - k]
  BY <1>1, ConcatProperties DEF Texts
<1>5. \A i \in 1..k : (pad \o n)[i] = Underscore
  <2>1. \A i \in 1..k : i \in 1..(k + Len(n)) /\ i <= k
    BY <1>2
  <2> QED
    BY <1>1, <1>4, <2>1
<1>6. \A i \in 1..Len(n) : (pad \o n)[k + i] = n[i]
  <2> TAKE i \in 1..Len(n)
  <2>1. k + i \in 1..(k + Len(n)) /\ ~(k + i <= k) /\ (k + i) - k = i
    BY <1>2
  <2> QED
    BY <1>4, <2>1
<1> QED
  BY <1>3, <1>4, <1>5, <1>6

(* The underscored name is free. *)
LEMMA UnderscoredIs ==
  ASSUME NEW n \in Texts, NEW taken, IsFiniteSet(taken)
  PROVE  \E k \in Nat : Underscored(n, taken) = Padded(k, n) /\ Padded(k, n) \notin taken
<1> DEFINE numbers == 0..Cardinality(taken)
           free == {k \in numbers : Padded(k, n) \notin taken}
           f == [k \in numbers |-> Padded(k, n)]
<1>1. Cardinality(taken) \in Nat /\ numbers \subseteq Nat
  BY FS_CardinalityType
<1>2. IsFiniteSet(numbers) /\ Cardinality(taken) < Cardinality(numbers)
  BY <1>1, FS_Interval
<1>3. \A k \in numbers : f[k] = Padded(k, n)
  OBVIOUS
<1>4. \A i, j \in numbers : f[i] = f[j] => i = j
  <2>1. Len(n) \in Nat /\ \A i \in numbers : Len(f[i]) = i + Len(n)
    BY <1>1, <1>3, PaddedIs, LenProperties DEF Texts
  <2> QED
    BY <1>1, <2>1
<1>5. free # {}
  <2> SUFFICES ASSUME \A k \in numbers : f[k] \in taken
               PROVE  FALSE
    BY <1>3
  <2> HIDE DEF numbers, f
  <2> QED
    BY <1>2, <1>4, OneIsFree
<1>6. PICK k : k = CHOOSE m \in free : \A j \in free : m <= j
  OBVIOUS
<1>7. k \in free
  <2>1. \E m \in free : \A j \in free : m <= j
    <3> HIDE DEF numbers
    <3>1. free \in SUBSET Nat
      BY <1>1
    <3> HIDE DEF free
    <3> QED
      BY <1>5, <3>1, LeastOf
  <2> HIDE DEF free
  <2> QED
    BY <1>6, <2>1
<1> QED
  BY <1>1, <1>6, <1>7 DEF Underscored

(* Enough numbers are free for the members. *)
LEMMA ManyAreFree ==
  ASSUME NEW base \in Texts, NEW taken, IsFiniteSet(taken), NEW size \in Nat,
         NEW free, free = {j \in 0..(Cardinality(taken) + size) : base \o Number(j) \notin taken}
  PROVE  free \subseteq Nat /\ IsFiniteSet(free) /\ Cardinality(free) \in Nat /\ Cardinality(free) > size
<1> DEFINE numbers == 0..(Cardinality(taken) + size)
           used == {j \in numbers : base \o Number(j) \in taken}
           f == [j \in used |-> base \o Number(j)]
<1>1. Cardinality(taken) \in Nat
  BY FS_CardinalityType
<1>2. IsFiniteSet(numbers) /\ Cardinality(numbers) = Cardinality(taken) + size + 1 /\ \A j \in numbers : j \in Nat
  <2>1. 0 \in Int /\ Cardinality(taken) + size \in Int /\ ~(0 > Cardinality(taken) + size)
    BY <1>1
  <2>2. IsFiniteSet(numbers) /\ Cardinality(numbers) = Cardinality(taken) + size - 0 + 1
    BY <2>1, FS_Interval
  <2> QED
    BY <1>1, <2>2
<1>3. used \subseteq numbers /\ free = numbers \ used
  OBVIOUS
<1>4. \A j \in used : f[j] = base \o Number(j) /\ f[j] \in taken
  OBVIOUS
<1> HIDE DEF numbers, used, f
<1>5. IsFiniteSet(used) /\ Cardinality(used) \in Nat
  BY <1>2, <1>3, FS_Subset, FS_CardinalityType
<1>6. \A i, j \in used : f[i] = f[j] => i = j
  BY <1>2, <1>3, <1>4, NumbersDiffer
<1>7. Cardinality(used) <= Cardinality(taken)
  <2> SUFFICES ASSUME Cardinality(taken) < Cardinality(used)
               PROVE  FALSE
    BY <1>1, <1>5
  <2> QED
    BY SMTT(20), <1>4, <1>5, <1>6, OneIsFree
<1>8. numbers \cap used = used
  BY <1>3
<1>9. IsFiniteSet(free) /\ Cardinality(free) = Cardinality(numbers) - Cardinality(used)
  BY ZenonT(30), <1>2, <1>3, <1>8, FS_Difference
<1>10. free \subseteq Nat
  BY <1>2, <1>3
<1> QED
  BY <1>1, <1>2, <1>5, <1>7, <1>9, <1>10

Below(free, j) == {k \in free : k < j}

(* One more number is below the next free one. *)
LEMMA NextAbove ==
  ASSUME NEW free, free \subseteq Nat, IsFiniteSet(free), Cardinality(free) \in Nat,
         NEW j \in free, NEW c \in Nat, Cardinality(Below(free, j)) = c, c + 1 < Cardinality(free)
  PROVE  \E m \in free : Cardinality(Below(free, m)) = c + 1
<1> DEFINE above == {k \in free : j < k}
           upTo == Below(free, j) \cup {j}
<1>1. j \in Nat /\ \A k \in free : k \in Nat
  OBVIOUS
<1>2. Below(free, j) \subseteq free /\ j \notin Below(free, j)
  BY <1>1 DEF Below
<1>3. IsFiniteSet(Below(free, j))
  BY <1>2, FS_Subset
<1>4. Cardinality(upTo) = c + 1
  BY <1>2, <1>3, FS_AddElement
<1>5. upTo \subseteq free /\ \A k \in free : k \in upTo <=> k <= j
  <2>1. \A k \in free : k \in upTo <=> k < j \/ k = j
    BY <1>1 DEF Below
  <2>2. \A k \in free : (k < j \/ k = j) <=> k <= j
    BY <1>1
  <2> QED
    BY <1>2, <2>1, <2>2
<1>6. above \subseteq free /\ \A k \in free : k \in above <=> j < k
  OBVIOUS
<1> HIDE DEF above, upTo
<1>7. above # {}
  <2> SUFFICES ASSUME above = {}
               PROVE  FALSE
    OBVIOUS
  <2>1. \A k \in free : k <= j
    <3> TAKE k \in free
    <3>1. ~(j < k)
      BY <1>6
    <3> QED
      BY <1>1, <3>1
  <2>2. free = upTo
    BY <1>5, <2>1
  <2> QED
    BY <1>4, <2>2
<1>8. above \subseteq Nat
  BY <1>1, <1>6
<1>9. PICK m \in above : \A k \in above : m <= k
  BY <1>7, <1>8, LeastOf
<1>10. m \in free /\ m \in Nat /\ j < m
  BY <1>1, <1>6, <1>9
<1>11. \A k \in free : k < m <=> k <= j
  <2> TAKE k \in free
  <2>1. k \in Nat
    BY <1>1
  <2>2. CASE j < k
    BY <1>1, <1>6, <1>9, <1>10, <2>1, <2>2
  <2>3. CASE k <= j
    BY <1>1, <1>10, <2>1, <2>3
  <2> QED
    BY <1>1, <2>1, <2>2, <2>3
<1>12. Below(free, m) = upTo
  BY <1>5, <1>11 DEF Below
<1> QED
  BY <1>4, <1>10, <1>12

(* Each member has a free number, the i-th has i - 1 below its own.        *)
LEMMA EachHasOne ==
  ASSUME NEW free, free \subseteq Nat, IsFiniteSet(free), Cardinality(free) \in Nat,
         NEW size \in Nat, Cardinality(free) > size, NEW i \in 1..size
  PROVE  \E j \in free : Cardinality(Below(free, j)) = i - 1
<1> DEFINE lacking == {n \in 1..size : \A j \in free : Cardinality(Below(free, j)) # n - 1}
<1> SUFFICES ASSUME lacking # {}
             PROVE  FALSE
  OBVIOUS
<1>1. \A n : n \in lacking <=> n \in 1..size /\ \A j \in free : Cardinality(Below(free, j)) # n - 1
  OBVIOUS
<1> HIDE DEF lacking
<1>2. lacking \subseteq Nat
  BY <1>1
<1>3. PICK n \in lacking : \A m \in lacking : n <= m
  BY <1>2, LeastOf
<1>4. n \in 1..size /\ n \in Nat /\ \A j \in free : Cardinality(Below(free, j)) # n - 1
  BY <1>1, <1>3
<1>5. CASE n = 1
  <2>1. free # {}
    BY FS_EmptySet
  <2>2. PICK j \in free : \A k \in free : j <= k
    BY <2>1, LeastOf
  <2>3. \A k \in free : ~(k < j)
    BY <2>2
  <2>4. Below(free, j) = {}
    BY <2>3 DEF Below
  <2>5. Cardinality(Below(free, j)) = 0
    BY <2>4, FS_EmptySet
  <2> QED
    BY <1>4, <1>5, <2>5
<1>6. CASE n # 1
  <2>1. n - 1 \in 1..size /\ ~(n <= n - 1)
    BY <1>4, <1>6
  <2>2. n - 1 \notin lacking
    BY <1>3, <2>1
  <2>3. PICK j \in free : Cardinality(Below(free, j)) = (n - 1) - 1
    BY <1>1, <2>1, <2>2
  <2>4. PICK c \in Nat : c = n - 2 /\ c + 1 = n - 1 /\ (n - 1) - 1 = c
    BY <1>4, <2>1
  <2>5. c + 1 < Cardinality(free)
    BY <1>4, <2>4
  <2>6. PICK m \in free : Cardinality(Below(free, m)) = c + 1
    BY <2>3, <2>4, <2>5, NextAbove
  <2> QED
    BY <1>4, <2>4, <2>6
<1> QED
  BY <1>5, <1>6

(* Members get names that are free, and names of their own.                *)
LEMMA MemberNamesAre ==
  ASSUME NEW base \in Texts, NEW taken, IsFiniteSet(taken), NEW size \in Nat,
         NEW bases, bases = MemberNames(base, taken, size)
  PROVE  /\ \A i \in 1..size : /\ bases[i] \notin taken
                               /\ \E j \in Nat : bases[i] = base \o Number(j)
         /\ \A i, j \in 1..size : bases[i] = bases[j] => i = j
<1>1. PICK free : free = {j \in 0..(Cardinality(taken) + size) : base \o Number(j) \notin taken}
  OBVIOUS
<1>2. free \subseteq Nat /\ IsFiniteSet(free) /\ Cardinality(free) \in Nat /\ Cardinality(free) > size
  BY <1>1, ManyAreFree
<1> DEFINE number(i) == CHOOSE j \in free : Cardinality(Below(free, j)) = i - 1
<1>3. \A i \in 1..size : number(i) \in free /\ Cardinality(Below(free, number(i))) = i - 1
  <2> TAKE i \in 1..size
  <2>1. \E j \in free : Cardinality(Below(free, j)) = i - 1
    BY <1>2, EachHasOne
  <2> QED
    BY <2>1
<1>4. \A i \in 1..size : bases[i] = base \o Number(number(i))
  BY <1>1 DEF MemberNames, Below
<1> HIDE DEF number
<1>5. \A i, j \in 1..size : number(i) = number(j) => i = j
  <2> SUFFICES ASSUME NEW i \in 1..size, NEW j \in 1..size, number(i) = number(j)
               PROVE  i = j
    OBVIOUS
  <2>1. PICK c : c = Cardinality(Below(free, number(i)))
    OBVIOUS
  <2>2. c = i - 1 /\ c = j - 1
    BY <1>3, <2>1
  <2> QED
    BY <2>2
<1>6. \A i \in 1..size : number(i) \in Nat /\ base \o Number(number(i)) \notin taken
  BY <1>1, <1>2, <1>3
<1>7. \A i, j \in 1..size : bases[i] = bases[j] => i = j
  <2> SUFFICES ASSUME NEW i \in 1..size, NEW j \in 1..size, bases[i] = bases[j]
               PROVE  number(i) = number(j)
    BY <1>5
  <2> QED
    BY <1>4, <1>6, NumbersDiffer
<1> QED
  BY <1>4, <1>6, <1>7

(* A collection is replaced by parameters of its members. *)
Expands(members, bases, value, size) ==
  /\ \A i, j \in 1..size : bases[i] = bases[j] => i = j
  /\ members = MembersOf(value, bases, size)

Expanded(members, bases, value, size) ==
  /\ DOMAIN members = {bases[i] : i \in 1..size} /\ IsFiniteSet(DOMAIN members)
  /\ \A i \in 1..size : members[bases[i]] = Member(value, i)

LEMMA MembersAre ==
  ASSUME NEW bases, NEW value, NEW members, NEW size \in Nat, Expands(members, bases, value, size)
  PROVE  Expanded(members, bases, value, size)
<1> USE DEF Expands, MembersOf
<1>1. DOMAIN members = {bases[i] : i \in 1..size}
  OBVIOUS
<1>2. \A i \in 1..size : members[bases[i]] = Member(value, i)
  <2> TAKE i \in 1..size
  <2>1. PICK j : j = CHOOSE m \in 1..size : bases[m] = bases[i]
    OBVIOUS
  <2>2. j \in 1..size /\ bases[j] = bases[i]
    BY <2>1
  <2>3. j = i
    BY <2>2
  <2> QED
    BY <2>1, <2>3
<1>3. IsFiniteSet(DOMAIN members)
  <2> DEFINE g == [i \in 1..size |-> bases[i]]
  <2>1. g \in Surjection(1..size, DOMAIN members)
    BY <1>1 DEF Surjection
  <2>2. IsFiniteSet(1..size)
    <3>1. size \in Int
      OBVIOUS
    <3>2. \A z \in Int : IsFiniteSet(1..z)
      BY FS_Interval
    <3> QED
      BY <3>1, <3>2
  <2> HIDE DEF g
  <2> QED
    BY <2>1, <2>2, FS_Surjection
<1> QED
  BY <1>1, <1>2, <1>3 DEF Expanded

(* What is bound: a value or a member of one. *)
IsValue(v) == \E o, n, m : v = [origin |-> o, name |-> n, member |-> m]

LEMMA WholeIs ==
  ASSUME NEW o, NEW n
  PROVE  IsValue(Whole(o, n)) /\ Whole(o, n).origin = o /\ Whole(o, n).name = n
BY DEF IsValue, Whole

LEMMA MemberIs ==
  ASSUME NEW v, IsValue(v), NEW i
  PROVE  IsValue(Member(v, i)) /\ Member(v, i).origin = v.origin /\ Member(v, i).name = v.name
<1>1. PICK o, n, m : v = [origin |-> o, name |-> n, member |-> m]
  BY DEF IsValue
<1>2. Member(v, i) = [origin |-> o, name |-> n, member |-> i]
  BY <1>1 DEF Member
<1>3. IsValue(Member(v, i))
  BY <1>2 DEF IsValue
<1>4. Member(v, i).origin = o /\ Member(v, i).name = n
  BY <1>2
<1>5. v.origin = o /\ v.name = n
  BY <1>1
<1> QED
  BY <1>3, <1>4, <1>5

-----------------------------------------------------------------------------
(* SQL given as text. *)

IsRead(v) == IsValue(v) /\ (v.origin = <<"env">> => v.name \in keys \cap text_snapshot)

(* The value of a name of the text, as the caller or the environment gave it. *)
IsMeant(v, n) == Supplied(n) /\ v = Meant(n)

DirectIInv ==
  /\ text_status \in {"scanning", "prepared", "refused"}
  /\ IsFiniteSet(text_names)
  /\ text_status = "scanning" =>
       /\ DOMAIN text_params = text_names /\ given \subseteq text_names
       /\ \A b \in text_names : b \notin MadeUp => IsMeant(text_params[b], b)
  /\ \A p \in text_placed : p.text \notin MadeUp => IsMeant(Member(p.value, 0), p.text)
  /\ \A b \in DOMAIN text_params : IsRead(text_params[b])
  /\ \A p \in text_placed : IsRead(p.value)
  /\ text_status \in {"scanning", "prepared"} =>
       \A p \in text_placed : p.bound \in DOMAIN text_params /\ text_params[p.bound] = p.value

LEMMA DirectInitIInv ==
  ASSUME DirectInit
  PROVE  DirectIInv
<1>1. IsFiniteSet(text_names)
  BY NamesAssumption, FS_Subset DEF DirectInit
<1>2. /\ text_status = "scanning" /\ text_placed = {} /\ DOMAIN text_params = text_names
      /\ given = text_names
  BY DEF DirectInit
<1>3. ASSUME NEW b \in text_names
      PROVE  IsMeant(text_params[b], b)
  BY <1>3 DEF DirectInit, IsMeant, Supplied, Meant
<1>4. ASSUME NEW b \in DOMAIN text_params
      PROVE  IsRead(text_params[b])
  <2>1. text_params[b] = Whole(<<"caller">>, b)
    BY <1>4 DEF DirectInit
  <2>2. <<"caller">> # <<"env">>
    OBVIOUS
  <2> QED
    BY <2>1, <2>2, WholeIs DEF IsRead
<1> QED
  BY <1>1, <1>2, <1>4, <1>3 DEF DirectIInv

(* Reading a name adds it to the parameters, and nothing is lost.          *)
LEMMA ReadIs ==
  ASSUME DirectIInv, text_status = "scanning", NEW n, Known(n), keys' = Recorded(n),
         text_snapshot' = text_snapshot, given' = given, NEW read, read = WithRead(n), NEW taken,
         taken = text_names \cup Read(n)
  PROVE  /\ DOMAIN read = taken /\ IsFiniteSet(taken) /\ n \in DOMAIN read
         /\ \A b \in DOMAIN text_params : b \in DOMAIN read /\ read[b] = text_params[b]
         /\ \A b \in DOMAIN read : IsRead(read[b])'
         /\ \A v : IsRead(v) => IsRead(v)'
         /\ \A v, b : IsMeant(v, b) => IsMeant(v, b)'
         /\ \A b \in taken : b \notin MadeUp => IsMeant(read[b], b)'
         /\ given \subseteq taken
<1>1. PICK added : added = [m \in Read(n) |-> Whole(<<"env">>, m)]
  OBVIOUS
<1>2. read = Over(added, text_params) /\ DOMAIN added = Read(n) /\ Read(n) \cap DOMAIN text_params = {}
  BY <1>1 DEF WithRead, Read
<1>3. /\ DOMAIN read = taken /\ n \in DOMAIN read
      /\ \A b \in DOMAIN text_params : b \in DOMAIN read /\ read[b] = text_params[b]
      /\ \A b \in Read(n) : read[b] = Whole(<<"env">>, b)
  <2>1. /\ DOMAIN read = DOMAIN added \cup DOMAIN text_params
        /\ \A b \in DOMAIN added : read[b] = added[b]
        /\ \A b \in DOMAIN text_params \ DOMAIN added : read[b] = text_params[b]
    BY <1>2 DEF Over
  <2>2. \A b \in Read(n) : b \in DOMAIN added /\ added[b] = Whole(<<"env">>, b)
    BY <1>1
  <2>3. DOMAIN text_params = text_names /\ n \in DOMAIN text_params \cup Read(n)
    BY DEF DirectIInv, Known
  <2> QED
    BY <1>2, <2>1, <2>2, <2>3
<1>4. IsFiniteSet(taken)
  <2>1. IsFiniteSet(Read(n))
    BY FS_EmptySet, FS_Singleton DEF Read
  <2> QED
    BY <2>1, FS_Union DEF DirectIInv
<1>5. ASSUME NEW v, IsRead(v)
      PROVE  IsRead(v)'
  <2>1. IsValue(v) /\ (v.origin = <<"env">> => v.name \in keys' /\ v.name \in text_snapshot')
    BY <1>5 DEF IsRead, Recorded
  <2> QED
    BY <2>1 DEF IsRead
<1>6. ASSUME NEW b \in Read(n)
      PROVE  IsRead(read[b])'
  <2>1. b \in keys' /\ b \in text_snapshot'
    BY <1>6 DEF Read, Recorded
  <2> QED
    BY <1>3, <1>6, <2>1, WholeIs DEF IsRead
<1>7. \A b \in DOMAIN read : IsRead(read[b])'
  <2> TAKE b \in DOMAIN read
  <2>1. CASE b \in DOMAIN text_params
    BY <1>3, <1>5, <2>1 DEF DirectIInv
  <2>2. CASE b \in Read(n)
    BY <1>6, <2>2
  <2>3. DOMAIN read = Read(n) \cup DOMAIN text_params
    BY <1>3 DEF DirectIInv
  <2> QED
    BY <2>1, <2>2, <2>3
<1>8. ASSUME NEW v, NEW b, IsMeant(v, b)
      PROVE  IsMeant(v, b)'
  BY <1>8 DEF IsMeant, Supplied, Meant
<1>9. given \subseteq text_names /\ \A b \in text_names : b \notin MadeUp => IsMeant(text_params[b], b)
  BY DEF DirectIInv
<1>10. ASSUME NEW b \in Read(n)
       PROVE  IsMeant(read[b], b)
  <2>1. b \in text_snapshot /\ b \notin given
    BY <1>2, <1>9, <1>10 DEF Read, DirectIInv
  <2>2. Meant(b) = Whole(<<"env">>, b) /\ Supplied(b)
    BY <2>1 DEF Meant, Supplied
  <2> QED
    BY <1>3, <1>10, <2>2 DEF IsMeant
<1>11. ASSUME NEW b \in taken, b \notin MadeUp
       PROVE  IsMeant(read[b], b)'
  <2>1. CASE b \in text_names
    <3>1. read[b] = text_params[b]
      BY <1>3, <2>1 DEF DirectIInv
    <3> QED
      BY <1>8, <1>9, <1>11, <2>1, <3>1
  <2>2. CASE b \in Read(n)
    BY <1>8, <1>10, <2>2
  <2> QED
    BY <2>1, <2>2
<1> QED
  BY <1>3, <1>4, <1>5, <1>7, <1>8, <1>9, <1>11

(* The value of a member, member put aside, is that of the whole. *)
LEMMA MeantStays ==
  ASSUME NEW v, NEW n, NEW i, IsMeant(v, n)'
  PROVE  IsMeant(Member(v, 0), n)' /\ IsMeant(Member(Member(v, i), 0), n)'
<1>1. PICK o : v = [origin |-> o, name |-> n, member |-> 0]
  BY DEF IsMeant, Meant, Whole
<1>2. Member(v, 0) = v
  BY <1>1 DEF Member
<1>3. PICK w : w = Member(v, i)
  OBVIOUS
<1>4. w = [origin |-> o, name |-> n, member |-> i]
  BY <1>1, <1>3 DEF Member
<1>5. Member(w, 0) = v
  BY <1>1, <1>4 DEF Member
<1> QED
  BY <1>2, <1>3, <1>5

(* Places and values that were there stay as they are.                     *)
LEMMA ScalarIsRead ==
  ASSUME DirectIInv, NEW n, ReadScalar(n)
  PROVE  DirectIInv'
<1>1. PICK read, taken : read = WithRead(n) /\ taken = text_names \cup Read(n)
  OBVIOUS
<1>2. /\ text_status = "scanning" /\ text_status' = "scanning" /\ Known(n) /\ keys' = Recorded(n)
      /\ text_snapshot' = text_snapshot /\ text_names' = taken /\ text_params' = read
      /\ text_placed' = text_placed \cup {TextPlace(n, n, read[n])} /\ given' = given
  BY <1>1 DEF ReadScalar, Scanning
<1>3. /\ DOMAIN read = taken /\ IsFiniteSet(taken) /\ n \in DOMAIN read
      /\ \A b \in DOMAIN text_params : b \in DOMAIN read /\ read[b] = text_params[b]
      /\ \A b \in DOMAIN read : IsRead(read[b])'
      /\ \A v : IsRead(v) => IsRead(v)'
  BY <1>1, <1>2, ReadIs
<1>4. /\ \A v, b : IsMeant(v, b) => IsMeant(v, b)'
      /\ \A b \in taken : b \notin MadeUp => IsMeant(read[b], b)'
      /\ given \subseteq taken
  BY <1>1, <1>2, ReadIs
<1>5. ASSUME NEW p \in text_placed'
      PROVE  IsRead(p.value)' /\ p.bound \in DOMAIN read /\ read[p.bound] = p.value
  <2>1. CASE p \in text_placed
    BY <1>2, <1>3, <2>1 DEF DirectIInv
  <2>2. CASE p = TextPlace(n, n, read[n])
    BY <1>3, <2>2 DEF TextPlace
  <2> QED
    BY <1>2, <2>1, <2>2
<1>6. MadeUp' = MadeUp
  <2>1. TextPlace(n, n, read[n]).text = TextPlace(n, n, read[n]).bound
    BY DEF TextPlace
  <2>2. {q \in text_placed' : q.text # q.bound} = {q \in text_placed : q.text # q.bound}
    BY <1>2, <2>1
  <2> QED
    BY <2>2 DEF MadeUp
<1>7. ASSUME NEW p \in text_placed', p.text \notin MadeUp
      PROVE  IsMeant(Member(p.value, 0), p.text)'
  <2>1. CASE p \in text_placed
    BY <1>4, <1>7, <2>1 DEF DirectIInv
  <2>2. CASE p = TextPlace(n, n, read[n])
    <3>1. p.text = n /\ p.value = read[n]
      BY <2>2 DEF TextPlace
    <3>2. IsMeant(read[n], n)'
      BY <1>3, <1>4, <1>7, <3>1
    <3> QED
      BY <3>1, <3>2, MeantStays
  <2> QED
    BY <1>2, <2>1, <2>2
<1> QED
  BY <1>2, <1>3, <1>4, <1>5, <1>6, <1>7 DEF DirectIInv

LEMMA CollectionIsRead ==
  ASSUME DirectIInv, NEW n \in Names, ReadCollection(n)
  PROVE  DirectIInv'
<1>1. PICK read, taken, value :
        read = WithRead(n) /\ taken = text_names \cup Read(n) /\ value = read[n]
  OBVIOUS
<1>2. PICK size, bases : size = Size[value.name] /\ bases = MemberNames(n, taken, size)
  OBVIOUS
<1>3. PICK members : members = MembersOf(value, bases, size)
  OBVIOUS
<1>4. /\ text_status = "scanning" /\ text_status' = "scanning" /\ Known(n) /\ keys' = Recorded(n)
      /\ text_snapshot' = text_snapshot /\ text_names' = taken \cup DOMAIN members
      /\ text_params' = Over(members, read)
      /\ text_placed' = text_placed \cup
                          {TextPlace(n, bases[i], Member(value, i)) : i \in 1..size}
      /\ value.name \in Collections /\ given' = given
  BY <1>1, <1>2, <1>3 DEF ReadCollection, Scanning, IsCollection
<1>5. /\ DOMAIN read = taken /\ IsFiniteSet(taken) /\ n \in DOMAIN read
      /\ \A b \in DOMAIN text_params : b \in DOMAIN read /\ read[b] = text_params[b]
      /\ \A b \in DOMAIN read : IsRead(read[b])'
      /\ \A v : IsRead(v) => IsRead(v)'
  BY <1>1, <1>4, ReadIs
<1>6. /\ \A v, b : IsMeant(v, b) => IsMeant(v, b)'
      /\ \A b \in taken : b \notin MadeUp => IsMeant(read[b], b)'
      /\ given \subseteq taken
  BY <1>1, <1>4, ReadIs
<1>7. n \in Texts /\ size \in Nat
  BY <1>2, <1>4, NamesAssumption
<1>8. /\ \A i \in 1..size : bases[i] \notin taken
      /\ \A i, j \in 1..size : bases[i] = bases[j] => i = j
  BY <1>2, <1>5, <1>7, MemberNamesAre
<1>9. /\ DOMAIN members = {bases[i] : i \in 1..size} /\ IsFiniteSet(DOMAIN members)
      /\ \A i \in 1..size : members[bases[i]] = Member(value, i)
  <2>1. Expands(members, bases, value, size)
    BY <1>3, <1>8 DEF Expands
  <2>2. Expanded(members, bases, value, size)
    BY <1>7, <2>1, MembersAre
  <2> QED
    BY <2>2 DEF Expanded
<1>10. PICK all : all = Over(members, read)
  OBVIOUS
<1>11. /\ DOMAIN all = taken \cup DOMAIN members
       /\ \A i \in 1..size : bases[i] \in DOMAIN all /\ all[bases[i]] = Member(value, i)
       /\ \A b \in taken : all[b] = read[b]
  <2>1. /\ DOMAIN all = DOMAIN members \cup DOMAIN read
        /\ \A b \in DOMAIN members : all[b] = members[b]
        /\ \A b \in DOMAIN read \ DOMAIN members : all[b] = read[b]
    BY <1>10 DEF Over
  <2>2. \A i \in 1..size : bases[i] \in DOMAIN members
    BY <1>9
  <2>3. \A b \in taken : b \in DOMAIN read \ DOMAIN members
    BY <1>5, <1>8, <1>9
  <2> QED
    BY <1>5, <1>9, <2>1, <2>2, <2>3
<1>12. \A i \in 1..size : IsRead(Member(value, i))'
  <2>1. IsRead(value)'
    BY <1>1, <1>5
  <2>2. IsValue(value)
    BY <2>1 DEF IsRead
  <2> TAKE i \in 1..size
  <2>3. PICK m : m = Member(value, i)
    OBVIOUS
  <2>4. IsValue(m) /\ m.origin = value.origin /\ m.name = value.name
    BY <2>2, <2>3, MemberIs
  <2> QED
    BY <2>1, <2>3, <2>4 DEF IsRead
<1>13. \A b \in DOMAIN all : IsRead(all[b])'
  <2> TAKE b \in DOMAIN all
  <2>1. CASE b \in taken
    <3>1. all[b] = read[b] /\ b \in DOMAIN read
      BY <1>5, <1>11, <2>1
    <3> QED
      BY <1>5, <3>1
  <2>2. CASE \E i \in 1..size : b = bases[i]
    BY <1>11, <1>12, <2>2
  <2> QED
    BY <1>9, <1>11, <2>1, <2>2
<1>14. ASSUME NEW p \in text_placed'
       PROVE  IsRead(p.value)' /\ p.bound \in DOMAIN all /\ all[p.bound] = p.value
  <2>1. CASE p \in text_placed
    <3>1. p.bound \in DOMAIN text_params /\ text_params[p.bound] = p.value /\ IsRead(p.value)
      BY <1>4, <2>1 DEF DirectIInv
    <3>2. all[p.bound] = p.value /\ p.bound \in DOMAIN all
      BY <1>5, <1>11, <3>1
    <3> QED
      BY <1>5, <3>1, <3>2
  <2>2. CASE \E i \in 1..size : p = TextPlace(n, bases[i], Member(value, i))
    BY <1>11, <1>12, <2>2 DEF TextPlace
  <2> QED
    BY <1>4, <2>1, <2>2
<1>15. IsFiniteSet(taken \cup DOMAIN members)
  BY <1>5, <1>9, FS_Union
<1>16. MadeUp' = MadeUp \cup DOMAIN members
  <2>1. \A i \in 1..size : /\ TextPlace(n, bases[i], Member(value, i)).text = n
                           /\ TextPlace(n, bases[i], Member(value, i)).bound = bases[i]
                           /\ n # bases[i]
    BY <1>5, <1>8 DEF TextPlace
  <2>2. {q \in text_placed' : q.text # q.bound} =
          {q \in text_placed : q.text # q.bound}
            \cup {TextPlace(n, bases[i], Member(value, i)) : i \in 1..size}
    BY <1>4, <2>1
  <2>3. ASSUME NEW b
        PROVE  b \in MadeUp' <=> b \in MadeUp \/ \E i \in 1..size : b = bases[i]
    BY <2>1, <2>2 DEF MadeUp
  <2> QED
    BY <1>9, <2>3
<1>17. ASSUME NEW b \in taken \cup DOMAIN members, b \notin MadeUp'
       PROVE  IsMeant(all[b], b)'
  <2>1. b \in taken /\ b \notin MadeUp
    BY <1>16, <1>17
  <2> QED
    BY <1>6, <1>11, <2>1
<1>18. ASSUME NEW p \in text_placed', p.text \notin MadeUp'
       PROVE  IsMeant(Member(p.value, 0), p.text)'
  <2>1. p.text \notin MadeUp
    BY <1>16, <1>18
  <2>2. CASE p \in text_placed
    BY <1>6, <2>1, <2>2 DEF DirectIInv
  <2>3. CASE \E i \in 1..size : p = TextPlace(n, bases[i], Member(value, i))
    <3>1. PICK i \in 1..size : p.text = n /\ p.value = Member(value, i)
      BY <2>3 DEF TextPlace
    <3>2. IsMeant(value, n)'
      BY <1>1, <1>5, <1>6, <2>1, <3>1
    <3> QED
      BY <3>1, <3>2, MeantStays
  <2> QED
    BY <1>4, <2>2, <2>3
<1> QED
  BY <1>4, <1>6, <1>10, <1>11, <1>13, <1>14, <1>15, <1>17, <1>18 DEF DirectIInv

LEMMA PrepareIInv ==
  ASSUME DirectIInv, Prepare
  PROVE  DirectIInv'
<1>1. PICK left, bound, kept :
        /\ left = DOMAIN text_params \ {n \in DOMAIN text_uses : text_uses[n]}
        /\ bound = {p.bound : p \in text_placed}
        /\ kept = [b \in bound \cap left |-> text_params[b]]
  OBVIOUS
<1>2. /\ text_status = "scanning"
      /\ text_status' = IF bound \subseteq left THEN "prepared" ELSE "refused"
      /\ text_params' = kept
      /\ text_names' = text_names /\ keys' = keys /\ text_snapshot' = text_snapshot
      /\ text_placed' = text_placed /\ given' = given
  BY <1>1 DEF Prepare
<1>3. \A v : IsRead(v) => IsRead(v)'
  BY <1>2 DEF IsRead
<1>4. \A b \in DOMAIN kept : IsRead(kept[b])'
  <2>1. \A b \in DOMAIN kept : b \in DOMAIN text_params /\ kept[b] = text_params[b]
    BY <1>1
  <2> QED
    BY <1>3, <2>1 DEF DirectIInv
<1>5. \A p \in text_placed' : IsRead(p.value)'
  BY <1>2, <1>3 DEF DirectIInv
<1>6. ASSUME text_status' = "prepared", NEW p \in text_placed'
      PROVE  p.bound \in DOMAIN kept /\ kept[p.bound] = p.value
  <2>1. p.bound \in bound \cap left
    BY <1>1, <1>2, <1>6
  <2>2. p.bound \in DOMAIN kept /\ kept[p.bound] = text_params[p.bound]
    BY <1>1, <2>1
  <2> QED
    BY <1>2, <1>6, <2>2 DEF DirectIInv
<1>7. text_status' # "scanning" /\ text_status' \in {"scanning", "prepared", "refused"}
  BY <1>2
<1>8. \A p \in text_placed' : p.text \notin MadeUp' => IsMeant(Member(p.value, 0), p.text)'
  BY <1>2 DEF DirectIInv, MadeUp, IsMeant, Supplied, Meant
<1> QED
  BY <1>2, <1>4, <1>5, <1>6, <1>7, <1>8 DEF DirectIInv

LEMMA DirectNextIInv ==
  ASSUME DirectIInv, [DirectNext]_directVars
  PROVE  DirectIInv'
<1>1. CASE Prepare
  BY <1>1, PrepareIInv
<1>2. CASE \E n \in Names : ReadScalar(n)
  BY <1>2, ScalarIsRead
<1>3. CASE \E n \in Names : ReadCollection(n)
  BY <1>3, CollectionIsRead
<1>4. CASE \E n \in Names : RefuseText(n)
  <2>1. /\ text_status' = "refused" /\ text_names' = text_names /\ text_params' = text_params
        /\ keys' = keys /\ text_snapshot' = text_snapshot /\ text_placed' = text_placed
        /\ given' = given
    BY <1>4 DEF RefuseText
  <2>2. \A v : IsRead(v) => IsRead(v)'
    BY <2>1 DEF IsRead
  <2>3. MadeUp' = MadeUp /\ \A v, b : IsMeant(v, b) => IsMeant(v, b)'
    BY <2>1 DEF MadeUp, IsMeant, Supplied, Meant
  <2> QED
    BY <2>1, <2>2, <2>3 DEF DirectIInv
<1>5. CASE UNCHANGED directVars
  <2>1. \A v : IsRead(v) => IsRead(v)'
    BY <1>5 DEF IsRead, directVars
  <2>2. MadeUp' = MadeUp /\ \A v, b : IsMeant(v, b) => IsMeant(v, b)'
    BY <1>5 DEF MadeUp, IsMeant, Supplied, Meant, directVars
  <2> QED
    BY <1>5, <2>1, <2>2 DEF DirectIInv, directVars
<1> QED
  BY <1>1, <1>2, <1>3, <1>4, <1>5 DEF DirectNext

(* The parameters, the names in use and the places of a text fit together  *)
(* at every step of the scan (sql.py, prepare_text).                       *)
THEOREM DirectInvariance == DirectSpec => []DirectIInv
<1>1. DirectInit => DirectIInv
  BY DirectInitIInv
<1>2. DirectIInv /\ [DirectNext]_directVars => DirectIInv'
  BY DirectNextIInv
<1> QED
  BY <1>1, <1>2, PTL DEF DirectSpec

(* A prepared text binds at each place the value the place was read with,  *)
(* the caller's or the environment's unless the name is one made up for a  *)
(* member, and records every key of the environment it bound.              *)
THEOREM PreparedKeepsPlaces == DirectSpec => []PreparedAsRead
<1>1. DirectIInv => PreparedAsRead
  BY DEF DirectIInv, PreparedAsRead, IsRead, IsMeant
<1> QED
  BY <1>1, DirectInvariance, PTL
-----------------------------------------------------------------------------
(* Parameters of a compiled statement. *)

IsStack(s) == s \in Seq({s[i] : i \in DOMAIN s}) /\ s # << >>

IsContext(c) ==
  /\ c = [namespace |-> c.namespace, available |-> c.available, binding_names |-> c.binding_names,
          use_keys |-> c.use_keys, input_origins |-> c.input_origins,
          policy_parameter_index |-> c.policy_parameter_index, step |-> c.step]
  /\ c.policy_parameter_index \in Nat /\ c.step \in Steps

IsSpace(ns) == \E k \in 1..MaxSubqueries : ns = <<"s">> \o Number(k)

(* What a name begins with, after the underscores put before it: "s" for   *)
(* the names of subqueries; "env", "value" or "policy" for those the root  *)
(* binds and no caller supplied.                                           *)
StartsWith(b, words) ==
  \E k \in DOMAIN b : b[k] \in words /\ \A j \in 1..(k - 1) : b[j] = Underscore
SubqueryName(b) == StartsWith(b, {"s"})
RootName(b) == StartsWith(b, {"env", "value", "policy"})

(* A context has values by their names, the caller's those that are its    *)
(* inputs.                                                                 *)
ValuesAre(c) ==
  /\ IsFiniteSet(DOMAIN c.available) /\ DOMAIN c.available \subseteq Texts
  /\ c.input_origins \subseteq DOMAIN c.available
  /\ \A n \in DOMAIN c.available :
       /\ IsValue(c.available[n]) /\ c.available[n].name = n
       /\ c.available[n].origin = <<"caller">> <=> n \in c.input_origins
       /\ c.available[n].origin = <<"env">> => n \in environment_keys

(* What it bound before is bound still. *)
BindingsAre(c) ==
  \A n \in DOMAIN c.binding_names :
    /\ n \in DOMAIN c.available
    /\ c.binding_names[n] \in DOMAIN params
    /\ params[c.binding_names[n]] = c.available[n]
    /\ c.namespace = << >> => c.binding_names[n] = n
    /\ c.namespace # << >> => SubqueryName(c.binding_names[n])

(* The root has no namespace; it sees what the caller supplied, whose      *)
(* names are reserved from the start, and what the root made up itself.    *)
ContextsNest ==
  /\ IsStack(contexts) /\ counter \in 0..MaxSubqueries
  /\ contexts[1].namespace = << >>
  /\ \A i \in DOMAIN contexts : i # 1 => IsSpace(contexts[i].namespace)
  /\ contexts[1].input_origins \subseteq names
  /\ \A n \in DOMAIN contexts[1].available : n \in contexts[1].input_origins \/ RootName(n)

NamesAreReserved ==
  /\ IsFiniteSet(names) /\ IsFiniteSet(placed)
  /\ DOMAIN params = {p.bound : p \in placed} /\ DOMAIN params \subseteq names

(* A scalar place has a name of a subquery or one the root has bound; and  *)
(* a name the caller supplied is bound only by the root, for itself.       *)
PlacesAre ==
  \A p \in placed :
    /\ p.collection \/ SubqueryName(p.bound) \/ p.bound \in DOMAIN contexts[1].binding_names
    /\ p.bound \in contexts[1].input_origins => p.bound \in DOMAIN contexts[1].binding_names

BindingIInv ==
  /\ operation \in Operations /\ status \in {"compiling", "compiled", "refused"}
  /\ ContextsNest /\ NamesAreReserved /\ PlacesAre
  /\ \A i \in DOMAIN contexts :
       IsContext(contexts[i]) /\ ValuesAre(contexts[i]) /\ BindingsAre(contexts[i])
  /\ PlacesAreKept /\ EnvironmentIsRecorded /\ ConsumedInputsAreBound

LEMMA StackOf ==
  ASSUME NEW S, NEW s \in Seq(S), s # << >>
  PROVE  IsStack(s)
<1>1. Len(s) \in Nat /\ s \in [1..Len(s) -> S] /\ DOMAIN s = 1..Len(s)
  BY LenProperties
<1>2. PICK T : T = {s[i] : i \in DOMAIN s}
  OBVIOUS
<1>3. s \in [1..Len(s) -> T]
  BY <1>1, <1>2
<1>4. s \in Seq(T)
  BY <1>1, <1>3, SeqDef
<1> QED
  BY <1>2, <1>4 DEF IsStack

LEMMA StackIs ==
  ASSUME NEW s, IsStack(s)
  PROVE  Len(s) \in Nat \ {0} /\ DOMAIN s = 1..Len(s) /\ Len(s) \in DOMAIN s /\ 1 \in DOMAIN s
<1>1. PICK S : s \in Seq(S) /\ s # << >>
  BY DEF IsStack
<1>2. Len(s) \in Nat /\ DOMAIN s = 1..Len(s) /\ (Len(s) = 0 => s = << >>)
  BY <1>1, LenProperties, EmptySeq
<1> QED
  BY <1>1, <1>2

LEMMA TopReplacedIs ==
  ASSUME NEW s, IsStack(s), NEW c, NEW t, t = [s EXCEPT ![Len(s)] = c]
  PROVE  /\ IsStack(t) /\ Len(t) = Len(s) /\ DOMAIN t = DOMAIN s /\ t[Len(s)] = c
         /\ \A i \in DOMAIN s : i # Len(s) => t[i] = s[i]
<1>1. PICK S : S = {s[i] : i \in DOMAIN s} \cup {c}
  OBVIOUS
<1>2. Len(s) \in Nat \ {0} /\ DOMAIN s = 1..Len(s) /\ Len(s) \in 1..Len(s)
  BY StackIs
<1>3. s \in Seq(S) /\ c \in S
  <2>1. s \in Seq({s[i] : i \in DOMAIN s})
    BY DEF IsStack
  <2>2. s \in [1..Len(s) -> S]
    BY <1>1, <1>2, <2>1, LenProperties
  <2> QED
    BY <1>1, <1>2, <2>2, SeqDef
<1>4. t \in Seq(S) /\ Len(t) = Len(s) /\ \A j \in 1..Len(s) : t[j] = IF j = Len(s) THEN c ELSE s[j]
  BY <1>2, <1>3, ExceptSeq
<1>5. DOMAIN t = 1..Len(t)
  BY <1>4, LenProperties
<1>6. t # << >>
  BY <1>2, <1>4, EmptySeq
<1> QED
  BY <1>2, <1>4, <1>5, <1>6, StackOf

Pushes(t, s, c) == t = Append(s, c)
Continues(t, s) == \A i \in DOMAIN s : t[i] = s[i]

LEMMA PushedIs ==
  ASSUME NEW s, IsStack(s), NEW c, NEW t, Pushes(t, s, c)
  PROVE  /\ IsStack(t) /\ DOMAIN t = DOMAIN s \cup {Len(s) + 1} /\ t[Len(s) + 1] = c
         /\ Continues(t, s)
<1>1. PICK S : S = {s[i] : i \in DOMAIN s} \cup {c}
  OBVIOUS
<1>2. Len(s) \in Nat \ {0} /\ DOMAIN s = 1..Len(s)
  BY StackIs
<1>3. s \in Seq(S) /\ c \in S
  <2>1. s \in Seq({s[i] : i \in DOMAIN s})
    BY DEF IsStack
  <2>2. s \in [1..Len(s) -> S]
    BY <1>1, <1>2, <2>1, LenProperties
  <2> QED
    BY <1>1, <1>2, <2>2, SeqDef
<1>4. /\ t \in Seq(S) /\ t # << >> /\ Len(t) = Len(s) + 1 /\ t[Len(s) + 1] = c
      /\ \A i \in 1..Len(s) : t[i] = s[i]
  BY <1>3, AppendProperties DEF Pushes
<1>5. DOMAIN t = 1..Len(t) /\ 1..(Len(s) + 1) = 1..Len(s) \cup {Len(s) + 1}
  <2>1. DOMAIN t = 1..Len(t)
    BY <1>4, LenProperties
  <2>2. \A i : i \in 1..(Len(s) + 1) <=> i \in 1..Len(s) \/ i = Len(s) + 1
    BY <1>2
  <2> QED
    BY <2>1, <2>2
<1> QED
  BY <1>2, <1>4, <1>5, StackOf DEF Continues

LEMMA PoppedIs ==
  ASSUME NEW s, IsStack(s), Len(s) # 1, NEW t, t = SubSeq(s, 1, Len(s) - 1)
  PROVE  IsStack(t) /\ DOMAIN t \subseteq DOMAIN s /\ 1 \in DOMAIN t /\ \A i \in DOMAIN t : t[i] = s[i]
<1>1. PICK S : S = {s[i] : i \in DOMAIN s}
  OBVIOUS
<1>2. Len(s) \in Nat \ {0} /\ DOMAIN s = 1..Len(s)
  BY StackIs
<1>3. PICK m \in Nat : m = Len(s) - 1 /\ 1 <= m /\ m - 1 + 1 = m /\ m < Len(s)
  <2>1. Len(s) - 1 \in Nat /\ 1 <= Len(s) - 1
    BY <1>2
  <2>2. (Len(s) - 1) - 1 + 1 = Len(s) - 1 /\ Len(s) - 1 < Len(s)
    BY <1>2
  <2> QED
    BY <2>1, <2>2
<1>4. \A i \in 1..m : i \in DOMAIN s /\ s[i] \in S
  BY <1>1, <1>2, <1>3
<1>5. /\ t \in Seq(S) /\ Len(t) = IF 1 <= m THEN m - 1 + 1 ELSE 0
      /\ \A i \in 1..(m - 1 + 1) : t[i] = s[1 + i - 1]
  <2>1. t = SubSeq(s, 1, m) /\ 1 \in Int /\ m \in Int
    BY <1>3
  <2> QED
    BY <1>4, <2>1, SubSeqProperties
<1>6. Len(t) = m /\ \A i \in 1..m : t[i] = s[i]
  <2>1. \A i \in 1..m : 1 + i - 1 = i
    BY <1>3
  <2> QED
    BY <1>3, <1>5, <2>1
<1>7. DOMAIN t = 1..m
  BY <1>5, <1>6, LenProperties
<1>8. t # << >>
  <2>1. t \in Seq(S) /\ Len(t) # 0
    BY <1>3, <1>5, <1>6
  <2> QED
    BY <2>1, EmptySeq
<1>9. IsStack(t)
  BY <1>5, <1>8, StackOf
<1> QED
  BY <1>3, <1>4, <1>6, <1>7, <1>9

LEMMA FirstStays ==
  ASSUME NEW s \in Texts, s # << >>, NEW n \in Texts
  PROVE  s \o n \in Texts /\ s \o n # << >> /\ (s \o n)[1] = s[1]
<1>1. Len(s) \in Nat /\ Len(n) \in Nat /\ Len(s) # 0
  BY LenProperties, EmptySeq DEF Texts
<1>2. /\ s \o n \in Texts /\ Len(s \o n) = Len(s) + Len(n)
      /\ \A i \in 1..(Len(s) + Len(n)) : (s \o n)[i] = IF i <= Len(s) THEN s[i] ELSE n[i - Len(s)]
  BY ConcatProperties DEF Texts
<1>3. 1 \in 1..(Len(s) + Len(n)) /\ 1 <= Len(s)
  BY <1>1
<1>4. s \o n # << >>
  BY <1>1, <1>2, EmptySeq DEF Texts
<1> QED
  BY <1>2, <1>3, <1>4

LEMMA NumberedIs ==
  ASSUME NEW w \in Words, NEW i \in Nat
  PROVE  <<w>> \o Number(i) \in Texts /\ <<w>> \o Number(i) # << >> /\ (<<w>> \o Number(i))[1] = w
<1>1. PICK s : s = <<w>>
  OBVIOUS
<1>2. s \in Texts /\ Len(s) = 1 /\ s[1] = w
  BY <1>1 DEF Texts
<1>3. /\ s \o Number(i) \in Texts /\ Len(s \o Number(i)) = 1 + 1 + i
      /\ \A k \in 1..1 : (s \o Number(i))[k] = s[k]
  BY <1>2, NumberIs
<1>4. s \o Number(i) # << >>
  BY <1>3, EmptySeq DEF Texts
<1> QED
  BY <1>1, <1>2, <1>3, <1>4

LEMMA SpaceIs ==
  ASSUME NEW ns, IsSpace(ns), NEW n \in Texts
  PROVE  ns \in Texts /\ ns # << >> /\ ns \o n \in Texts /\ ns \o n # << >> /\ (ns \o n)[1] = "s"
<1>1. PICK k \in 1..MaxSubqueries : ns = <<"s">> \o Number(k)
  BY DEF IsSpace
<1>2. k \in Nat
  BY <1>1, BindingAssumption
<1>3. ns \in Texts /\ ns # << >> /\ ns[1] = "s"
  <2>1. PICK w \in Words : w = "s"
    BY NamesAssumption
  <2> QED
    BY <1>1, <1>2, <2>1, NumberedIs
<1> QED
  BY <1>3, FirstStays

LEMMA PaddedStarts ==
  ASSUME NEW n \in Texts, n # << >>, NEW k \in Nat, NEW words, n[1] \in words
  PROVE  StartsWith(Padded(k, n), words)
<1>1. Len(n) \in Nat /\ Len(n) # 0
  BY LenProperties, EmptySeq DEF Texts
<1>2. PICK b : b = Padded(k, n)
  OBVIOUS
<1>3. /\ b \in Texts /\ Len(b) = k + Len(n) /\ \A i \in 1..k : b[i] = Underscore
      /\ \A i \in 1..Len(n) : b[k + i] = n[i]
  BY <1>2, PaddedIs
<1>4. DOMAIN b = 1..(k + Len(n))
  BY <1>3, LenProperties DEF Texts
<1>5. k + 1 \in DOMAIN b /\ (k + 1) - 1 = k /\ b[k + 1] = n[1]
  BY <1>1, <1>3, <1>4
<1> QED
  BY <1>2, <1>3, <1>5 DEF StartsWith

LEMMA UnderscoreDiffers == Underscore # "s" /\ Underscore # "env" /\ Underscore # "value" /\ Underscore # "policy"
BY Zenon DEF Underscore

LEMMA StartsOnce ==
  ASSUME NEW b \in Texts, RootName(b)
  PROVE  ~SubqueryName(b) /\ MadeUpAtRoot(b)
<1>1. PICK k \in DOMAIN b : b[k] \in {"env", "value", "policy"} /\ \A j \in 1..(k - 1) : b[j] = Underscore
  BY DEF RootName, StartsWith
<1>2. Len(b) \in Nat /\ DOMAIN b = 1..Len(b)
  BY LenProperties DEF Texts
<1>3. ~SubqueryName(b)
  <2> SUFFICES ASSUME SubqueryName(b)
               PROVE  FALSE
    OBVIOUS
  <2>1. PICK l \in DOMAIN b : b[l] = "s" /\ \A j \in 1..(l - 1) : b[j] = Underscore
    BY DEF SubqueryName, StartsWith
  <2>2. k \in Nat \ {0} /\ l \in Nat \ {0}
    BY <1>2
  <2>3. CASE k < l
    <3>1. k \in 1..(l - 1)
      BY <2>2, <2>3
    <3> QED
      BY <1>1, <2>1, <3>1, UnderscoreDiffers
  <2>4. CASE l < k
    <3>1. l \in 1..(k - 1)
      BY <2>2, <2>4
    <3> QED
      BY <1>1, <2>1, <3>1, UnderscoreDiffers
  <2>5. CASE k = l
    BY <1>1, <2>1, <2>5
  <2> QED
    BY <2>2, <2>3, <2>4, <2>5
<1>4. MadeUpAtRoot(b)
  <2>1. CASE k = 1
    BY <1>1, <2>1 DEF MadeUpAtRoot
  <2>2. CASE k # 1
    <3>1. 1 \in 1..(k - 1)
      BY <1>2, <2>2
    <3> QED
      BY <1>1, <3>1 DEF MadeUpAtRoot
  <2> QED
    BY <2>1, <2>2
<1> QED
  BY <1>3, <1>4

(* A longer list of keys of the environment says as much of a context. *)
LEMMA KeysGrow ==
  ASSUME NEW x, ValuesAre(x), environment_keys \subseteq environment_keys'
  PROVE  ValuesAre(x)'
BY DEF ValuesAre

(* One more value, under a name the context did not have.                  *)
Adds(c, x, n, v) ==
  /\ n \in Texts /\ n \notin DOMAIN x.available
  /\ IsValue(v) /\ v.name = n /\ v.origin # <<"caller">>
  /\ c.available = Put(x.available, n, v) /\ c.input_origins = x.input_origins

LEMMA OneMoreValue ==
  ASSUME NEW x, NEW c, NEW n, NEW v, Adds(c, x, n, v), ValuesAre(x),
         environment_keys \subseteq environment_keys', v.origin = <<"env">> => n \in environment_keys'
  PROVE  /\ ValuesAre(c)' /\ DOMAIN c.available = DOMAIN x.available \cup {n} /\ c.available[n] = v
         /\ \A m \in DOMAIN x.available : c.available[m] = x.available[m]
<1>1. PICK old, all : old = x.available /\ all = Put(old, n, v)
  OBVIOUS
<1> USE DEF Adds
<1>2. /\ DOMAIN all = DOMAIN old \cup {n} /\ all[n] = v
      /\ \A m \in DOMAIN old : m # n => all[m] = old[m]
  BY <1>1 DEF Put
<1>3. c.available = all /\ x.available = old /\ n \notin DOMAIN old
  BY <1>1
<1>4. IsFiniteSet(DOMAIN all)
  BY <1>2, <1>3, FS_AddElement DEF ValuesAre
<1>5. \A m \in DOMAIN old : m # n /\ all[m] = old[m]
  BY <1>2, <1>3
<1>6. /\ DOMAIN all \subseteq Texts /\ c.input_origins \subseteq DOMAIN all
      /\ n \notin c.input_origins
  BY <1>2, <1>3 DEF ValuesAre
<1>7. ASSUME NEW m \in DOMAIN all
      PROVE  /\ IsValue(all[m]) /\ all[m].name = m
             /\ all[m].origin = <<"caller">> <=> m \in c.input_origins
             /\ all[m].origin = <<"env">> => m \in environment_keys'
  <2>1. CASE m = n
    BY <1>2, <1>6, <2>1
  <2>2. CASE m \in DOMAIN old
    <3>1. all[m] = x.available[m] /\ m \in DOMAIN x.available
      BY <1>3, <1>5, <2>2
    <3> QED
      BY <3>1 DEF ValuesAre
  <2> QED
    BY <1>2, <2>1, <2>2
<1>8. ValuesAre(c)'
  BY <1>3, <1>4, <1>6, <1>7 DEF ValuesAre
<1> QED
  BY <1>2, <1>3, <1>5, <1>8

(* Replacing some fields of a context. *)
LEMMA WithAvailable ==
  ASSUME NEW x, IsContext(x), NEW a, NEW c, c = [x EXCEPT !.available = a]
  PROVE  IsContext(c) /\ c.available = a /\ c.binding_names = x.binding_names
         /\ c.namespace = x.namespace /\ c.input_origins = x.input_origins
<1>1. PICK f1, f2, f3, f4, f5, f6, f7 :
   x = [namespace |-> f1, available |-> f2, binding_names |-> f3, use_keys |-> f4,
        input_origins |-> f5, policy_parameter_index |-> f6, step |-> f7]
  BY DEF IsContext
<1>2. f6 \in Nat /\ f7 \in Steps
  BY <1>1 DEF IsContext
<1>3. c = [namespace |-> f1, available |-> a, binding_names |-> f3, use_keys |-> f4,
        input_origins |-> f5, policy_parameter_index |-> f6, step |-> f7]
  BY <1>1
<1> QED
  BY <1>1, <1>2, <1>3 DEF IsContext

LEMMA WithBindings ==
  ASSUME NEW x, IsContext(x), NEW b, NEW c, c = [x EXCEPT !.binding_names = b]
  PROVE  IsContext(c) /\ c.available = x.available /\ c.binding_names = b
         /\ c.namespace = x.namespace /\ c.input_origins = x.input_origins
<1>1. PICK f1, f2, f3, f4, f5, f6, f7 :
   x = [namespace |-> f1, available |-> f2, binding_names |-> f3, use_keys |-> f4,
        input_origins |-> f5, policy_parameter_index |-> f6, step |-> f7]
  BY DEF IsContext
<1>2. f6 \in Nat /\ f7 \in Steps
  BY <1>1 DEF IsContext
<1>3. c = [namespace |-> f1, available |-> f2, binding_names |-> b, use_keys |-> f4,
        input_origins |-> f5, policy_parameter_index |-> f6, step |-> f7]
  BY <1>1
<1> QED
  BY <1>1, <1>2, <1>3 DEF IsContext

LEMMA WithStep ==
  ASSUME NEW x, IsContext(x), NEW s \in Steps, NEW c, c = [x EXCEPT !.step = s]
  PROVE  IsContext(c) /\ c.available = x.available /\ c.binding_names = x.binding_names
         /\ c.namespace = x.namespace /\ c.input_origins = x.input_origins
<1>1. PICK f1, f2, f3, f4, f5, f6, f7 :
   x = [namespace |-> f1, available |-> f2, binding_names |-> f3, use_keys |-> f4,
        input_origins |-> f5, policy_parameter_index |-> f6, step |-> f7]
  BY DEF IsContext
<1>2. f6 \in Nat /\ f7 \in Steps
  BY <1>1 DEF IsContext
<1>3. c = [namespace |-> f1, available |-> f2, binding_names |-> f3, use_keys |-> f4,
        input_origins |-> f5, policy_parameter_index |-> f6, step |-> s]
  BY <1>1
<1> QED
  BY <1>1, <1>2, <1>3 DEF IsContext

(* c is the innermost context, with more values perhaps.                   *)
Grown(c, top) ==
  /\ IsContext(c) /\ c.namespace = top.namespace /\ c.input_origins = top.input_origins
  /\ DOMAIN top.available \subseteq DOMAIN c.available
  /\ \A n \in DOMAIN top.available : c.available[n] = top.available[n]
  /\ c.namespace = << >> => \A n \in DOMAIN c.available : n \in c.input_origins \/ RootName(n)

(* The innermost context as the invariant knows it.                        *)
LEMMA TopIs ==
  ASSUME BindingIInv, NEW top, top = Top
  PROVE  /\ top = contexts[Len(contexts)] /\ Len(contexts) \in DOMAIN contexts
         /\ IsContext(top) /\ ValuesAre(top) /\ BindingsAre(top) /\ Grown(top, top)
         /\ top.namespace = << >> <=> Len(contexts) = 1
         /\ top.namespace = << >> => DOMAIN contexts = {1} /\ contexts[1] = top
         /\ top.namespace # << >> => IsSpace(top.namespace)
         /\ 1 \in DOMAIN contexts
<1>1. /\ Len(contexts) \in Nat \ {0} /\ DOMAIN contexts = 1..Len(contexts)
      /\ Len(contexts) \in DOMAIN contexts /\ 1 \in DOMAIN contexts
  BY StackIs DEF BindingIInv, ContextsNest
<1>2. top = contexts[Len(contexts)]
  BY DEF Top
<1>3. IsContext(top) /\ ValuesAre(top) /\ BindingsAre(top)
  BY <1>1, <1>2 DEF BindingIInv
<1>4. contexts[1].namespace = << >> /\ (Len(contexts) # 1 => IsSpace(top.namespace))
  BY <1>1, <1>2 DEF BindingIInv, ContextsNest
<1>5. IsSpace(top.namespace) => top.namespace # << >>
  <2>1. PICK w \in Words : w = "s"
    BY NamesAssumption
  <2>2. <<w>> \in Texts
    BY DEF Texts
  <2> QED
    BY <2>2, SpaceIs
<1>6. top.namespace = << >> <=> Len(contexts) = 1
  BY <1>2, <1>4, <1>5
<1>7. Len(contexts) = 1 => DOMAIN contexts = {1} /\ contexts[1] = top
  BY <1>1, <1>2
<1>8. Grown(top, top)
  <2>1. top.namespace = << >> => \A n \in DOMAIN top.available : n \in top.input_origins \/ RootName(n)
    BY <1>6, <1>7 DEF BindingIInv, ContextsNest
  <2> QED
    BY <1>3, <2>1 DEF Grown
<1> QED
  BY <1>1, <1>2, <1>3, <1>4, <1>6, <1>7, <1>8

(* The stack when the innermost context is replaced by a grown one.        *)
LEMMA TopGrows ==
  ASSUME BindingIInv, NEW top, top = Top, NEW c, Grown(c, top), ValuesAre(c)',
         NEW all, all = WithTop(c), contexts' = all,
         names \subseteq names', environment_keys \subseteq environment_keys', counter' = counter
  PROVE  /\ ContextsNest'
         /\ \A i \in DOMAIN all : IsContext(all[i]) /\ ValuesAre(all[i])'
         /\ DOMAIN all = DOMAIN contexts /\ all[Len(contexts)] = c
         /\ \A i \in DOMAIN contexts : i # Len(contexts) => all[i] = contexts[i]
         /\ all[1].input_origins = contexts[1].input_origins
<1>1. IsStack(contexts)
  BY DEF BindingIInv, ContextsNest
<1>2. all = [contexts EXCEPT ![Len(contexts)] = c]
  BY DEF WithTop
<1>3. /\ IsStack(all) /\ DOMAIN all = DOMAIN contexts /\ all[Len(contexts)] = c
      /\ \A i \in DOMAIN contexts : i # Len(contexts) => all[i] = contexts[i]
  BY <1>1, <1>2, TopReplacedIs
<1>4. /\ Len(contexts) \in DOMAIN contexts /\ 1 \in DOMAIN contexts
      /\ top = contexts[Len(contexts)]
      /\ top.namespace = << >> <=> Len(contexts) = 1
      /\ top.namespace # << >> => IsSpace(top.namespace)
  BY TopIs
<1>5. /\ IsContext(c) /\ c.namespace = top.namespace /\ c.input_origins = top.input_origins
      /\ c.namespace = << >> => \A n \in DOMAIN c.available : n \in c.input_origins \/ RootName(n)
  BY DEF Grown
<1>6. ASSUME NEW i \in DOMAIN all
      PROVE  IsContext(all[i]) /\ ValuesAre(all[i])'
  <2>1. CASE i = Len(contexts)
    BY <1>3, <1>5, <2>1
  <2>2. CASE i # Len(contexts)
    <3>1. PICK x : x = contexts[i]
      OBVIOUS
    <3>2. all[i] = x /\ IsContext(x) /\ ValuesAre(x)
      BY <1>3, <2>2, <3>1 DEF BindingIInv
    <3>3. ValuesAre(x)'
      BY <3>2, KeysGrow
    <3> QED
      BY <3>2, <3>3
  <2> QED
    BY <2>1, <2>2
<1>7. all[1].input_origins = contexts[1].input_origins /\ all[1].namespace = contexts[1].namespace
  <2>1. CASE Len(contexts) = 1
    BY <1>3, <1>4, <1>5, <2>1
  <2>2. CASE Len(contexts) # 1
    BY <1>3, <1>4, <2>2
  <2> QED
    BY <2>1, <2>2
<1>8. \A i \in DOMAIN all : i # 1 => IsSpace(all[i].namespace)
  <2> SUFFICES ASSUME NEW i \in DOMAIN all, i # 1
               PROVE  IsSpace(all[i].namespace)
    OBVIOUS
  <2>1. CASE i = Len(contexts)
    BY <1>3, <1>4, <1>5, <2>1
  <2>2. CASE i # Len(contexts)
    BY <1>3, <2>2 DEF BindingIInv, ContextsNest
  <2> QED
    BY <2>1, <2>2
<1>9. \A n \in DOMAIN all[1].available : n \in all[1].input_origins \/ RootName(n)
  <2>1. CASE Len(contexts) = 1
    BY <1>3, <1>4, <1>5, <2>1
  <2>2. CASE Len(contexts) # 1
    BY <1>3, <1>4, <2>2 DEF BindingIInv, ContextsNest
  <2> QED
    BY <2>1, <2>2
<1>10. /\ counter' \in 0..MaxSubqueries /\ all[1].namespace = << >>
       /\ all[1].input_origins \subseteq names'
  BY <1>7 DEF BindingIInv, ContextsNest
<1>11. ContextsNest'
  BY <1>3, <1>8, <1>9, <1>10 DEF ContextsNest
<1> QED
  BY <1>3, <1>6, <1>7, <1>11

(* The name of a binding: the name itself at the root, and in a subquery   *)
(* the name it has already or one of the subquery that nobody has.         *)
LEMMA BoundIs ==
  ASSUME BindingIInv, NEW top, top = Top, NEW c, Grown(c, top), c.binding_names = top.binding_names,
         NEW n \in Texts, n \in DOMAIN c.available, NEW b, b = BoundName(c, n)
  PROVE  /\ n \in DOMAIN c.binding_names =>
              /\ b = c.binding_names[n] /\ b \in DOMAIN params /\ params[b] = c.available[n]
         /\ c.namespace = << >> => b = n
         /\ c.namespace # << >> => SubqueryName(b)
         /\ n \notin DOMAIN c.binding_names /\ c.namespace # << >> => b \notin names
<1>1. /\ BindingsAre(top) /\ (top.namespace # << >> => IsSpace(top.namespace))
  BY TopIs
<1>2. /\ c.namespace = top.namespace
      /\ \A m \in DOMAIN top.available : m \in DOMAIN c.available /\ c.available[m] = top.available[m]
  BY DEF Grown
<1>3. CASE n \in DOMAIN c.binding_names
  <2>1. /\ n \in DOMAIN top.available /\ top.binding_names[n] \in DOMAIN params
        /\ params[top.binding_names[n]] = top.available[n]
        /\ top.namespace = << >> => top.binding_names[n] = n
        /\ top.namespace # << >> => SubqueryName(top.binding_names[n])
    BY <1>1, <1>3 DEF BindingsAre
  <2>2. b = top.binding_names[n]
    BY <1>3 DEF BoundName
  <2> QED
    BY <1>2, <1>3, <2>1, <2>2
<1>4. CASE n \notin DOMAIN c.binding_names /\ c.namespace = << >>
  BY <1>4 DEF BoundName
<1>5. CASE n \notin DOMAIN c.binding_names /\ c.namespace # << >>
  <2>1. PICK own : own = c.namespace \o n
    OBVIOUS
  <2>2. own \in Texts /\ own # << >> /\ own[1] = "s"
    BY <1>1, <1>2, <1>5, <2>1, SpaceIs
  <2>3. IsFiniteSet(names)
    BY DEF BindingIInv, NamesAreReserved
  <2>4. PICK k \in Nat : Underscored(own, names) = Padded(k, own) /\ Padded(k, own) \notin names
    BY <2>2, <2>3, UnderscoredIs
  <2>5. b = Padded(k, own)
    BY <1>5, <2>1, <2>4 DEF BoundName
  <2>6. StartsWith(Padded(k, own), {"s"})
    BY <2>2, PaddedStarts
  <2> QED
    BY <1>5, <2>4, <2>5, <2>6 DEF SubqueryName
<1> QED
  BY <1>3, <1>4, <1>5

(* What a statement depends on, when values of one name and origin join.   *)
Joins(more, n, o, origins) ==
  /\ more # {} /\ DependsOn' = DependsOn \cup more
  /\ \A v \in more : v.name = n /\ v.origin = o
  /\ o = <<"caller">> <=> n \in origins
  /\ o = <<"env">> => n \in environment_keys'
  /\ environment_keys \subseteq environment_keys'
  /\ consumed_inputs' = consumed_inputs \cup ({n} \cap origins)

LEMMA DependsOnMore ==
  ASSUME BindingIInv, NEW more, NEW n, NEW o, NEW origins, Joins(more, n, o, origins)
  PROVE  EnvironmentIsRecorded' /\ ConsumedInputsAreBound'
<1>1. EnvironmentIsRecorded'
  BY DEF BindingIInv, EnvironmentIsRecorded, Joins
<1>2. ConsumedInputsAreBound'
  <2>1. consumed_inputs = {v.name : v \in {w \in DependsOn : w.origin = <<"caller">>}}
    BY DEF BindingIInv, ConsumedInputsAreBound
  <2>2. {v.name : v \in {w \in more : w.origin = <<"caller">>}} = {n} \cap origins
    BY DEF Joins
  <2>3. consumed_inputs' = {v.name : v \in {w \in DependsOn \cup more : w.origin = <<"caller">>}}
    BY <2>1, <2>2 DEF Joins
  <2> QED
    BY <2>3 DEF ConsumedInputsAreBound, Joins
<1> QED
  BY <1>1, <1>2

(* Binding a value the innermost context has.                              *)
LEMMA BindKeeps ==
  ASSUME BindingIInv, NEW top, top = Top, NEW c, Grown(c, top), ValuesAre(c)',
         c.binding_names = top.binding_names, NEW n \in Texts, n \in DOMAIN c.available, Bind(c, n),
         operation' = operation, status' = status, counter' = counter, emptied' = emptied,
         environment_keys \subseteq environment_keys',
         consumed_inputs' = consumed_inputs \cup ({n} \cap c.input_origins)
  PROVE  BindingIInv'
<1>1. PICK b, v : b = BoundName(c, n) /\ v = c.available[n]
  OBVIOUS
<1>2. PICK bindings : bindings = Put(c.binding_names, n, b)
  OBVIOUS
<1>3. PICK d, new : d = [c EXCEPT !.binding_names = bindings] /\ new = Put(params, b, v)
  OBVIOUS
<1>4. PICK all, p : all = WithTop(d) /\ p = Place(b, v, FALSE)
  OBVIOUS
<1>5. /\ contexts' = all /\ names' = names \cup {b} /\ params' = new
      /\ placed' = placed \cup {p}
  BY <1>1, <1>2, <1>3, <1>4 DEF Bind
<1>6. /\ IsContext(d) /\ d.available = c.available /\ d.binding_names = bindings
      /\ d.namespace = c.namespace /\ d.input_origins = c.input_origins
  BY <1>3, WithBindings DEF Grown
<1>7. Grown(d, top) /\ ValuesAre(d)'
  <2>1. Grown(d, top)
    BY <1>6 DEF Grown
  <2>2. ValuesAre(d)'
    BY <1>6 DEF ValuesAre
  <2> QED
    BY <2>1, <2>2
<1>8. names \subseteq names'
  BY <1>5
<1>9. /\ ContextsNest' /\ \A i \in DOMAIN all : IsContext(all[i]) /\ ValuesAre(all[i])'
      /\ DOMAIN all = DOMAIN contexts /\ all[Len(contexts)] = d
      /\ \A i \in DOMAIN contexts : i # Len(contexts) => all[i] = contexts[i]
      /\ all[1].input_origins = contexts[1].input_origins
  BY <1>4, <1>5, <1>7, <1>8, TopGrows
<1>10. /\ Len(contexts) \in DOMAIN contexts /\ 1 \in DOMAIN contexts /\ BindingsAre(top)
       /\ top = contexts[Len(contexts)] /\ (top.namespace = << >> <=> Len(contexts) = 1)
       /\ top.namespace = << >> => DOMAIN contexts = {1} /\ contexts[1] = top
  BY TopIs
<1>11. c.namespace = top.namespace /\ c.input_origins = top.input_origins
  BY DEF Grown
<1>12. /\ n \in DOMAIN c.binding_names =>
            b = c.binding_names[n] /\ b \in DOMAIN params /\ params[b] = v
       /\ c.namespace = << >> => b = n
       /\ c.namespace # << >> => SubqueryName(b)
       /\ n \notin DOMAIN c.binding_names /\ c.namespace # << >> => b \notin names
  BY <1>1, BoundIs
<1>13. /\ DOMAIN new = DOMAIN params \cup {b} /\ new[b] = v
       /\ \A x \in DOMAIN params : x # b => new[x] = params[x]
  BY <1>3 DEF Put
<1>14. /\ DOMAIN bindings = DOMAIN c.binding_names \cup {n} /\ bindings[n] = b
       /\ \A x \in DOMAIN c.binding_names : x # n => bindings[x] = c.binding_names[x]
  BY <1>2 DEF Put
<1>15. DOMAIN params \subseteq names /\ DOMAIN params = {q.bound : q \in placed}
  BY DEF BindingIInv, NamesAreReserved
<1>16. \A x \in DOMAIN params :
         \/ new[x] = params[x]
         \/ c.namespace = << >> /\ x = n /\ n \notin DOMAIN c.binding_names
  <2> TAKE x \in DOMAIN params
  <2>1. CASE x # b
    BY <1>13, <2>1
  <2>2. CASE x = b /\ n \in DOMAIN c.binding_names
    BY <1>12, <1>13, <2>2
  <2>3. CASE x = b /\ n \notin DOMAIN c.binding_names
    BY <1>12, <1>15, <2>3
  <2> QED
    BY <2>1, <2>2, <2>3
<1>17. v = c.available[n] /\ p.bound = b /\ p.value = v /\ p.collection = FALSE
  BY <1>1, <1>4 DEF Place
<1>18. /\ v.name = n /\ (v.origin = <<"caller">> <=> n \in c.input_origins)
       /\ v.origin = <<"env">> => v.name \in environment_keys'
  BY <1>17 DEF ValuesAre
<1>19. NamesAreReserved'
  <2>1. IsFiniteSet(names \cup {b}) /\ IsFiniteSet(placed \cup {p})
    BY FS_AddElement DEF BindingIInv, NamesAreReserved
  <2>2. DOMAIN new = {q.bound : q \in placed \cup {p}} /\ DOMAIN new \subseteq names \cup {b}
    BY <1>13, <1>15, <1>17
  <2> QED
    BY <1>5, <2>1, <2>2 DEF NamesAreReserved
<1>20. \A q \in placed \cup {p} : new[q.bound] = q.value \/ (q.collection /\ MadeUpAtRoot(q.bound))
  <2> SUFFICES ASSUME NEW q \in placed
               PROVE  new[q.bound] = q.value \/ (q.collection /\ MadeUpAtRoot(q.bound))
    BY <1>13, <1>17
  <2>1. q.bound \in DOMAIN params
    BY <1>15
  <2>2. CASE new[q.bound] = params[q.bound]
    BY <2>2 DEF BindingIInv, PlacesAreKept
  <2>3. CASE c.namespace = << >> /\ q.bound = n /\ n \notin DOMAIN c.binding_names
    <3>1. n \notin DOMAIN contexts[1].binding_names
      BY <1>10, <1>11, <2>3
    <3>2. n \notin contexts[1].input_origins /\ (q.collection \/ SubqueryName(n))
      BY <2>3, <3>1 DEF BindingIInv, PlacesAre
    <3>3. n \notin c.input_origins
      BY <1>10, <1>11, <2>3, <3>2
    <3>4. RootName(n)
      BY <2>3, <3>3 DEF Grown
    <3> QED
      BY <2>3, <3>2, <3>4, StartsOnce
  <2> QED
    BY <1>16, <2>1, <2>2, <2>3
<1>21. \A i \in DOMAIN all : BindingsAre(all[i])'
  <2> SUFFICES ASSUME NEW i \in DOMAIN all
               PROVE  BindingsAre(all[i])'
    OBVIOUS
  <2>1. CASE i # Len(contexts)
    <3>1. c.namespace # << >>
      BY <1>9, <1>10, <1>11, <2>1
    <3>2. PICK x : x = contexts[i]
      OBVIOUS
    <3>3. BindingsAre(x) /\ all[i] = x
      BY <1>9, <2>1, <3>2 DEF BindingIInv
    <3>4. \A y \in DOMAIN params : y \in DOMAIN new /\ new[y] = params[y]
      BY <1>13, <1>16, <3>1
    <3>5. BindingsAre(x)'
      BY <1>5, <3>3, <3>4 DEF BindingsAre
    <3> QED
      BY <3>3, <3>5
  <2>2. CASE i = Len(contexts)
    <3>1. all[i] = d
      BY <1>9, <2>2
    <3>2. ASSUME NEW m \in DOMAIN bindings
          PROVE  /\ m \in DOMAIN c.available /\ bindings[m] \in DOMAIN new
                 /\ new[bindings[m]] = c.available[m]
                 /\ c.namespace = << >> => bindings[m] = m
                 /\ c.namespace # << >> => SubqueryName(bindings[m])
      <4>1. CASE m = n
        BY <1>12, <1>13, <1>14, <1>17, <4>1
      <4>2. CASE m # n
        <5>1. m \in DOMAIN top.binding_names /\ bindings[m] = top.binding_names[m]
          BY <1>14, <4>2
        <5>2. /\ m \in DOMAIN top.available /\ bindings[m] \in DOMAIN params
              /\ params[bindings[m]] = top.available[m]
              /\ c.namespace = << >> => bindings[m] = m
              /\ c.namespace # << >> => SubqueryName(bindings[m])
          BY <1>10, <1>11, <5>1 DEF BindingsAre
        <5>3. m \in DOMAIN c.available /\ c.available[m] = top.available[m]
          BY <5>2 DEF Grown
        <5>4. new[bindings[m]] = params[bindings[m]]
          BY <1>16, <4>2, <5>2
        <5> QED
          BY <1>13, <5>2, <5>3, <5>4
      <4> QED
        BY <4>1, <4>2
    <3>3. BindingsAre(d)'
      BY <1>5, <1>6, <3>2 DEF BindingsAre
    <3> QED
      BY <3>1, <3>3
  <2> QED
    BY <2>1, <2>2
<1>22. \A q \in placed \cup {p} :
         /\ q.collection \/ SubqueryName(q.bound) \/ q.bound \in DOMAIN all[1].binding_names
         /\ q.bound \in all[1].input_origins => q.bound \in DOMAIN all[1].binding_names
  <2>1. /\ DOMAIN contexts[1].binding_names \subseteq DOMAIN all[1].binding_names
        /\ c.namespace = << >> => n \in DOMAIN all[1].binding_names
    <3>1. CASE Len(contexts) = 1
      BY <1>6, <1>9, <1>10, <1>14, <3>1
    <3>2. CASE Len(contexts) # 1
      BY <1>9, <1>10, <1>11, <3>2
    <3> QED
      BY <3>1, <3>2
  <2>2. \A q \in placed :
          /\ q.collection \/ SubqueryName(q.bound) \/ q.bound \in DOMAIN all[1].binding_names
          /\ q.bound \in all[1].input_origins => q.bound \in DOMAIN all[1].binding_names
    BY <1>9, <2>1 DEF BindingIInv, PlacesAre
  <2>3. SubqueryName(b) \/ b \in DOMAIN all[1].binding_names
    BY <1>12, <2>1
  <2>4. b \in all[1].input_origins => b \in DOMAIN all[1].binding_names
    <3>1. CASE c.namespace = << >>
      BY <1>12, <2>1, <3>1
    <3>2. CASE b \in DOMAIN params
      <4>1. PICK q \in placed : q.bound = b
        BY <1>15, <3>2
      <4> QED
        BY <2>2, <4>1
    <3>3. CASE b \notin names
      BY <1>9, <3>3 DEF BindingIInv, ContextsNest
    <3> QED
      BY <1>12, <3>1, <3>2, <3>3
  <2> QED
    BY <1>17, <2>2, <2>3, <2>4
<1>23. EnvironmentIsRecorded' /\ ConsumedInputsAreBound'
  <2>1. DependsOn' = DependsOn \cup {v}
    BY <1>5, <1>17 DEF DependsOn
  <2>2. Joins({v}, n, v.origin, c.input_origins)
    BY <1>18, <2>1 DEF Joins
  <2> QED
    BY <2>2, DependsOnMore
<1>24. PlacesAre' /\ PlacesAreKept'
  BY <1>5, <1>20, <1>22 DEF PlacesAre, PlacesAreKept
<1>25. operation' \in Operations /\ status' \in {"compiling", "compiled", "refused"}
  BY DEF BindingIInv
<1> QED
  BY <1>5, <1>9, <1>19, <1>21, <1>23, <1>24, <1>25 DEF BindingIInv

LEMMA OriginIs ==
  ASSUME NEW w, NEW s \in Texts
  PROVE  (<<w>> \o s)[1] = w
<1>1. PICK S, o : S = Words \cup {w} /\ o = <<w>>
  OBVIOUS
<1>2. o \in Seq(S) /\ Len(o) = 1 /\ o[1] = w
  BY <1>1
<1>3. Len(s) \in Nat /\ s \in Seq(S)
  <2>1. Len(s) \in Nat /\ s \in [1..Len(s) -> Words]
    BY LenProperties DEF Texts
  <2>2. s \in [1..Len(s) -> S]
    BY <1>1, <2>1
  <2> QED
    BY <2>1, <2>2, SeqDef
<1>4. \A i \in 1..(Len(o) + Len(s)) : (o \o s)[i] = IF i <= Len(o) THEN o[i] ELSE s[i - Len(o)]
  BY <1>2, <1>3, ConcatProperties
<1>5. 1 \in 1..(Len(o) + Len(s)) /\ 1 <= Len(o)
  BY <1>2, <1>3
<1> QED
  BY <1>1, <1>2, <1>4, <1>5

(* The context after a name was looked up.                                 *)
LEMMA ResolvedIs ==
  ASSUME BindingIInv, NEW top, top = Top, NEW n \in Names, Resolves(top, n), ResolveEffects(top, n),
         NEW c, c = Resolved(top, n)
  PROVE  /\ Grown(c, top) /\ ValuesAre(c)' /\ c.binding_names = top.binding_names
         /\ n \in Texts /\ n \in DOMAIN c.available /\ environment_keys \subseteq environment_keys'
         /\ consumed_inputs' = consumed_inputs \cup ({n} \cap c.input_origins)
<1>1. IsContext(top) /\ ValuesAre(top) /\ Grown(top, top)
  BY TopIs
<1>2. n \in Texts /\ n # << >>
  BY NamesAssumption
<1>3. /\ environment_keys \subseteq environment_keys'
      /\ consumed_inputs' = consumed_inputs \cup ({n} \cap top.input_origins)
      /\ ReadsEnvironment(top, n) => n \in environment_keys'
  BY DEF ResolveEffects
<1>4. CASE n \in DOMAIN top.available
  <2>1. c = top
    BY <1>4 DEF Resolved, ReadsEnvironment
  <2> QED
    BY <1>1, <1>2, <1>3, <1>4, <2>1, KeysGrow
<1>5. CASE n \notin DOMAIN top.available
  <2>1. IsEnvironmentName(n) /\ ReadsEnvironment(top, n)
    BY <1>5 DEF Resolves, ReadsEnvironment
  <2>2. PICK v, a : v = Whole(<<"env">>, n) /\ a = Put(top.available, n, v)
    OBVIOUS
  <2>3. c = [top EXCEPT !.available = a]
    BY <2>1, <2>2 DEF Resolved
  <2>4. /\ IsContext(c) /\ c.available = a /\ c.binding_names = top.binding_names
        /\ c.namespace = top.namespace /\ c.input_origins = top.input_origins
    BY <1>1, <2>3, WithAvailable
  <2>5. IsValue(v) /\ v.name = n /\ v.origin # <<"caller">> /\ n \in environment_keys'
    <3>1. IsValue(v) /\ v.name = n /\ v.origin = <<"env">>
      BY <2>2, WholeIs
    <3>2. <<"env">> # <<"caller">>
      OBVIOUS
    <3> QED
      BY <1>3, <2>1, <3>1, <3>2
  <2>6. /\ ValuesAre(c)' /\ DOMAIN c.available = DOMAIN top.available \cup {n}
        /\ \A m \in DOMAIN top.available : c.available[m] = top.available[m]
    <3>1. Adds(c, top, n, v)
      BY <1>2, <1>5, <2>2, <2>4, <2>5 DEF Adds
    <3> QED
      BY <1>1, <1>3, <2>5, <3>1, OneMoreValue
  <2>7. RootName(n)
    <3>1. Len(n) \in Nat /\ Len(n) # 0 /\ DOMAIN n = 1..Len(n)
      BY <1>2, LenProperties, EmptySeq DEF Texts
    <3>2. 1 \in DOMAIN n /\ n[1] = "env" /\ 1..(1 - 1) = {}
      BY <2>1, <3>1 DEF IsEnvironmentName
    <3> QED
      BY <3>2 DEF RootName, StartsWith
  <2>8. Grown(c, top)
    BY <1>1, <2>4, <2>6, <2>7 DEF Grown
  <2> QED
    BY <1>2, <1>3, <2>4, <2>6, <2>8
<1> QED
  BY <1>4, <1>5

LEMMA ScalarIsBound ==
  ASSUME BindingIInv, NEW n \in Names, BindScalar(n)
  PROVE  BindingIInv'
<1>1. PICK top, c : top = Top /\ c = Resolved(top, n)
  OBVIOUS
<1>2. /\ Resolves(top, n) /\ ResolveEffects(top, n) /\ Bind(c, n)
      /\ operation' = operation /\ status' = status /\ counter' = counter /\ emptied' = emptied
  BY <1>1 DEF BindScalar
<1>3. /\ Grown(c, top) /\ ValuesAre(c)' /\ c.binding_names = top.binding_names
      /\ n \in Texts /\ n \in DOMAIN c.available /\ environment_keys \subseteq environment_keys'
      /\ consumed_inputs' = consumed_inputs \cup ({n} \cap c.input_origins)
  BY <1>1, <1>2, ResolvedIs
<1> QED
  BY <1>1, <1>2, <1>3, BindKeeps

(* A value under a name that is made up: an assigned one, or a policy's.   *)
LEMMA MadeUpIsBound ==
  ASSUME BindingIInv, NEW top, top = Top, NEW w \in {"value", "policy"}, NEW i \in Nat,
         NEW n, n = Underscored(<<w>> \o Number(i), DOMAIN top.available),
         NEW v, IsValue(v), v.name = n, v.origin # <<"caller">>, v.origin # <<"env">>,
         NEW c, IsContext(c), c.available = Put(top.available, n, v),
         c.binding_names = top.binding_names, c.namespace = top.namespace,
         c.input_origins = top.input_origins, Bind(c, n),
         operation' = operation, status' = status, counter' = counter, emptied' = emptied,
         environment_keys' = environment_keys, consumed_inputs' = consumed_inputs
  PROVE  BindingIInv'
<1>1. IsContext(top) /\ ValuesAre(top) /\ Grown(top, top)
  BY TopIs
<1>2. PICK base : base = <<w>> \o Number(i)
  OBVIOUS
<1>3. base \in Texts /\ base # << >> /\ base[1] = w
  <2>1. w \in Words
    BY NamesAssumption
  <2> QED
    BY <1>2, <2>1, NumberedIs
<1>4. IsFiniteSet(DOMAIN top.available) /\ top.input_origins \subseteq DOMAIN top.available
  BY <1>1 DEF ValuesAre
<1>5. PICK k \in Nat : n = Padded(k, base) /\ n \notin DOMAIN top.available
  BY <1>2, <1>3, <1>4, UnderscoredIs
<1>6. n \in Texts
  BY <1>3, <1>5, PaddedIs
<1>7. RootName(n)
  <2>1. base[1] \in {"env", "value", "policy"}
    BY <1>3
  <2> QED
    BY <1>3, <1>5, <2>1, PaddedStarts DEF RootName
<1>8. /\ ValuesAre(c)' /\ DOMAIN c.available = DOMAIN top.available \cup {n}
      /\ \A m \in DOMAIN top.available : c.available[m] = top.available[m]
  <2>1. Adds(c, top, n, v)
    BY <1>5, <1>6 DEF Adds
  <2> QED
    BY <1>1, <2>1, OneMoreValue
<1>9. Grown(c, top)
  BY <1>1, <1>7, <1>8 DEF Grown
<1>10. {n} \cap c.input_origins = {}
  BY <1>4, <1>5
<1>11. /\ n \in DOMAIN c.available /\ environment_keys \subseteq environment_keys'
       /\ consumed_inputs' = consumed_inputs \cup ({n} \cap c.input_origins)
  BY <1>8, <1>10
<1> QED
  BY <1>6, <1>8, <1>9, <1>11, BindKeeps

LEMMA ValueIsAssigned ==
  ASSUME BindingIInv, AssignValue
  PROVE  BindingIInv'
<1>1. PICK top, i : top = Top /\ i = Cardinality(placed)
  OBVIOUS
<1>2. PICK n : n = Underscored(<<"value">> \o Number(i), DOMAIN top.available)
  OBVIOUS
<1>3. PICK v, a : v = Whole(<<"value">>, n) /\ a = Put(top.available, n, v)
  OBVIOUS
<1>4. PICK c : c = [top EXCEPT !.available = a]
  OBVIOUS
<1>5. /\ Bind(c, n) /\ operation' = operation /\ status' = status /\ counter' = counter /\ emptied' = emptied
      /\ environment_keys' = environment_keys /\ consumed_inputs' = consumed_inputs
  BY <1>1, <1>2, <1>3, <1>4 DEF AssignValue
<1>6. i \in Nat /\ "value" \in {"value", "policy"}
  BY <1>1, FS_CardinalityType DEF BindingIInv, NamesAreReserved
<1>7. IsValue(v) /\ v.name = n /\ v.origin # <<"caller">> /\ v.origin # <<"env">>
  <2>1. IsValue(v) /\ v.name = n /\ v.origin = <<"value">>
    BY <1>3, WholeIs
  <2>2. <<"value">> # <<"caller">> /\ <<"value">> # <<"env">>
    OBVIOUS
  <2> QED
    BY <2>1, <2>2
<1>8. IsContext(top)
  BY <1>1, TopIs
<1>9. /\ IsContext(c) /\ c.available = a /\ c.binding_names = top.binding_names
      /\ c.namespace = top.namespace /\ c.input_origins = top.input_origins
  BY <1>4, <1>8, WithAvailable
<1> QED
  BY <1>1, <1>2, <1>3, <1>5, <1>6, <1>7, <1>9, MadeUpIsBound

LEMMA PolicyIsBound ==
  ASSUME BindingIInv, BindPolicy
  PROVE  BindingIInv'
<1>1. PICK top, i : top = Top /\ i = top.policy_parameter_index
  OBVIOUS
<1>2. PICK n : n = Underscored(<<"policy">> \o Number(i), DOMAIN top.available)
  OBVIOUS
<1>3. PICK v, a : v = Whole(<<"policy">> \o top.namespace, n) /\ a = Put(top.available, n, v)
  OBVIOUS
<1>4. PICK c : c = [top EXCEPT !.available = a, !.policy_parameter_index = i + 1, !.step = "policies"]
  OBVIOUS
<1>5. /\ Bind(c, n) /\ operation' = operation /\ status' = status /\ counter' = counter /\ emptied' = emptied
      /\ environment_keys' = environment_keys /\ consumed_inputs' = consumed_inputs
  BY <1>1, <1>2, <1>3, <1>4 DEF BindPolicy
<1>6. IsContext(top) /\ (top.namespace # << >> => IsSpace(top.namespace))
  BY <1>1, TopIs
<1>7. i \in Nat /\ i + 1 \in Nat /\ "policies" \in Steps /\ "policy" \in {"value", "policy"}
  BY <1>1, <1>6 DEF IsContext, Steps
<1>8. IsValue(v) /\ v.name = n /\ v.origin # <<"caller">> /\ v.origin # <<"env">>
  <2>1. IsValue(v) /\ v.name = n /\ v.origin = <<"policy">> \o top.namespace
    BY <1>3, WholeIs
  <2>2. top.namespace \in Texts
    <3>1. << >> \in Texts
      BY EmptySeq DEF Texts
    <3> QED
      BY <1>6, <3>1, SpaceIs
  <2>3. v.origin[1] = "policy"
    BY <2>1, <2>2, OriginIs
  <2>4. <<"caller">>[1] = "caller" /\ <<"env">>[1] = "env" /\ "policy" # "caller" /\ "policy" # "env"
    OBVIOUS
  <2> QED
    BY <2>1, <2>3, <2>4
<1>9. /\ IsContext(c) /\ c.available = a /\ c.binding_names = top.binding_names
      /\ c.namespace = top.namespace /\ c.input_origins = top.input_origins
  <2>1. PICK f1, f2, f3, f4, f5, f6, f7 :
     top = [namespace |-> f1, available |-> f2, binding_names |-> f3, use_keys |-> f4,
            input_origins |-> f5, policy_parameter_index |-> f6, step |-> f7]
    BY <1>6 DEF IsContext
  <2>2. c = [namespace |-> f1, available |-> a, binding_names |-> f3, use_keys |-> f4,
             input_origins |-> f5, policy_parameter_index |-> i + 1, step |-> "policies"]
    BY <1>4, <2>1
  <2> QED
    BY <1>7, <2>1, <2>2 DEF IsContext
<1> QED
  BY <1>1, <1>2, <1>3, <1>5, <1>7, <1>8, <1>9, MadeUpIsBound

(* The names of the members: free, and different.                          *)
LEMMA BasesAre ==
  ASSUME BindingIInv, NEW top, top = Top, NEW n \in Texts, NEW size \in Nat,
         NEW bases, bases = MemberNames(top.namespace \o n, names, size)
  PROVE  /\ \A i \in 1..size : bases[i] \notin names
         /\ \A i, j \in 1..size : bases[i] = bases[j] => i = j
<1>1. PICK base : base = top.namespace \o n
  OBVIOUS
<1>2. base \in Texts
  <2>1. CASE top.namespace = << >>
    <3>1. << >> \o n = n
      BY ConcatEmptySeq DEF Texts
    <3> QED
      BY <1>1, <2>1, <3>1
  <2>2. CASE top.namespace # << >>
    <3>1. IsSpace(top.namespace)
      BY <2>2, TopIs
    <3> QED
      BY <1>1, <3>1, SpaceIs
  <2> QED
    BY <2>1, <2>2
<1>3. IsFiniteSet(names)
  BY DEF BindingIInv, NamesAreReserved
<1> QED
  BY <1>1, <1>2, <1>3, MemberNamesAre

LEMMA CollectionIsBound ==
  ASSUME BindingIInv, NEW n \in Names, BindCollection(n)
  PROVE  BindingIInv'
<1>1. PICK top, c : top = Top /\ c = Resolved(top, n)
  OBVIOUS
<1>2. PICK value, size, bases :
        /\ value = c.available[n] /\ size = Size[value.name]
        /\ bases = MemberNames(top.namespace \o n, names, size)
  OBVIOUS
<1>3. PICK members : members = MembersOf(value, bases, size)
  OBVIOUS
<1>4. PICK new, more, all, gone :
        /\ new = Over(members, params) /\ all = WithTop(c)
        /\ more = {Place(bases[i], Member(value, i), TRUE) : i \in 1..size}
        /\ gone = IF size = 0 THEN {value} ELSE {}
  OBVIOUS
<1>5. /\ Resolves(top, n) /\ ResolveEffects(top, n)
      /\ operation' = operation /\ status' = status /\ counter' = counter
      /\ names' = names \cup DOMAIN members /\ params' = new
      /\ placed' = placed \cup more /\ contexts' = all /\ emptied' = emptied \cup gone
      /\ value.name \in Collections
  BY <1>1, <1>2, <1>3, <1>4 DEF BindCollection
<1>6. size \in Nat
  BY <1>2, <1>5, NamesAssumption
<1>7. /\ Grown(c, top) /\ ValuesAre(c)' /\ c.binding_names = top.binding_names
      /\ n \in Texts /\ n \in DOMAIN c.available /\ environment_keys \subseteq environment_keys'
      /\ consumed_inputs' = consumed_inputs \cup ({n} \cap c.input_origins)
  BY <1>1, <1>5, ResolvedIs
<1>8. names \subseteq names'
  BY <1>5
<1>9. /\ ContextsNest' /\ \A i \in DOMAIN all : IsContext(all[i]) /\ ValuesAre(all[i])'
      /\ DOMAIN all = DOMAIN contexts /\ all[Len(contexts)] = c
      /\ \A i \in DOMAIN contexts : i # Len(contexts) => all[i] = contexts[i]
      /\ all[1].input_origins = contexts[1].input_origins
  BY <1>1, <1>4, <1>5, <1>7, <1>8, TopGrows
<1>10. /\ \A i \in 1..size : bases[i] \notin names
       /\ \A i, j \in 1..size : bases[i] = bases[j] => i = j
  BY <1>1, <1>2, <1>7, <1>6, BasesAre
<1>11. /\ DOMAIN members = {bases[i] : i \in 1..size} /\ IsFiniteSet(DOMAIN members)
       /\ \A i \in 1..size : members[bases[i]] = Member(value, i)
  <2>1. Expands(members, bases, value, size)
    BY <1>3, <1>10 DEF Expands
  <2>2. Expanded(members, bases, value, size)
    BY <1>6, <2>1, MembersAre
  <2> QED
    BY <2>2 DEF Expanded
<1>12. /\ DOMAIN new = DOMAIN members \cup DOMAIN params
       /\ \A b \in DOMAIN members : new[b] = members[b]
       /\ \A b \in DOMAIN params \ DOMAIN members : new[b] = params[b]
  BY <1>4 DEF Over
<1>13. DOMAIN params \subseteq names /\ DOMAIN params = {q.bound : q \in placed}
  BY DEF BindingIInv, NamesAreReserved
<1>14. \A b \in DOMAIN params : b \in DOMAIN new /\ new[b] = params[b]
  BY <1>10, <1>11, <1>12, <1>13
<1>15. \A i \in 1..size : bases[i] \in DOMAIN new /\ new[bases[i]] = Member(value, i)
  BY <1>11, <1>12
<1>16. /\ IsValue(value) /\ value.name = n /\ (value.origin = <<"caller">> <=> n \in c.input_origins)
       /\ value.origin = <<"env">> => n \in environment_keys'
  BY <1>2, <1>7 DEF ValuesAre
<1>17. ASSUME NEW q \in more
       PROVE  /\ \E i \in 1..size : q.bound = bases[i] /\ q.value = Member(value, i)
              /\ q.collection = TRUE /\ q.bound \notin names /\ new[q.bound] = q.value
              /\ q.value.name = n /\ q.value.origin = value.origin
  <2>1. PICK i \in 1..size : q = Place(bases[i], Member(value, i), TRUE)
    BY <1>4
  <2>2. q.bound = bases[i] /\ q.value = Member(value, i) /\ q.collection = TRUE
    BY <2>1 DEF Place
  <2>3. Member(value, i).origin = value.origin /\ Member(value, i).name = value.name
    BY <1>16, MemberIs
  <2> QED
    BY <1>10, <1>15, <1>16, <2>2, <2>3
<1>18. EnvironmentIsRecorded' /\ ConsumedInputsAreBound'
  <2>1. PICK joins : joins = {q.value : q \in more} \cup gone
    OBVIOUS
  <2>2. DependsOn' = DependsOn \cup joins
    BY <1>5, <2>1 DEF DependsOn
  <2>3. \A v \in joins : v.name = n /\ v.origin = value.origin
    BY ZenonT(30), <1>4, <1>16, <1>17, <2>1
  <2>4. joins # {}
    <3>1. CASE size = 0
      BY <1>4, <2>1, <3>1
    <3>2. CASE size # 0
      <4>1. 1 \in 1..size
        BY <1>6, <3>2
      <4>2. Place(bases[1], Member(value, 1), TRUE) \in more
        BY <1>4, <4>1
      <4> QED
        BY <2>1, <4>2
    <3> QED
      BY <3>1, <3>2
  <2>5. Joins(joins, n, value.origin, c.input_origins)
    BY <1>7, <1>16, <2>2, <2>3, <2>4 DEF Joins
  <2> QED
    BY <2>5, DependsOnMore
<1>19. NamesAreReserved'
  <2>1. IsFiniteSet(more)
    <3> DEFINE g == [i \in 1..size |-> Place(bases[i], Member(value, i), TRUE)]
    <3>1. g \in Surjection(1..size, more)
      BY <1>4 DEF Surjection
    <3>2. IsFiniteSet(1..size)
      <4>1. size \in Int
        BY <1>6
      <4>2. \A z \in Int : IsFiniteSet(1..z)
        BY FS_Interval
      <4> QED
        BY <4>1, <4>2
    <3> HIDE DEF g
    <3> QED
      BY <3>1, <3>2, FS_Surjection
  <2>2. IsFiniteSet(names \cup DOMAIN members) /\ IsFiniteSet(placed \cup more)
    BY <1>11, <2>1, FS_Union DEF BindingIInv, NamesAreReserved
  <2>3. {q.bound : q \in more} = DOMAIN members
    <3>1. \A q \in more : q.bound \in DOMAIN members
      BY <1>11, <1>17
    <3>2. ASSUME NEW b \in DOMAIN members
          PROVE  \E q \in more : q.bound = b
      <4>1. PICK i \in 1..size : b = bases[i]
        BY <1>11
      <4>2. PICK q \in more : q = Place(bases[i], Member(value, i), TRUE)
        BY <1>4
      <4> QED
        BY <4>1, <4>2 DEF Place
    <3> QED
      BY <3>1, <3>2
  <2>4. DOMAIN new = {q.bound : q \in placed \cup more} /\ DOMAIN new \subseteq names \cup DOMAIN members
    BY <1>12, <1>13, <2>3
  <2> QED
    BY <1>5, <2>2, <2>4 DEF NamesAreReserved
<1>20. \A q \in placed \cup more : new[q.bound] = q.value \/ (q.collection /\ MadeUpAtRoot(q.bound))
  <2>1. ASSUME NEW q \in placed
        PROVE  new[q.bound] = q.value \/ (q.collection /\ MadeUpAtRoot(q.bound))
    <3>1. new[q.bound] = params[q.bound]
      BY <1>13, <1>14
    <3> QED
      BY <3>1 DEF BindingIInv, PlacesAreKept
  <2> QED
    BY <1>17, <2>1
<1>21. \A i \in DOMAIN all : BindingsAre(all[i])'
  <2> SUFFICES ASSUME NEW i \in DOMAIN all
               PROVE  BindingsAre(all[i])'
    OBVIOUS
  <2>1. CASE i # Len(contexts)
    <3>1. PICK x : x = contexts[i]
      OBVIOUS
    <3>2. BindingsAre(x) /\ all[i] = x
      BY <1>9, <2>1, <3>1 DEF BindingIInv
    <3>3. BindingsAre(x)'
      BY <1>5, <1>14, <3>2 DEF BindingsAre
    <3> QED
      BY <3>2, <3>3
  <2>2. CASE i = Len(contexts)
    <3>1. BindingsAre(top)
      BY <1>1, TopIs
    <3>2. /\ c.namespace = top.namespace /\ c.binding_names = top.binding_names
          /\ \A m \in DOMAIN top.available : m \in DOMAIN c.available /\ c.available[m] = top.available[m]
      BY <1>7 DEF Grown
    <3>3. BindingsAre(c)'
      BY <1>5, <1>14, <3>1, <3>2 DEF BindingsAre
    <3> QED
      BY <1>9, <2>2, <3>3
  <2> QED
    BY <2>1, <2>2
<1>22. \A q \in placed \cup more :
         /\ q.collection \/ SubqueryName(q.bound) \/ q.bound \in DOMAIN all[1].binding_names
         /\ q.bound \in all[1].input_origins => q.bound \in DOMAIN all[1].binding_names
  <2>1. all[1].binding_names = contexts[1].binding_names
    <3>1. /\ 1 \in DOMAIN contexts /\ top = contexts[Len(contexts)]
      BY <1>1, TopIs
    <3> QED
      BY <1>7, <1>9, <3>1
  <2>2. \A q \in more : q.collection /\ q.bound \notin all[1].input_origins
    BY <1>9, <1>17 DEF BindingIInv, ContextsNest
  <2> QED
    BY <1>9, <2>1, <2>2 DEF BindingIInv, PlacesAre
<1>23. PlacesAre' /\ PlacesAreKept'
  BY <1>5, <1>20, <1>22 DEF PlacesAre, PlacesAreKept
<1>24. operation' \in Operations /\ status' \in {"compiling", "compiled", "refused"}
  BY <1>5 DEF BindingIInv
<1> QED
  BY <1>5, <1>9, <1>18, <1>19, <1>21, <1>23, <1>24 DEF BindingIInv

(* Only the stack changes: the root goes on as it was.                     *)
LEMMA OnlyContextsChange ==
  ASSUME BindingIInv, NEW all, contexts' = all, ContextsNest', IsFiniteSet(names'),
         \A i \in DOMAIN all : IsContext(all[i]) /\ ValuesAre(all[i]) /\ BindingsAre(all[i]),
         all[1].input_origins = contexts[1].input_origins,
         all[1].binding_names = contexts[1].binding_names,
         names \subseteq names', params' = params, placed' = placed, emptied' = emptied,
         operation' = operation, status' = status, environment_keys' = environment_keys, consumed_inputs' = consumed_inputs
  PROVE  BindingIInv'
<1>1. \A i \in DOMAIN all : IsContext(all[i]) /\ ValuesAre(all[i])' /\ BindingsAre(all[i])'
  <2> TAKE i \in DOMAIN all
  <2>1. ValuesAre(all[i])'
    BY DEF ValuesAre
  <2>2. BindingsAre(all[i])'
    BY DEF BindingsAre
  <2> QED
    BY <2>1, <2>2
<1>2. NamesAreReserved'
  BY DEF BindingIInv, NamesAreReserved
<1>3. PlacesAre'
  BY DEF BindingIInv, PlacesAre
<1>4. PlacesAreKept' /\ EnvironmentIsRecorded' /\ ConsumedInputsAreBound'
  BY DEF BindingIInv, PlacesAreKept, EnvironmentIsRecorded, ConsumedInputsAreBound, DependsOn
<1> QED
  BY <1>1, <1>2, <1>3, <1>4 DEF BindingIInv

LEMMA NextStepKeeps ==
  ASSUME BindingIInv, NextStep
  PROVE  BindingIInv'
<1>1. PICK top : top = Top
  OBVIOUS
<1>2. PICK s \in Steps : contexts' = WithTop([top EXCEPT !.step = s])
  <2>1. {"text", "returning"} \subseteq Steps
    BY DEF Steps
  <2> QED
    BY <1>1, <2>1 DEF NextStep
<1>3. PICK c, all : c = [top EXCEPT !.step = s] /\ all = WithTop(c)
  OBVIOUS
<1>4. /\ contexts' = all /\ names' = names /\ params' = params /\ placed' = placed
      /\ operation' = operation /\ status' = status /\ counter' = counter
      /\ environment_keys' = environment_keys /\ consumed_inputs' = consumed_inputs
      /\ emptied' = emptied
  BY <1>2, <1>3 DEF NextStep
<1>5. /\ IsContext(top) /\ ValuesAre(top) /\ BindingsAre(top) /\ Grown(top, top)
      /\ 1 \in DOMAIN contexts /\ top = contexts[Len(contexts)]
  BY <1>1, TopIs
<1>6. /\ IsContext(c) /\ c.available = top.available /\ c.binding_names = top.binding_names
      /\ c.namespace = top.namespace /\ c.input_origins = top.input_origins
  BY <1>3, <1>5, WithStep
<1>7. Grown(c, top) /\ ValuesAre(c) /\ BindingsAre(c)
  BY <1>5, <1>6 DEF Grown, ValuesAre, BindingsAre
<1>8. ValuesAre(c)'
  BY <1>4, <1>7, KeysGrow
<1>9. /\ ContextsNest' /\ \A i \in DOMAIN all : IsContext(all[i])
      /\ DOMAIN all = DOMAIN contexts /\ all[Len(contexts)] = c
      /\ \A i \in DOMAIN contexts : i # Len(contexts) => all[i] = contexts[i]
      /\ all[1].input_origins = contexts[1].input_origins
  BY <1>1, <1>3, <1>4, <1>7, <1>8, TopGrows
<1>10. all[1].binding_names = contexts[1].binding_names
  BY <1>5, <1>6, <1>9
<1>11. \A i \in DOMAIN all : ValuesAre(all[i]) /\ BindingsAre(all[i])
  <2> TAKE i \in DOMAIN all
  <2>1. CASE i = Len(contexts)
    BY <1>7, <1>9, <2>1
  <2>2. CASE i # Len(contexts)
    BY <1>9, <2>2 DEF BindingIInv
  <2> QED
    BY <2>1, <2>2
<1>12. IsFiniteSet(names') /\ names \subseteq names'
  BY <1>4 DEF BindingIInv, NamesAreReserved
<1> QED
  BY <1>4, <1>9, <1>10, <1>11, <1>12, OnlyContextsChange

LEMMA SubqueryIsEntered ==
  ASSUME BindingIInv, NEW local \in SUBSET CallerNames, EnterSubquery(local)
  PROVE  BindingIInv'
<1>1. PICK top, space : top = Top /\ space = <<"s">> \o Number(counter + 1)
  OBVIOUS
<1>2. PICK own, available, keyed :
        /\ own = [n \in local |-> Whole(<<"local">> \o space, n)]
        /\ available = Over(own, top.available)
        /\ keyed = Over([n \in local |-> space \o n], top.use_keys)
  OBVIOUS
<1>3. PICK c : c = Context(space, available, keyed, top.input_origins \ local, "text")
  OBVIOUS
<1>4. PICK all : all = Append(contexts, c)
  OBVIOUS
<1>5. /\ contexts' = all /\ names' = names \cup DOMAIN available /\ params' = params
      /\ placed' = placed /\ operation' = operation /\ status' = status
      /\ counter < MaxSubqueries /\ counter' = counter + 1
      /\ environment_keys' = environment_keys /\ consumed_inputs' = consumed_inputs
      /\ emptied' = emptied
  BY <1>1, <1>2, <1>3, <1>4 DEF EnterSubquery
<1>6. ValuesAre(top)
  BY <1>1, TopIs
<1>7. /\ c.namespace = space /\ c.available = available /\ c.binding_names = NoNames
      /\ c.input_origins = top.input_origins \ local /\ IsContext(c)
  BY <1>3 DEF Context, IsContext, Steps
<1>8. IsSpace(space) /\ counter' \in 0..MaxSubqueries
  <2>1. counter \in Nat /\ MaxSubqueries \in Nat
    BY BindingAssumption DEF BindingIInv, ContextsNest
  <2>2. counter + 1 \in 1..MaxSubqueries /\ counter + 1 \in 0..MaxSubqueries
    BY <1>5, <2>1
  <2> QED
    BY <1>1, <1>5, <2>2 DEF IsSpace
<1>9. /\ DOMAIN available = local \cup DOMAIN top.available
      /\ \A n \in local : available[n] = Whole(<<"local">> \o space, n)
      /\ \A n \in DOMAIN top.available \ local : available[n] = top.available[n]
  <2>1. DOMAIN own = local /\ \A n \in local : own[n] = Whole(<<"local">> \o space, n)
    BY <1>2
  <2> QED
    BY <1>2, <2>1 DEF Over
<1>10. local \subseteq Texts /\ IsFiniteSet(local)
  BY NamesAssumption, FS_Subset
<1>11. ASSUME NEW n \in local
       PROVE  /\ IsValue(available[n]) /\ available[n].name = n
              /\ available[n].origin # <<"caller">> /\ available[n].origin # <<"env">>
  <2>1. IsValue(available[n]) /\ available[n].name = n /\ available[n].origin = <<"local">> \o space
    <3>1. PICK o, v : o = <<"local">> \o space /\ v = Whole(o, n)
      OBVIOUS
    <3>2. IsValue(v) /\ v.origin = o /\ v.name = n
      BY <3>1, WholeIs
    <3>3. available[n] = v
      BY <1>9, <3>1
    <3> QED
      BY <3>1, <3>2, <3>3
  <2>2. space \in Texts
    BY <1>8, <1>10, SpaceIs
  <2>3. available[n].origin[1] = "local"
    BY <2>1, <2>2, OriginIs
  <2>4. <<"caller">>[1] = "caller" /\ <<"env">>[1] = "env" /\ "local" # "caller" /\ "local" # "env"
    OBVIOUS
  <2> QED
    BY <2>1, <2>3, <2>4
<1>12. IsFiniteSet(DOMAIN available) /\ DOMAIN available \subseteq Texts
  <2>1. IsFiniteSet(DOMAIN top.available) /\ DOMAIN top.available \subseteq Texts
    BY <1>6 DEF ValuesAre
  <2>2. IsFiniteSet(local \cup DOMAIN top.available)
    BY <1>10, <2>1, FS_Union
  <2> QED
    BY <1>9, <1>10, <2>1, <2>2
<1>13. ValuesAre(c)
  <2>1. c.input_origins \subseteq DOMAIN available
    BY <1>6, <1>7, <1>9 DEF ValuesAre
  <2>2. ASSUME NEW n \in DOMAIN available
        PROVE  /\ IsValue(available[n]) /\ available[n].name = n
               /\ available[n].origin = <<"caller">> <=> n \in c.input_origins
               /\ available[n].origin = <<"env">> => n \in environment_keys
    <3>1. CASE n \in local
      BY <1>7, <1>11, <3>1
    <3>2. CASE n \notin local
      <4>1. n \in DOMAIN top.available /\ available[n] = top.available[n]
        BY <1>9, <3>2
      <4> QED
        BY <1>6, <1>7, <3>2, <4>1 DEF ValuesAre
    <3> QED
      BY <3>1, <3>2
  <2> QED
    BY <1>7, <1>12, <2>1, <2>2 DEF ValuesAre
<1>14. BindingsAre(c)
  BY <1>7 DEF BindingsAre, NoNames
<1>15. /\ IsStack(all) /\ DOMAIN all = DOMAIN contexts \cup {Len(contexts) + 1}
       /\ all[Len(contexts) + 1] = c /\ \A i \in DOMAIN contexts : all[i] = contexts[i]
  <2>1. PICK stack : stack = contexts
    OBVIOUS
  <2>2. IsStack(stack) /\ Pushes(all, stack, c)
    BY <1>4, <2>1 DEF BindingIInv, ContextsNest, Pushes
  <2>3. IsStack(all) /\ DOMAIN all = DOMAIN stack \cup {Len(stack) + 1} /\ all[Len(stack) + 1] = c
    BY <2>2, PushedIs
  <2>4. Continues(all, stack)
    BY <2>2, PushedIs
  <2> QED
    BY <2>1, <2>3, <2>4 DEF Continues
<1>16. all[1] = contexts[1]
  BY <1>1, <1>15, TopIs
<1>17. \A i \in DOMAIN all : IsContext(all[i]) /\ ValuesAre(all[i]) /\ BindingsAre(all[i])
  BY <1>7, <1>13, <1>14, <1>15 DEF BindingIInv
<1>18. ContextsNest'
  <2>1. \A i \in DOMAIN all : i # 1 => IsSpace(all[i].namespace)
    BY <1>7, <1>8, <1>15 DEF BindingIInv, ContextsNest
  <2>2. /\ all[1].namespace = << >> /\ all[1].input_origins \subseteq names'
        /\ \A n \in DOMAIN all[1].available : n \in all[1].input_origins \/ RootName(n)
    BY <1>5, <1>16 DEF BindingIInv, ContextsNest
  <2> QED
    BY <1>5, <1>8, <1>15, <2>1, <2>2 DEF ContextsNest
<1>19. IsFiniteSet(names') /\ names \subseteq names'
  BY <1>5, <1>12, FS_Union DEF BindingIInv, NamesAreReserved
<1> QED
  BY <1>5, <1>16, <1>17, <1>18, <1>19, OnlyContextsChange

LEMMA SubqueryIsLeft ==
  ASSUME BindingIInv, LeaveSubquery
  PROVE  BindingIInv'
<1>1. PICK all : all = SubSeq(contexts, 1, Len(contexts) - 1)
  OBVIOUS
<1>2. /\ contexts' = all /\ names' = names /\ params' = params /\ placed' = placed
      /\ operation' = operation /\ status' = status /\ counter' = counter /\ Len(contexts) # 1
      /\ environment_keys' = environment_keys /\ consumed_inputs' = consumed_inputs
      /\ emptied' = emptied
  BY <1>1 DEF LeaveSubquery, IsRoot
<1>3. /\ IsStack(all) /\ DOMAIN all \subseteq DOMAIN contexts /\ 1 \in DOMAIN all
      /\ \A i \in DOMAIN all : all[i] = contexts[i]
  BY <1>1, <1>2, PoppedIs DEF BindingIInv, ContextsNest
<1>4. all[1] = contexts[1]
  BY <1>3
<1>5. ContextsNest'
  BY <1>2, <1>3, <1>4 DEF BindingIInv, ContextsNest
<1>6. \A i \in DOMAIN all : IsContext(all[i]) /\ ValuesAre(all[i]) /\ BindingsAre(all[i])
  BY <1>3 DEF BindingIInv
<1>7. IsFiniteSet(names') /\ names \subseteq names'
  BY <1>2 DEF BindingIInv, NamesAreReserved
<1> QED
  BY <1>2, <1>4, <1>5, <1>6, <1>7, OnlyContextsChange

(* The statement keeps the parameters it has a place for: all of them.     *)
LEMMA CompiledKeeps ==
  ASSUME BindingIInv, Compile
  PROVE  BindingIInv'
<1>1. PICK new : new = [b \in {p.bound : p \in placed} |-> params[b]]
  OBVIOUS
<1>2. /\ status' = "compiled" /\ params' = new /\ contexts' = contexts /\ names' = names
      /\ placed' = placed /\ operation' = operation /\ counter' = counter
      /\ environment_keys' = environment_keys /\ consumed_inputs' = consumed_inputs
      /\ emptied' = emptied
  BY <1>1 DEF Compile
<1>3. DOMAIN new = DOMAIN params /\ \A b \in DOMAIN params : new[b] = params[b]
  BY <1>1 DEF BindingIInv, NamesAreReserved
<1>4. NamesAreReserved'
  BY <1>2, <1>3 DEF BindingIInv, NamesAreReserved
<1>5. \A p \in placed : new[p.bound] = params[p.bound]
  BY <1>1, <1>3
<1>6. PlacesAreKept' /\ EnvironmentIsRecorded' /\ ConsumedInputsAreBound'
  BY <1>2, <1>5
     DEF BindingIInv, PlacesAreKept, EnvironmentIsRecorded, ConsumedInputsAreBound, DependsOn
<1>7. ContextsNest' /\ PlacesAre'
  BY <1>2 DEF BindingIInv, ContextsNest, PlacesAre
<1>8. ASSUME NEW i \in DOMAIN contexts
      PROVE  IsContext(contexts[i]) /\ (ValuesAre(contexts[i]) /\ BindingsAre(contexts[i]))'
  <2>1. PICK x : x = contexts[i]
    OBVIOUS
  <2>2. IsContext(x) /\ ValuesAre(x) /\ BindingsAre(x)
    BY <2>1 DEF BindingIInv
  <2>3. ValuesAre(x)' /\ BindingsAre(x)'
    BY <1>2, <1>3, <2>2 DEF ValuesAre, BindingsAre
  <2> QED
    BY <1>2, <2>1, <2>2, <2>3
<1> QED
  BY <1>2, <1>4, <1>6, <1>7, <1>8 DEF BindingIInv

LEMMA BindingInitIInv ==
  ASSUME BindingInit
  PROVE  BindingIInv
<1>1. PICK supplied \in SUBSET CallerNames, s \in {"values", "text"} :
        /\ contexts = <<Context(<< >>, [n \in supplied |-> Whole(<<"caller">>, n)], NoNames, supplied, s)>>
        /\ names = supplied
  BY DEF BindingInit
<1>2. /\ operation \in Operations /\ counter = 0 /\ params = NoNames /\ environment_keys = {}
      /\ consumed_inputs = {} /\ status = "compiling" /\ placed = {} /\ emptied = {}
  BY DEF BindingInit
<1>3. PICK available : available = [n \in supplied |-> Whole(<<"caller">>, n)]
  OBVIOUS
<1>4. PICK c : c = Context(<< >>, available, NoNames, supplied, s)
  OBVIOUS
<1>5. contexts = <<c>>
  BY <1>1, <1>3, <1>4
<1>6. /\ c.namespace = << >> /\ c.available = available /\ c.binding_names = NoNames
      /\ c.input_origins = supplied /\ IsContext(c)
  BY <1>4 DEF Context, IsContext, Steps
<1>7. IsFiniteSet(supplied) /\ supplied \subseteq Texts
  BY NamesAssumption, FS_Subset
<1>8. DOMAIN available = supplied /\ \A n \in supplied : available[n] = Whole(<<"caller">>, n)
  BY <1>3
<1>9. ValuesAre(c)
  <2>1. ASSUME NEW n \in supplied
        PROVE  /\ IsValue(available[n]) /\ available[n].name = n
               /\ available[n].origin = <<"caller">> /\ available[n].origin # <<"env">>
    <3>1. <<"caller">> # <<"env">>
      OBVIOUS
    <3> QED
      BY <1>8, <3>1, WholeIs
  <2> QED
    BY <1>6, <1>7, <1>8, <2>1 DEF ValuesAre
<1>10. BindingsAre(c)
  BY <1>6 DEF BindingsAre, NoNames
<1>11. DOMAIN contexts = {1} /\ contexts[1] = c /\ IsStack(contexts)
  <2>1. contexts \in Seq({c}) /\ contexts # << >> /\ Len(contexts) = 1 /\ contexts[1] = c
    BY <1>5
  <2>2. DOMAIN contexts = 1..1
    BY <2>1, LenProperties
  <2> QED
    BY <2>1, <2>2, StackOf
<1>12. ContextsNest
  <2>1. counter \in 0..MaxSubqueries
    BY <1>2, BindingAssumption
  <2> QED
    BY <1>1, <1>6, <1>8, <1>11, <2>1 DEF ContextsNest
<1>13. NamesAreReserved
  <2>1. DOMAIN params = {}
    BY <1>2 DEF NoNames
  <2> QED
    BY <1>1, <1>2, <1>7, <2>1, FS_EmptySet DEF NamesAreReserved
<1>14. PlacesAre /\ PlacesAreKept /\ EnvironmentIsRecorded /\ ConsumedInputsAreBound
  BY <1>2 DEF PlacesAre, PlacesAreKept, EnvironmentIsRecorded, ConsumedInputsAreBound, DependsOn
<1> QED
  BY <1>2, <1>6, <1>9, <1>10, <1>11, <1>12, <1>13, <1>14 DEF BindingIInv

LEMMA BindingNextIInv ==
  ASSUME BindingIInv, [BindingNext]_bindingVars
  PROVE  BindingIInv'
<1>1. CASE \E n \in Names : BindScalar(n)
  BY <1>1, ScalarIsBound
<1>2. CASE \E n \in Names : BindCollection(n)
  BY <1>2, CollectionIsBound
<1>3. CASE (\E n \in Names : Refuse(n)) \/ UNCHANGED bindingVars
  <2>1. /\ contexts' = contexts /\ names' = names /\ params' = params /\ placed' = placed
        /\ operation' = operation /\ counter' = counter /\ environment_keys' = environment_keys
        /\ consumed_inputs' = consumed_inputs /\ emptied' = emptied /\ status' \in {status, "refused"}
    BY <1>3 DEF Refuse, bindingVars
  <2>2. ContextsNest' /\ NamesAreReserved' /\ PlacesAre'
    BY <2>1 DEF BindingIInv, ContextsNest, NamesAreReserved, PlacesAre
  <2>3. PlacesAreKept' /\ EnvironmentIsRecorded' /\ ConsumedInputsAreBound'
    BY <2>1 DEF BindingIInv, PlacesAreKept, EnvironmentIsRecorded, ConsumedInputsAreBound, DependsOn
  <2>4. ASSUME NEW x, ValuesAre(x), BindingsAre(x)
        PROVE  ValuesAre(x)' /\ BindingsAre(x)'
    BY <2>1, <2>4 DEF ValuesAre, BindingsAre
  <2>5. PICK all : all = contexts
    OBVIOUS
  <2>6. \A i \in DOMAIN all : IsContext(all[i]) /\ ValuesAre(all[i])' /\ BindingsAre(all[i])'
    BY <2>4, <2>5 DEF BindingIInv
  <2> QED
    BY <2>1, <2>2, <2>3, <2>5, <2>6 DEF BindingIInv
<1>4. CASE \E local \in SUBSET CallerNames : EnterSubquery(local)
  BY <1>4, SubqueryIsEntered
<1>5. CASE AssignValue
  BY <1>5, ValueIsAssigned
<1>6. CASE BindPolicy
  BY <1>6, PolicyIsBound
<1>7. CASE NextStep
  BY <1>7, NextStepKeeps
<1>8. CASE LeaveSubquery
  BY <1>8, SubqueryIsLeft
<1>9. CASE Compile
  BY <1>9, CompiledKeeps
<1> QED
  BY <1>1, <1>2, <1>3, <1>4, <1>5, <1>6, <1>7, <1>8, <1>9 DEF BindingNext

(* Contexts, reserved names, parameters and places fit together at every   *)
(* step of a compilation (compiler.py, class _Context).                    *)
THEOREM BindingInvariance == BindingSpec => []BindingIInv
<1>1. BindingInit => BindingIInv
  BY BindingInitIInv
<1>2. BindingIInv /\ [BindingNext]_bindingVars => BindingIInv'
  BY BindingNextIInv
<1> QED
  BY <1>1, <1>2, PTL DEF BindingSpec

(* The type invariant. *)
THEOREM BindingTypes == BindingSpec => []BindingTypeOK
<1>1. ASSUME BindingIInv
      PROVE  BindingTypeOK
  <2>1. contexts # << >> /\ contexts[1].namespace = << >> /\ counter \in 0..MaxSubqueries
    BY <1>1 DEF BindingIInv, ContextsNest, IsStack
  <2>2. \A i \in DOMAIN contexts : contexts[i].step \in Steps
    BY <1>1 DEF BindingIInv, IsContext
  <2> QED
    BY <1>1, <2>1, <2>2 DEF BindingIInv, NamesAreReserved, BindingTypeOK
<1> QED
  BY <1>1, BindingInvariance, PTL

(* A scalar parameter keeps the value its place stands for, whatever names *)
(* callers, subqueries, the environment and the policies use; so does a    *)
(* member whose name the root does not take for itself.                    *)
THEOREM ScalarPlacesKeep == BindingSpec => []PlacesAreKept
<1>1. BindingIInv => PlacesAreKept
  BY DEF BindingIInv
<1> QED
  BY <1>1, BindingInvariance, PTL

(* A value of the environment that is bound or, an empty collection,       *)
(* expanded is one the plan says it depends on.                            *)
THEOREM EnvironmentRecorded == BindingSpec => []EnvironmentIsRecorded
<1>1. BindingIInv => EnvironmentIsRecorded
  BY DEF BindingIInv
<1> QED
  BY <1>1, BindingInvariance, PTL

(* The inputs reported as used are those bound with the caller's value, or *)
(* expanded as an empty collection of the caller's.                        *)
THEOREM ConsumedAreBound == BindingSpec => []ConsumedInputsAreBound
<1>1. BindingIInv => ConsumedInputsAreBound
  BY DEF BindingIInv
<1> QED
  BY <1>1, BindingInvariance, PTL
=============================================================================
