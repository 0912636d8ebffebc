--------------------------- MODULE RemindersProofs --------------------------
(***************************************************************************)
(* What TLAPS proves of the reminders, for every set of owners and forms,  *)
(* any number of reminders, minutes and faults.                            *)
(***************************************************************************)
EXTENDS Reminders, FiniteSetTheorems, SequenceTheorems, TLAPS

Entries == [user : Users, form : Forms]

\* Only the last line of a file may have been cut off.
WholeButLast(lines) == \A i \in DOMAIN lines : lines[i] = Torn => i = Len(lines)

FileInv ==
  /\ file \in Seq(Nat) /\ WholeButLast(file)
  /\ ToSet(file) \subseteq Ids \cup {Torn} /\ deleted \cap ToSet(file) = {}
  /\ Torn \in ToSet(file) => faults > 0

TypesInv ==
  /\ rem \in Seq(Entries) /\ faults \in Nat /\ writer \in Users \cup {Nobody}
  /\ op \in [Users -> {"idle", "lock", "create", "write"}]
  /\ target \in [Users -> Nat] /\ kept \in [Users -> Seq(Nat)]
  /\ deleted \subseteq Ids /\ promised \subseteq Ids

\* How far the delete of u has got with the reminder it takes out.
DeleteInv(u) ==
  /\ op[u] \in {"create", "write"} <=> writer = u
  /\ writer # u => kept[u] = <<>>
  /\ ToSet(kept[u]) \subseteq Ids \ deleted
  /\ op[u] # "idle" => target[u] \in Ids /\ (Owns(u, target[u]) => target[u] \notin promised)
  /\ op[u] = "create" =>
       /\ target[u] \in ToSet(file)
       /\ ToSet(kept[u]) = {l \in ToSet(file) \ {Torn} : l = target[u] => ~Owns(u, l)}
  /\ op[u] = "write" /\ Owns(u, target[u]) => target[u] \notin ToSet(file) \cup ToSet(kept[u])

\* While nothing has failed, what was promised is in the book.
Promised == faults = 0 => promised \subseteq Book

\* What the run of minute r owes the owner of a reminder it finds, and has done.
Wanted(id, r) == DueAt(rem[id].form, r) /\ rem[id].user \in Served
WasSent(id, r) == \E s \in sent : s.id = id /\ s.run = r

Phases == {"none", "list", "clock", "send", "sending", "done", "failed"}
Sends == [id : Ids, for : Nat, minute : Nat, run : 1..fired, place : Nat]

CronTypes ==
  /\ now \in 0..MaxMinute /\ fired \in 0..now
  /\ run \in [Runs -> Phases]
  /\ at \in [Runs -> 0..now] /\ list \in [Runs -> Seq(Nat)]
  /\ DOMAIN due = Runs /\ DOMAIN gone = Runs
  /\ sent \subseteq Sends

\* What the run fired in minute r has read, and what it has yet to send.
RunInv(r) ==
  /\ r > fired => run[r] = "none"
  /\ run[r] \notin {"clock", "send", "sending"} => list[r] = <<>>
  /\ ToSet(list[r]) \subseteq Ids \ gone[r]
  /\ gone[r] \subseteq deleted /\ due[r] \subseteq Ids
  /\ run[r] \in {"send", "sending"} => at[r] >= r
  /\ faults = 0 /\ run[r] = "clock" => due[r] \cap promised \subseteq ToSet(list[r])
  /\ faults = 0 /\ run[r] \in {"send", "sending", "done"} /\ at[r] = r =>
       \A id \in due[r] \cap promised :
         Wanted(id, r) => id \in ToSet(list[r]) \/ WasSent(id, r)

\* What was sent was sent in time.
InTime ==
  \A s \in sent : s.for \in rem[s.id].form.minutes /\ s.run <= s.for /\ s.for <= s.minute

\* No reminder stands twice in the file, in what a delete has to write or in what a
\* run has to send, and none is still to be written or sent that has been.
Once(lines) == \A i, j \in DOMAIN lines : lines[i] = lines[j] /\ lines[i] # Torn => i = j

OnceStored ==
  /\ Once(file)
  /\ \A u \in Users :
       Once(kept[u]) /\ (op[u] = "write" => ToSet(kept[u]) \cap ToSet(file) = {})

OnceSent ==
  /\ \A r \in Runs : Once(list[r])
  /\ \A s \in sent :
       /\ s.id \notin ToSet(list[s.run]) /\ run[s.run] \in {"send", "sending", "done", "failed"}
       /\ \A t \in sent : s.id = t.id /\ s.run = t.run => s = t

CronInv ==
  CronTypes /\ InTime /\ DeletedStaysQuiet /\ \A r \in Runs : RunInv(r)

StoreInv == TypesInv /\ FileInv /\ Promised /\ \A u \in Users : DeleteInv(u)

-----------------------------------------------------------------------------
(* Lines.                                                                  *)

\* Every number up to its size is the rank of one member of a finite set.
LEMMA Ranked ==
  ASSUME NEW P \in SUBSET Nat, IsFiniteSet(P)
  PROVE  /\ Cardinality(P) \in Nat
         /\ \A n \in 1..Cardinality(P) : \E i \in P : Cardinality({j \in P : j <= i}) = n
         /\ \A i \in P : Cardinality({j \in P : j <= i}) \in 1..Cardinality(P)
         /\ \A i, k \in P : Cardinality({j \in P : j <= i}) = Cardinality({j \in P : j <= k}) => i = k
  <1> DEFINE Below(i) == {j \in P : j <= i}
             rank == [i \in P |-> Cardinality(Below(i))]
  <1>0. \A i \in P : i \in Nat OBVIOUS
  <1>1. Cardinality(P) \in Nat BY FS_CardinalityType
  <1>2. ASSUME NEW i \in P PROVE IsFiniteSet(Below(i)) /\ rank[i] \in 1..Cardinality(P)
    <2>1. Below(i) \in SUBSET P OBVIOUS
    <2>2. i \in Below(i) OBVIOUS
    <2> HIDE DEF Below
    <2>3. IsFiniteSet(Below(i)) /\ Cardinality(Below(i)) <= Cardinality(P) BY <2>1, FS_Subset
    <2>4. Cardinality(Below(i)) # 0 BY <2>2, <2>3, FS_EmptySet
    <2>5. Cardinality(Below(i)) \in Nat BY <2>3, FS_CardinalityType
    <2> QED BY <1>1, <2>3, <2>4, <2>5
  <1>3. ASSUME NEW i \in P, NEW k \in P, i < k PROVE rank[i] # rank[k]
    <2>0. ASSUME NEW j \in P, j <= i PROVE j <= k BY <1>0, <1>3, <2>0
    <2>1. Below(i) \in SUBSET Below(k) BY <2>0, Zenon
    <2>2. k \in Below(k) /\ k \notin Below(i) BY <1>3
    <2> HIDE DEF Below
    <2>3. Cardinality(Below(i)) # Cardinality(Below(k)) BY <1>2, <2>1, <2>2, FS_Subset
    <2> QED BY <2>3
  <1>4. rank \in [P -> 1..Cardinality(P)] BY <1>2
  <1>5. \A i \in P : rank[i] = Cardinality({j \in P : j <= i}) OBVIOUS
  <1> HIDE DEF rank
  <1>6. ASSUME NEW i \in P, NEW k \in P, rank[i] = rank[k] PROVE i = k
    <2>1. i < k \/ i = k \/ k < i BY <1>0
    <2> QED BY <1>3, <1>6, <2>1, Zenon
  <1>7. rank \in Injection(P, 1..Cardinality(P)) BY <1>4, <1>6 DEF Injection, IsInjective
  <1>8. IsFiniteSet(1..Cardinality(P)) /\ Cardinality(1..Cardinality(P)) = Cardinality(P)
    BY <1>1, FS_Interval
  <1>9. rank \in Surjection(P, 1..Cardinality(P)) BY <1>7, <1>8, FS_Injection
  <1>10. \A n \in 1..Cardinality(P) : \E i \in P : rank[i] = n BY <1>9 DEF Surjection
  <1> QED BY <1>1, <1>4, <1>5, <1>6, <1>10

LEMMA InSet ==
  ASSUME NEW s \in Seq(Nat)
  PROVE  /\ \A x : x \in ToSet(s) <=> \E i \in DOMAIN s : s[i] = x
         /\ ToSet(s) \subseteq Nat
         /\ ToSet(s) = {} <=> s = <<>>
  <1>1. Len(s) \in Nat /\ DOMAIN s = 1..Len(s) /\ \A i \in DOMAIN s : s[i] \in Nat OBVIOUS
  <1>2. \A x : x \in ToSet(s) <=> \E i \in DOMAIN s : s[i] = x BY DEF ToSet
  <1>3. s # <<>> => 1 \in DOMAIN s BY <1>1
  <1>4. s = <<>> => DOMAIN s = {} OBVIOUS
  <1> QED BY <1>1, <1>2, <1>3, <1>4

\* Selecting lines keeps all those and no others.
LEMMA Selected ==
  ASSUME NEW s \in Seq(Nat), NEW S
  PROVE  /\ Select(s, S) \in Seq(Nat) /\ ToSet(Select(s, S)) = ToSet(s) \cap S
         /\ Once(s) => Once(Select(s, S))
  <1> DEFINE places == {i \in DOMAIN s : s[i] \in S}
             Rank(i) == Cardinality({j \in places : j <= i})
             Place(n) == CHOOSE i \in places : Rank(i) = n
  <1>1. Len(s) \in Nat /\ DOMAIN s = 1..Len(s) /\ \A i \in DOMAIN s : s[i] \in Nat OBVIOUS
  <1>2. places \in SUBSET (1..Len(s)) /\ places \in SUBSET Nat
    <2>1. places \subseteq 1..Len(s) BY <1>1, Zenon
    <2>2. 1..Len(s) \subseteq Nat BY <1>1
    <2> QED BY <2>1, <2>2, Zenon
  <1>3. IsFiniteSet(places)
    <2>1. IsFiniteSet(1..Len(s)) BY <1>1, FS_Interval
    <2> QED BY <1>2, <2>1, FS_Subset
  <1>4. Select(s, S) = [n \in 1..Cardinality(places) |-> s[Place(n)]]
    BY DEF Select
  <1>5. \A i : i \in places <=> i \in DOMAIN s /\ s[i] \in S OBVIOUS
  <1> HIDE DEF places
  <1>6. /\ Cardinality(places) \in Nat
        /\ \A n \in 1..Cardinality(places) : \E i \in places : Rank(i) = n
        /\ \A i \in places : Rank(i) \in 1..Cardinality(places)
        /\ \A i, k \in places : Rank(i) = Rank(k) => i = k
    BY <1>2, <1>3, Ranked
  <1> HIDE DEF Rank
  <1>7. \A n \in 1..Cardinality(places) : Place(n) \in places /\ Rank(Place(n)) = n
    BY <1>6
  <1>8. \A i \in places : Place(Rank(i)) = i
    BY <1>6, <1>7
  <1> HIDE DEF Place
  <1> DEFINE t == Select(s, S)
  <1>9. DOMAIN t = 1..Cardinality(places) /\ \A n \in DOMAIN t : t[n] = s[Place(n)]
    BY <1>4
  <1>10. t \in Seq(Nat)
    <2>1. \A n \in 1..Cardinality(places) : s[Place(n)] \in Nat BY <1>1, <1>5, <1>7
    <2>2. t \in [1..Cardinality(places) -> Nat] BY <1>4, <2>1
    <2> QED BY <1>6, <2>2, SeqDef
  <1> HIDE DEF t
  <1>11. \A x : x \in ToSet(t) <=> \E n \in DOMAIN t : t[n] = x BY <1>10, InSet
  <1>12. \A x : x \in ToSet(s) <=> \E i \in DOMAIN s : s[i] = x BY InSet
  <1>13. ASSUME NEW x \in ToSet(t) PROVE x \in ToSet(s) \cap S
    BY <1>5, <1>7, <1>9, <1>11, <1>12
  <1>14. ASSUME NEW x \in ToSet(s), x \in S PROVE x \in ToSet(t)
    <2>1. PICK i \in DOMAIN s : s[i] = x BY <1>12
    <2>2. i \in places BY <1>5, <1>14, <2>1
    <2>3. Rank(i) \in DOMAIN t /\ t[Rank(i)] = x BY <1>6, <1>8, <1>9, <2>1, <2>2
    <2> QED BY <1>11, <2>3
  <1>15. ASSUME Once(s) PROVE Once(t)
    <2> SUFFICES ASSUME NEW n \in DOMAIN t, NEW m \in DOMAIN t, t[n] = t[m], t[n] # Torn
                 PROVE  n = m
      BY DEF Once
    <2>1. Place(n) \in places /\ Place(m) \in places /\ Rank(Place(n)) = n /\ Rank(Place(m)) = m
      BY <1>7, <1>9
    <2>2. s[Place(n)] = s[Place(m)] /\ s[Place(n)] # Torn BY <1>9
    <2>3. Place(n) = Place(m) BY <1>5, <1>15, <2>1, <2>2 DEF Once
    <2> QED BY <2>1, <2>3
  <1> QED BY <1>10, <1>13, <1>14, <1>15 DEF t

LEMMA ReadableLines ==
  ASSUME NEW s \in Seq(Nat)
  PROVE  /\ Readable(s) \in Seq(Nat) /\ ToSet(Readable(s)) = ToSet(s) \ {Torn}
         /\ Once(s) => Once(Readable(s))
BY Selected, InSet DEF Readable

\* What is written after a line, whole or cut off.
LEMMA Extended ==
  ASSUME NEW s \in Seq(Nat), WholeButLast(s), NEW l \in Nat
  PROVE  /\ CutOff(s) <=> Torn \in ToSet(s)
         /\ Extend(s, l) \in Seq(Nat) /\ WholeButLast(Extend(s, l))
         /\ ~CutOff(s) => ToSet(Extend(s, l)) = ToSet(s) \cup {l}
         /\ CutOff(s) /\ l # Torn => ToSet(Extend(s, l)) = ToSet(s) \ {Torn}
         /\ CutOff(s) /\ l = Torn => Extend(s, l) = s
         /\ Once(s) /\ (l = Torn \/ l \notin ToSet(s)) => Once(Extend(s, l))
  <1>0. /\ Len(s) \in Nat /\ DOMAIN s = 1..Len(s) /\ (s # <<>> => Len(s) \in DOMAIN s)
        /\ \A i \in DOMAIN s : s[i] \in Nat
    OBVIOUS
  <1>00. ASSUME NEW n \in Nat
         PROVE  n - 1 + 1 = n /\ (n > 0 => 1 <= n) /\ (~(1 <= n) => n = 0) /\ 1 + n - 1 = n
    OBVIOUS
  <1>1. CutOff(s) <=> Torn \in ToSet(s)
    <2>1. Torn \in ToSet(s) <=> \E i \in DOMAIN s : s[i] = Torn BY InSet
    <2>2. ASSUME NEW i \in DOMAIN s, s[i] = Torn PROVE s # <<>> /\ s[Len(s)] = Torn
      BY <1>0, <2>2 DEF WholeButLast
    <2> QED BY <1>0, <2>1, <2>2 DEF CutOff, Last
  <1>2. CASE ~CutOff(s)
    <2> DEFINE t == Append(s, l)
    <2>1. /\ Extend(s, l) = t /\ t \in Seq(Nat) /\ Len(t) = Len(s) + 1 /\ DOMAIN t = 1..(Len(s) + 1)
          /\ t[Len(s) + 1] = l /\ \A i \in DOMAIN s : t[i] = s[i]
      BY <1>2 DEF Extend
    <2> HIDE DEF t
    <2>2. \A i \in DOMAIN s : s[i] # Torn BY <1>1, <1>2, InSet
    <2>3. WholeButLast(t) BY <1>0, <2>1, <2>2 DEF WholeButLast
    <2>4. ToSet(t) = ToSet(s) \cup {l}
      <3>1. DOMAIN t = DOMAIN s \cup {Len(s) + 1} BY <1>0, <2>1
      <3> QED BY <2>1, <3>1 DEF ToSet
    <2>5. ASSUME Once(s), l = Torn \/ l \notin ToSet(s) PROVE Once(t)
      <3> SUFFICES ASSUME NEW i \in DOMAIN t, NEW j \in DOMAIN t, t[i] = t[j], t[i] # Torn
                   PROVE  i = j
        BY DEF Once
      <3>1. DOMAIN t = DOMAIN s \cup {Len(s) + 1} BY <1>0, <2>1
      <3>2. \A x : x \in ToSet(s) <=> \E n \in DOMAIN s : s[n] = x BY InSet
      <3>3. i \in DOMAIN s /\ j \in DOMAIN s => i = j BY <2>1, <2>5 DEF Once
      <3>4. i = Len(s) + 1 /\ j \in DOMAIN s => FALSE BY <2>1, <2>5, <3>2
      <3>5. j = Len(s) + 1 /\ i \in DOMAIN s => FALSE BY <2>1, <2>5, <3>2
      <3> QED BY <3>1, <3>3, <3>4, <3>5
    <2> QED BY <1>1, <1>2, <2>1, <2>3, <2>4, <2>5
  <1>3. CASE CutOff(s) /\ l = Torn
    BY <1>1, <1>3 DEF Extend
  <1>4. CASE CutOff(s) /\ l # Torn
    <2>1. s # <<>> /\ s[Len(s)] = Torn BY <1>4 DEF CutOff, Last
    <2>2. \A i \in DOMAIN s : s[i] = Torn <=> i = Len(s) BY <2>1 DEF WholeButLast
    <2> DEFINE t == Front(s)
    <2>3. /\ t \in Seq(Nat) /\ Len(t) = Len(s) - 1 /\ DOMAIN t = 1..(Len(s) - 1)
          /\ \A i \in DOMAIN t : t[i] = s[i]
      <3>1. Len(s) - 1 \in Nat /\ \A i \in 1..(Len(s) - 1) : i \in DOMAIN s BY <1>0, <2>1
      <3>2. t = SubSeq(s, 1, Len(s) - 1) BY DEF Front
      <3>3. \A i \in 1..(Len(s) - 1) : s[i] \in Nat BY <1>0, <3>1
      <3>4. /\ t \in Seq(Nat) /\ Len(t) = (IF 1 <= Len(s) - 1 THEN (Len(s) - 1) - 1 + 1 ELSE 0)
            /\ \A i \in 1..((Len(s) - 1) - 1 + 1) : t[i] = s[1 + i - 1]
        BY <3>1, <3>2, <3>3, SubSeqProperties
      <3> DEFINE n == Len(s) - 1
      <3> HIDE DEF t, n
      <3>5. Len(t) = n /\ \A i \in 1..n : t[i] = s[i]
        <4>1. n \in Nat /\ n - 1 + 1 = n /\ (~(1 <= n) => n = 0) BY <3>1, <1>00 DEF n
        <4>2. \A i \in 1..n : 1 + i - 1 = i BY <4>1
        <4> QED BY <3>4, <4>1, <4>2 DEF n
      <3>6. t \in Seq(Nat) BY <3>4
      <3>7. DOMAIN t = 1..Len(t) BY <3>6
      <3>8. DOMAIN t = 1..n BY <3>5, <3>7
      <3> QED BY <3>5, <3>6, <3>8 DEF n
    <2>4. Extend(s, l) = t BY <1>4 DEF Extend
    <2> HIDE DEF t
    <2>5. DOMAIN t = DOMAIN s \ {Len(s)} BY <1>0, <2>1, <2>3
    <2>6. WholeButLast(t) BY <2>2, <2>3, <2>5 DEF WholeButLast
    <2>7. ToSet(t) = ToSet(s) \ {Torn}
      <3>1. \A x : x \in ToSet(t) <=> \E i \in DOMAIN t : t[i] = x BY <2>3, InSet
      <3>2. \A x : x \in ToSet(s) <=> \E i \in DOMAIN s : s[i] = x BY InSet
      <3> QED BY <2>2, <2>3, <2>5, <3>1, <3>2
    <2>8. Once(s) => Once(t) BY <2>3, <2>5 DEF Once
    <2> QED BY <1>1, <1>4, <2>3, <2>4, <2>6, <2>7, <2>8
  <1> QED BY <1>2, <1>3, <1>4

LEMMA HeadAndTail ==
  ASSUME NEW s \in Seq(Nat), s # <<>>
  PROVE  /\ Head(s) \in ToSet(s) /\ Tail(s) \in Seq(Nat)
         /\ ToSet(s) = {Head(s)} \cup ToSet(Tail(s))
         /\ {s[i] : i \in DOMAIN s \ {1}} = ToSet(Tail(s))
         /\ Once(s) => Once(Tail(s)) /\ (Head(s) # Torn => Head(s) \notin ToSet(Tail(s)))
  <1> DEFINE t == Tail(s)
  <1>1. /\ Len(s) \in Nat /\ Len(s) > 0 /\ DOMAIN s = 1..Len(s) /\ Head(s) = s[1]
        /\ t \in Seq(Nat) /\ DOMAIN t = 1..(Len(s) - 1) /\ \A i \in 1..(Len(s) - 1) : t[i] = s[i + 1]
    OBVIOUS
  <1> HIDE DEF t
  <1>2. \A x : x \in ToSet(t) <=> \E i \in DOMAIN t : t[i] = x BY <1>1, InSet
  <1>3. \A x : x \in ToSet(s) <=> \E i \in DOMAIN s : s[i] = x BY InSet
  <1>4. ASSUME NEW i \in DOMAIN s \ {1} PROVE s[i] \in ToSet(t)
    <2>1. i - 1 \in DOMAIN t /\ t[i - 1] = s[i] BY <1>1
    <2> QED BY <1>2, <2>1
  <1>5. ASSUME NEW x \in ToSet(t) PROVE \E i \in DOMAIN s \ {1} : s[i] = x
    <2>1. PICK i \in DOMAIN t : t[i] = x BY <1>2
    <2>2. i + 1 \in DOMAIN s \ {1} /\ s[i + 1] = x BY <1>1, <2>1
    <2> QED BY <2>2
  <1>6. 1 \in DOMAIN s BY <1>1
  <1>7. {s[i] : i \in DOMAIN s \ {1}} = ToSet(t) BY <1>4, <1>5
  <1>8. ToSet(s) = {Head(s)} \cup ToSet(t) BY <1>1, <1>3, <1>4, <1>5, <1>6
  <1>9. ASSUME Once(s) PROVE Once(t) /\ (Head(s) # Torn => Head(s) \notin ToSet(t))
    <2>1. ASSUME NEW i \in DOMAIN t, NEW j \in DOMAIN t, t[i] = t[j], t[i] # Torn PROVE i = j
      <3>1. i + 1 \in DOMAIN s /\ j + 1 \in DOMAIN s /\ s[i + 1] = t[i] /\ s[j + 1] = t[j] BY <1>1
      <3>2. i + 1 = j + 1 BY <1>9, <2>1, <3>1 DEF Once
      <3> QED BY <1>1, <3>2
    <2>2. ASSUME Head(s) # Torn, Head(s) \in ToSet(t) PROVE FALSE
      <3>1. PICK i \in DOMAIN s \ {1} : s[i] = Head(s) BY <1>5, <2>2
      <3> QED BY <1>1, <1>6, <1>9, <2>2, <3>1 DEF Once
    <2> QED BY <2>1, <2>2 DEF Once
  <1> QED BY <1>1, <1>3, <1>6, <1>7, <1>8, <1>9 DEF t

-----------------------------------------------------------------------------
(* The book.                                                               *)

\* The book, when this is in the file and a delete has this to write.
Holds(lines, w, o, k) ==
  (ToSet(lines) \ {Torn}) \cup
  IF w = Nobody \/ o[w] # "write" THEN {}
  ELSE IF Torn \in ToSet(lines) THEN {k[w][i] : i \in DOMAIN k[w] \ {1}} ELSE ToSet(k[w])

LEMMA TheBook ==
  ASSUME file \in Seq(Nat), WholeButLast(file)
  PROVE  Book = Holds(file, writer, op, kept)
  <1>1. ToSet(Readable(file)) = ToSet(file) \ {Torn} BY ReadableLines
  <1>2. CutOff(file) <=> Torn \in ToSet(file) BY Extended
  <1>3. \A k : {k[i] : i \in DOMAIN k \ {}} = ToSet(k) BY DEF ToSet
  <1> QED BY <1>1, <1>2, <1>3 DEF Book, ToCome, Holds

LEMMA TheBookThen ==
  ASSUME file' \in Seq(Nat), WholeButLast(file')
  PROVE  Book' = Holds(file', writer', op', kept')
  <1>1. ToSet(Readable(file')) = ToSet(file') \ {Torn} BY ReadableLines
  <1>2. CutOff(file') <=> Torn \in ToSet(file') BY Extended
  <1>3. \A k : {k[i] : i \in DOMAIN k \ {}} = ToSet(k) BY DEF ToSet
  <1> QED BY <1>1, <1>2, <1>3 DEF Book, ToCome, Holds

\* What every step leaves as it was: reminders stay what they are, and what was
\* deleted, withdrawn or has failed remains so.
Grows ==
  /\ Ids \subseteq Ids' /\ \A i \in Ids : rem'[i] = rem[i]
  /\ deleted \subseteq deleted' /\ promised' \cap Ids \subseteq promised
  /\ faults' = 0 => faults = 0

\* A step leaves the delete of another user where it is.
LEMMA OtherDelete ==
  ASSUME StoreInv, Grows, NEW v \in Users,
         op'[v] = op[v], target'[v] = target[v], kept'[v] = kept[v],
         UNCHANGED <<writer, file, deleted>> \/ (writer # v /\ writer' # v)
  PROVE  DeleteInv(v)'
  <1>1. DeleteInv(v) BY DEF StoreInv
  <1>2. target[v] \in Ids => (Owns(v, target[v])' <=> Owns(v, target[v]))
    BY DEF Grows, Owns
  <1>3. op[v] # "idle" => target[v] \in Ids BY <1>1 DEF DeleteInv
  <1>4. writer # v => ToSet(kept[v]) = {} BY <1>1 DEF DeleteInv, ToSet
  <1>5. writer # v => op[v] \notin {"create", "write"} BY <1>1 DEF DeleteInv
  <1>6. (op[v] # "idle" => target[v] \in Ids /\ (Owns(v, target[v]) => target[v] \notin promised))'
    BY <1>1, <1>2, <1>3 DEF Grows, DeleteInv
  <1>7. CASE UNCHANGED <<writer, file, deleted>>
    <2>1. (op[v] = "create" =>
             /\ target[v] \in ToSet(file)
             /\ ToSet(kept[v]) = {l \in ToSet(file) \ {Torn} : l = target[v] => ~Owns(v, l)})'
      <3> SUFFICES ASSUME op[v] = "create"
                   PROVE  /\ target[v] \in ToSet(file)
                          /\ ToSet(kept[v]) = {l \in ToSet(file) \ {Torn} :
                                                 l = target[v] => ~Owns(v, l)'}
        BY <1>7
      <3>1. \A l : (l = target[v] => ~Owns(v, l)) <=> (l = target[v] => ~Owns(v, l)')
        BY <1>2, <1>3 DEF Owns
      <3> QED BY <1>1, <3>1 DEF DeleteInv
    <2> QED BY <1>1, <1>2, <1>3, <1>6, <1>7, <2>1 DEF Grows, DeleteInv
  <1>8. CASE writer # v /\ writer' # v
    BY <1>1, <1>4, <1>5, <1>6, <1>8 DEF Grows, DeleteInv
  <1> QED BY <1>7, <1>8

\* What a step does to the book: nothing, or a move of the abstract one.
MovesBook == Atomic!BookNext \/ UNCHANGED <<rem, Book, looked, faults>>

LEMMA CreateKeeps ==
  ASSUME StoreInv, NEW u \in Users, NEW form \in Forms, Create(u, form)
  PROVE  StoreInv' /\ Grows /\ MovesBook
  <1> DEFINE id == Len(rem')
  <1>1. /\ rem' \in Seq(Entries) /\ id \in Nat \ {0} /\ id \notin Ids /\ Ids' = Ids \cup {id}
        /\ \A i \in Ids : i \in Nat /\ rem'[i] = rem[i]
    <2>1. rem \in Seq(Entries) /\ [user |-> u, form |-> form] \in Entries
      BY DEF StoreInv, TypesInv, Entries
    <2>2. Ids = 1..Len(rem) /\ Len(rem) \in Nat BY <2>1 DEF Ids
    <2>3. rem' \in Seq(Entries) /\ Len(rem') = Len(rem) + 1 BY <2>1 DEF Create
    <2>4. Ids' = 1..(Len(rem) + 1) BY <2>3 DEF Ids
    <2>5. \A i \in Ids : rem'[i] = rem[i] BY <2>1, <2>2 DEF Create
    <2> QED BY <2>2, <2>3, <2>4, <2>5
  <1> HIDE DEF id
  <1>2. /\ file' = Extend(file, id) /\ promised' = promised \cup {id} /\ writer = Nobody
        /\ UNCHANGED <<writer, op, target, kept, deleted, faults, looked>>
    BY DEF Create, Lock, user, cron, id
  <1>3. /\ file' \in Seq(Nat) /\ WholeButLast(file')
        /\ ToSet(file') = IF Torn \in ToSet(file) THEN ToSet(file) \ {Torn} ELSE ToSet(file) \cup {id}
    BY <1>1, <1>2, Extended DEF StoreInv, FileInv, Torn
  <1>4. TypesInv' BY <1>1, <1>2 DEF StoreInv, TypesInv
  <1>5. deleted \subseteq Ids /\ promised \subseteq Ids BY DEF StoreInv, TypesInv
  <1>6. FileInv' BY <1>1, <1>2, <1>3, <1>5 DEF StoreInv, FileInv, Torn
  <1>7. Grows BY <1>1, <1>2, <1>5 DEF Grows
  <1>8. Book = ToSet(file) \ {Torn} BY <1>2, TheBook DEF StoreInv, FileInv, Holds
  <1>9. Book' = ToSet(file') \ {Torn} BY <1>2, <1>3, TheBookThen DEF Holds
  <1>10. Promised' BY <1>1, <1>2, <1>3, <1>8, <1>9 DEF StoreInv, FileInv, Promised, Torn
  <1>11. \A v \in Users : DeleteInv(v)'
    <2> SUFFICES ASSUME NEW v \in Users PROVE DeleteInv(v)' OBVIOUS
    <2>1. writer # v /\ writer' # v BY <1>2, RemindersAssumption
    <2> QED BY <1>2, <1>7, <2>1, OtherDelete
  <1>12. Book' = Book \cup {id} \/ (faults > 0 /\ Book' = Book)
    BY <1>1, <1>3, <1>8, <1>9 DEF StoreInv, FileInv, Torn
  <1>13. Atomic!Enter
    BY <1>2, <1>12 DEF Atomic!Enter, Create, id
  <1> QED BY <1>4, <1>6, <1>7, <1>10, <1>11, <1>13 DEF StoreInv, MovesBook, Atomic!BookNext

LEMMA CreateTornKeeps ==
  ASSUME StoreInv, NEW u \in Users, CreateTorn(u)
  PROVE  StoreInv' /\ Grows /\ MovesBook
  <1>1. /\ file' = Extend(file, Torn) /\ writer = Nobody /\ faults' = faults + 1
        /\ UNCHANGED <<rem, writer, op, target, kept, deleted, promised, looked>>
    BY DEF CreateTorn, Lock, user, cron, FaultOccurs
  <1>2. file' \in Seq(Nat) /\ WholeButLast(file') /\ ToSet(file') = ToSet(file) \cup {Torn}
    BY <1>1, Extended DEF StoreInv, FileInv, Torn
  <1>3. faults \in Nat /\ faults' > 0 BY <1>1 DEF StoreInv, TypesInv
  <1>4. TypesInv' BY <1>1, <1>3 DEF StoreInv, TypesInv, Ids
  <1>5. Torn \notin Ids /\ deleted \subseteq Ids BY DEF StoreInv, TypesInv, Ids, Torn
  <1>6. FileInv' BY <1>1, <1>2, <1>3, <1>5 DEF StoreInv, FileInv, Ids
  <1>7. Grows BY <1>1, <1>3 DEF Grows, Ids
  <1>8. Promised' BY <1>3 DEF Promised
  <1>9. \A v \in Users : DeleteInv(v)'
    <2> SUFFICES ASSUME NEW v \in Users PROVE DeleteInv(v)' OBVIOUS
    <2>1. writer # v /\ writer' # v BY <1>1, RemindersAssumption
    <2> QED BY <1>1, <1>7, <2>1, OtherDelete
  <1>10. Book = ToSet(file) \ {Torn} BY <1>1, TheBook DEF StoreInv, FileInv, Holds
  <1>11. Book' = ToSet(file') \ {Torn} BY <1>1, <1>2, TheBookThen DEF Holds
  <1>12. Book' = Book BY <1>2, <1>10, <1>11
  <1>13. Atomic!Fault BY <1>1, <1>12 DEF Atomic!Fault
  <1> QED BY <1>4, <1>6, <1>7, <1>8, <1>9, <1>13 DEF StoreInv, MovesBook, Atomic!BookNext

LEMMA DeleteStartsKeeps ==
  ASSUME StoreInv, NEW u \in Users, NEW id \in Ids, DeleteStarts(u, id)
  PROVE  StoreInv' /\ Grows /\ MovesBook
  <1>1. /\ op[u] = "idle" /\ op' = [op EXCEPT ![u] = "lock"] /\ target' = [target EXCEPT ![u] = id]
        /\ promised' = IF Owns(u, id) THEN promised \ {id} ELSE promised
        /\ UNCHANGED <<rem, file, writer, kept, deleted, faults, looked>>
    BY DEF DeleteStarts, Goto, cron
  <1>2. TypesInv BY DEF StoreInv
  <1>3. op'[u] = "lock" /\ target'[u] = id /\ \A v \in Users \ {u} : op'[v] = op[v] /\ target'[v] = target[v]
    BY <1>1, <1>2 DEF TypesInv
  <1>4. id \in Nat BY <1>2 DEF TypesInv, Ids
  <1>5. TypesInv'
    <2>1. op' \in [Users -> {"idle", "lock", "create", "write"}] BY <1>1, <1>2 DEF TypesInv
    <2>2. target' \in [Users -> Nat] BY <1>1, <1>2, <1>4 DEF TypesInv
    <2> QED BY <1>1, <1>2, <2>1, <2>2 DEF TypesInv, Ids
  <1>6. FileInv' BY <1>1 DEF StoreInv, FileInv, Ids, WholeButLast
  <1>7. Grows BY <1>1 DEF Grows, Ids
  <1>8. Book' = Book
    <2>1. Book = Holds(file, writer, op, kept) BY TheBook DEF StoreInv, FileInv
    <2>2. Book' = Holds(file', writer', op', kept') BY <1>6, TheBookThen DEF FileInv
    <2>3. writer = u => op[writer] # "write" /\ op'[writer] # "write" BY <1>1, <1>3
    <2>4. writer \in Users /\ writer # u => op'[writer] = op[writer] BY <1>3
    <2>5. writer \in Users \cup {Nobody} BY <1>2 DEF TypesInv
    <2> QED BY <1>1, <2>1, <2>2, <2>3, <2>4, <2>5 DEF Holds
  <1>9. Promised' BY <1>1, <1>8 DEF StoreInv, Promised
  <1>10. ASSUME NEW v \in Users, v # u PROVE DeleteInv(v)'
    <2>1. op'[v] = op[v] /\ target'[v] = target[v] BY <1>3, <1>10
    <2>2. kept'[v] = kept[v] /\ UNCHANGED <<writer, file, deleted>> BY <1>1
    <2> QED BY <1>7, <2>1, <2>2, OtherDelete
  <1>11. DeleteInv(u)'
    <2>1. DeleteInv(u) BY DEF StoreInv
    <2> QED BY <1>1, <1>3, <2>1 DEF DeleteInv, Owns, Ids
  <1> QED BY <1>1, <1>5, <1>6, <1>7, <1>8, <1>9, <1>10, <1>11 DEF StoreInv, MovesBook

\* A step of u with which nobody else holds the lock, and in which u does something.
LEMMA OnlyOne ==
  ASSUME StoreInv, Grows, NEW u \in Users, writer \in {u, Nobody}, writer' \in {u, Nobody},
         \A v \in Users \ {u} : op'[v] = op[v] /\ target'[v] = target[v] /\ kept'[v] = kept[v],
         DeleteInv(u)'
  PROVE  \A v \in Users : DeleteInv(v)'
  <1> SUFFICES ASSUME NEW v \in Users, v # u PROVE DeleteInv(v)' OBVIOUS
  <1>1. writer # v /\ writer' # v BY RemindersAssumption
  <1>2. op'[v] = op[v] /\ target'[v] = target[v] /\ kept'[v] = kept[v] OBVIOUS
  <1> QED BY <1>1, <1>2, OtherDelete

LEMMA DeleteReadsKeeps ==
  ASSUME StoreInv, NEW u \in Users, DeleteReads(u)
  PROVE  StoreInv' /\ Grows /\ MovesBook
  <1>1. /\ writer = Nobody /\ writer' = u /\ op[u] = "lock" /\ op' = [op EXCEPT ![u] = "create"]
        /\ target[u] \in ToSet(file) /\ kept' = [kept EXCEPT ![u] = Keeps(u)]
        /\ UNCHANGED <<rem, file, target, deleted, promised, faults, looked>>
    BY DEF DeleteReads, Lock, Goto, cron
  <1>2. TypesInv /\ FileInv /\ DeleteInv(u) BY DEF StoreInv
  <1> DEFINE S == {l \in ToSet(file) \ {Torn} : l = target[u] => ~Owns(u, l)}
  <1>3. Keeps(u) \in Seq(Nat) /\ ToSet(Keeps(u)) = S
    <2>1. Keeps(u) = Select(file, S) BY DEF Keeps
    <2>2. S \subseteq ToSet(file) OBVIOUS
    <2> HIDE DEF S
    <2>3. Select(file, S) \in Seq(Nat) /\ ToSet(Select(file, S)) = ToSet(file) \cap S
      BY <1>2, Selected DEF FileInv
    <2> QED BY <2>1, <2>2, <2>3
  <1>4. /\ op'[u] = "create" /\ kept'[u] = Keeps(u)
        /\ \A v \in Users \ {u} : op'[v] = op[v] /\ kept'[v] = kept[v]
    BY <1>1, <1>2 DEF TypesInv
  <1>5. TypesInv'
    <2>1. op' \in [Users -> {"idle", "lock", "create", "write"}] BY <1>1, <1>2 DEF TypesInv
    <2>2. kept' \in [Users -> Seq(Nat)] BY <1>1, <1>2, <1>3 DEF TypesInv
    <2> QED BY <1>1, <1>2, <2>1, <2>2 DEF TypesInv, Ids
  <1>6. FileInv' BY <1>1, <1>2 DEF FileInv, Ids, WholeButLast
  <1>7. Grows BY <1>1 DEF Grows, Ids
  <1>8. Book' = Book
    <2>1. Book = Holds(file, writer, op, kept) BY <1>2, TheBook DEF FileInv
    <2>2. Book' = Holds(file', writer', op', kept') BY <1>6, TheBookThen DEF FileInv
    <2> QED BY <1>1, <1>4, <2>1, <2>2 DEF Holds
  <1>9. Promised' BY <1>1, <1>8 DEF StoreInv, Promised
  <1>10. ToSet(kept[u])' = S BY <1>3, <1>4
  <1>11. DeleteInv(u)'
    <2>1. target[u] \in Ids /\ (Owns(u, target[u]) => target[u] \notin promised)
      BY <1>1, <1>2 DEF DeleteInv
    <2>2. \A l : Owns(u, l)' <=> Owns(u, l) BY <1>1 DEF Owns
    <2>3. S \subseteq Ids \ deleted BY <1>2 DEF FileInv
    <2>4. (target[u] \in ToSet(file) /\
           ToSet(kept[u]) = {l \in ToSet(file) \ {Torn} : l = target[u] => ~Owns(u, l)})'
      BY <1>1, <1>10, <2>2
    <2> HIDE DEF S
    <2> QED BY <1>1, <1>4, <1>10, <2>1, <2>2, <2>3, <2>4 DEF DeleteInv, Ids
  <1>12. \A v \in Users : DeleteInv(v)' BY <1>1, <1>4, <1>7, <1>11, OnlyOne
  <1> QED BY <1>1, <1>5, <1>6, <1>7, <1>8, <1>9, <1>12 DEF StoreInv, MovesBook

\* A delete that lets go of the lock has nothing left to write, or has not begun to.
LEMMA DeleteEnds ==
  ASSUME StoreInv, NEW u \in Users, writer \in {u, Nobody}, writer' = Nobody,
         op[u] = "write" => kept[u] = <<>>,
         op' = [op EXCEPT ![u] = "idle"], Forgets(u), kept' = [kept EXCEPT ![u] = <<>>],
         \/ deleted' = deleted
         \/ deleted' = deleted \cup {target[u]} /\ target[u] \in Ids \ ToSet(file),
         UNCHANGED <<rem, file, promised, faults, looked>>
  PROVE  StoreInv' /\ Grows /\ MovesBook
  <1>1. TypesInv /\ FileInv BY DEF StoreInv
  <1>2. /\ op'[u] = "idle" /\ kept'[u] = <<>>
        /\ \A v \in Users \ {u} : op'[v] = op[v] /\ target'[v] = target[v] /\ kept'[v] = kept[v]
    BY <1>1 DEF TypesInv, Forgets
  <1>3. TypesInv'
    <2>1. op' \in [Users -> {"idle", "lock", "create", "write"}] BY <1>1 DEF TypesInv
    <2>2. kept' \in [Users -> Seq(Nat)] BY <1>1 DEF TypesInv
    <2>3. target' \in [Users -> Nat] BY <1>1 DEF TypesInv, Forgets
    <2>4. deleted' \subseteq Ids BY <1>1 DEF TypesInv
    <2> QED BY <1>1, <2>1, <2>2, <2>3, <2>4 DEF TypesInv, Ids
  <1>4. FileInv' BY <1>1 DEF FileInv, Ids, WholeButLast
  <1>5. Grows BY DEF Grows, Ids
  <1>6. Book' = Book
    <2>1. Book = Holds(file, writer, op, kept) BY <1>1, TheBook DEF FileInv
    <2>2. Book' = Holds(file', writer', op', kept') BY <1>4, TheBookThen DEF FileInv
    <2>3. ToSet(<<>>) = {} /\ {(<<>>)[i] : i \in (DOMAIN <<>>) \ {1}} = {} BY DEF ToSet
    <2>4. Book = ToSet(file) \ {Torn}
      <3>1. CASE writer # Nobody /\ op[writer] = "write"
        <4>1. kept[writer] = <<>> BY <3>1
        <4> QED BY <2>1, <2>3, <4>1 DEF Holds
      <3>2. CASE writer = Nobody \/ op[writer] # "write"
        BY <2>1, <3>2 DEF Holds
      <3> QED BY <3>1, <3>2
    <2> QED BY <2>2, <2>4 DEF Holds
  <1>7. Promised' BY <1>6 DEF StoreInv, Promised
  <1>8. DeleteInv(u)'
    <2>1. writer' # u BY RemindersAssumption
    <2>2. ToSet(kept'[u]) = {} BY <1>2 DEF ToSet
    <2> QED BY <1>2, <2>1, <2>2 DEF DeleteInv
  <1>9. writer' \in {u, Nobody} OBVIOUS
  <1>10. \A v \in Users : DeleteInv(v)' BY <1>2, <1>5, <1>8, <1>9, OnlyOne
  <1> QED BY <1>3, <1>4, <1>5, <1>6, <1>7, <1>10 DEF StoreInv, MovesBook

LEMMA DeleteEndsKeep ==
  ASSUME StoreInv, NEW u \in Users, DeleteFindsNothing(u) \/ DeleteFails(u) \/ DeleteCloses(u)
  PROVE  StoreInv' /\ Grows /\ MovesBook
  <1>1. TypesInv /\ FileInv /\ DeleteInv(u) BY DEF StoreInv
  <1>2. kept[u] = <<>> => kept = [kept EXCEPT ![u] = <<>>] BY <1>1 DEF TypesInv
  <1>3. op[u] = "lock" => kept[u] = <<>> BY <1>1, RemindersAssumption DEF DeleteInv
  <1>4. op[u] # "idle" => target[u] \in Ids BY <1>1 DEF DeleteInv
  <1>5. CASE DeleteFindsNothing(u)
    <2>1. /\ writer = Nobody /\ writer' = Nobody /\ op[u] = "lock" /\ op' = [op EXCEPT ![u] = "idle"]
          /\ Forgets(u) /\ kept' = kept /\ UNCHANGED <<rem, file, promised, faults, looked>>
          /\ target[u] \notin ToSet(file) /\ Told(u)
      BY <1>5 DEF DeleteFindsNothing, Lock, Goto, cron
    <2>2. kept' = [kept EXCEPT ![u] = <<>>] BY <1>2, <1>3, <2>1
    <2>3. \/ deleted' = deleted
          \/ deleted' = deleted \cup {target[u]} /\ target[u] \in Ids \ ToSet(file)
      BY <1>4, <2>1 DEF Told
    <2>4. (op[u] = "write" => kept[u] = <<>>) /\ writer \in {u, Nobody} BY <2>1
    <2> QED BY <2>1, <2>2, <2>3, <2>4, DeleteEnds
  <1>6. CASE DeleteFails(u)
    <2>1. /\ Forgets(u) /\ UNCHANGED <<rem, file, deleted, promised, faults, looked>>
          /\ op[u] \in {"lock", "create"} /\ op' = [op EXCEPT ![u] = "idle"]
      BY <1>6 DEF DeleteFails, Goto, cron
    <2>2. /\ writer' = Nobody /\ kept' = [kept EXCEPT ![u] = <<>>] /\ writer \in {u, Nobody}
      BY <1>1, <1>2, <1>3, <1>6 DEF DeleteFails, DeleteInv, Lock, Goto
    <2>3. op[u] = "write" => kept[u] = <<>> BY <2>1
    <2>4. deleted' = deleted BY <2>1
    <2> QED BY <2>1, <2>2, <2>3, <2>4, DeleteEnds
  <1>7. CASE DeleteCloses(u)
    <2>1. /\ writer' = Nobody /\ op[u] = "write" /\ op' = [op EXCEPT ![u] = "idle"]
          /\ Forgets(u) /\ kept' = kept /\ kept[u] = <<>> /\ Told(u)
          /\ UNCHANGED <<rem, file, promised, faults, looked>>
      BY <1>7 DEF DeleteCloses, Goto, cron
    <2>2. kept' = [kept EXCEPT ![u] = <<>>] BY <1>2, <2>1
    <2>3. \/ deleted' = deleted
          \/ deleted' = deleted \cup {target[u]} /\ target[u] \in Ids \ ToSet(file)
      BY <1>1, <1>4, <2>1 DEF Told, DeleteInv
    <2>4. (op[u] = "write" => kept[u] = <<>>) /\ writer \in {u, Nobody}
      BY <1>1, <2>1 DEF DeleteInv
    <2> QED BY <2>1, <2>2, <2>3, <2>4, DeleteEnds
  <1> QED BY <1>5, <1>6, <1>7

LEMMA DeleteTruncatesKeeps ==
  ASSUME StoreInv, NEW u \in Users, DeleteTruncates(u)
  PROVE  StoreInv' /\ Grows /\ MovesBook
  <1>1. /\ op[u] = "create" /\ op' = [op EXCEPT ![u] = "write"] /\ file' = <<>>
        /\ UNCHANGED <<rem, writer, target, kept, deleted, promised, faults, looked>>
    BY DEF DeleteTruncates, Goto, cron
  <1>2. TypesInv /\ FileInv /\ DeleteInv(u) BY DEF StoreInv
  <1>3. writer = u /\ u # Nobody BY <1>1, <1>2, RemindersAssumption DEF DeleteInv
  <1>4. op'[u] = "write" /\ \A v \in Users \ {u} : op'[v] = op[v] BY <1>1, <1>2 DEF TypesInv
  <1>5. TypesInv'
    <2>1. op' \in [Users -> {"idle", "lock", "create", "write"}] BY <1>1, <1>2 DEF TypesInv
    <2> QED BY <1>1, <1>2, <2>1 DEF TypesInv, Ids
  <1>6. ToSet(file') = {} /\ file' \in Seq(Nat) /\ WholeButLast(file')
    BY <1>1 DEF ToSet, WholeButLast
  <1>7. FileInv' BY <1>6 DEF FileInv
  <1>8. Grows BY <1>1 DEF Grows, Ids
  <1>9. Book = ToSet(file) \ {Torn} BY <1>1, <1>2, <1>3, TheBook DEF FileInv, Holds
  <1>10. Book' = ToSet(kept[u]) BY <1>1, <1>3, <1>4, <1>6, TheBookThen DEF Holds
  <1>11. target[u] \in ToSet(file) /\ target[u] \in Ids /\ target[u] # Torn
         /\ (Owns(u, target[u]) => target[u] \notin promised)
    BY <1>1, <1>2 DEF DeleteInv, TypesInv, Ids, Torn
  <1>12. Book' = IF Owns(u, target[u]) THEN Book \ {target[u]} ELSE Book
    BY <1>1, <1>2, <1>9, <1>10, <1>11 DEF DeleteInv
  <1>13. Promised' BY <1>1, <1>11, <1>12 DEF StoreInv, Promised
  <1>14. DeleteInv(u)'
    <2>1. Owns(u, target[u])' <=> Owns(u, target[u]) BY <1>1 DEF Owns
    <2>2. Owns(u, target[u]) => target[u] \notin ToSet(kept[u]) BY <1>10, <1>12
    <2> QED BY <1>1, <1>2, <1>3, <1>4, <1>6, <2>1, <2>2 DEF DeleteInv, Ids
  <1>15. \A v \in Users : DeleteInv(v)'
    <2>1. writer \in {u, Nobody} /\ writer' \in {u, Nobody} BY <1>1, <1>3
    <2>2. \A v \in Users \ {u} : op'[v] = op[v] /\ target'[v] = target[v] /\ kept'[v] = kept[v]
      BY <1>1, <1>4
    <2> QED BY <1>8, <1>14, <2>1, <2>2, OnlyOne
  <1>16. MovesBook
    <2>1. CASE Owns(u, target[u])
      <3>1. Atomic!Strike BY <1>1, <1>9, <1>11, <1>12, <2>1 DEF Atomic!Strike, Owns
      <3> QED BY <3>1 DEF MovesBook, Atomic!BookNext
    <2>2. CASE ~Owns(u, target[u]) BY <1>1, <1>12, <2>2 DEF MovesBook
    <2> QED BY <2>1, <2>2
  <1> QED BY <1>5, <1>7, <1>8, <1>13, <1>15, <1>16 DEF StoreInv

\* What is in the file and what a delete has to write shrink together.
LEMMA Shrinks ==
  ASSUME StoreInv, NEW u \in Users, op[u] = "write", kept[u] # <<>>,
         kept' = [kept EXCEPT ![u] = Tail(@)],
         UNCHANGED <<rem, writer, op, target, deleted, promised, looked>>,
         faults' \in Nat, faults' >= faults,
         file' \in Seq(Nat), WholeButLast(file'), Torn \in ToSet(file') => faults' > 0,
         ToSet(file') \subseteq ToSet(file) \cup {Torn, Head(kept[u])}
  PROVE  /\ TypesInv' /\ FileInv' /\ Grows /\ \A v \in Users : DeleteInv(v)'
         /\ Book = (ToSet(file) \ {Torn}) \cup
                     (IF Torn \in ToSet(file) THEN {} ELSE {Head(kept[u])}) \cup ToSet(Tail(kept[u]))
         /\ Book' \subseteq (ToSet(file') \ {Torn}) \cup ToSet(Tail(kept[u]))
         /\ Torn \notin ToSet(file') => Book' = ToSet(file') \cup ToSet(Tail(kept[u]))
         /\ Head(kept[u]) \in Ids
  <1> DEFINE rest == Tail(kept[u])
  <1>1. TypesInv /\ FileInv /\ DeleteInv(u) BY DEF StoreInv
  <1>2. writer = u /\ u # Nobody BY <1>1, RemindersAssumption DEF DeleteInv
  <1>3. kept[u] \in Seq(Nat) BY <1>1 DEF TypesInv
  <1>4. /\ Head(kept[u]) \in ToSet(kept[u]) /\ rest \in Seq(Nat)
        /\ ToSet(kept[u]) = {Head(kept[u])} \cup ToSet(rest)
        /\ {kept[u][i] : i \in DOMAIN kept[u] \ {1}} = ToSet(rest)
    BY <1>3, HeadAndTail
  <1>5. kept'[u] = rest /\ \A v \in Users \ {u} : kept'[v] = kept[v] BY <1>1 DEF TypesInv
  <1>6. TypesInv'
    <2>1. kept' \in [Users -> Seq(Nat)] BY <1>1, <1>4 DEF TypesInv
    <2> QED BY <1>1, <2>1 DEF TypesInv, Ids
  <1> HIDE DEF rest
  <1>7. Torn \notin Ids /\ Ids' = Ids BY <1>1 DEF TypesInv, Ids, Torn
  <1>8. ToSet(kept[u]) \subseteq Ids \ deleted /\ deleted \subseteq Ids BY <1>1 DEF DeleteInv, TypesInv
  <1>9. FileInv' BY <1>1, <1>4, <1>7, <1>8 DEF FileInv
  <1>10. Grows
    <2>1. faults' = 0 => faults = 0 BY <1>1 DEF TypesInv
    <2> QED BY <1>7, <2>1 DEF Grows
  <1>11. DeleteInv(u)'
    <2>1. Owns(u, target[u])' <=> Owns(u, target[u]) BY DEF Owns
    <2>2. op[u] = "write" /\ Owns(u, target[u]) => target[u] \notin ToSet(file') \cup ToSet(rest)
      BY <1>1, <1>4, <1>7 DEF DeleteInv
    <2>3. ToSet(rest) \subseteq Ids \ deleted BY <1>4, <1>8
    <2> QED BY <1>1, <1>2, <1>5, <1>7, <2>1, <2>2, <2>3 DEF DeleteInv
  <1>12. \A v \in Users : DeleteInv(v)'
    <2>1. writer \in {u, Nobody} /\ writer' \in {u, Nobody} BY <1>2
    <2>2. \A v \in Users \ {u} : op'[v] = op[v] /\ target'[v] = target[v] /\ kept'[v] = kept[v]
      BY <1>5
    <2> QED BY <1>10, <1>11, <2>1, <2>2, OnlyOne
  <1>13. Book = (ToSet(file) \ {Torn}) \cup
                 (IF Torn \in ToSet(file) THEN {} ELSE {Head(kept[u])}) \cup ToSet(rest)
    <2>1. Book = (ToSet(file) \ {Torn}) \cup
                 IF Torn \in ToSet(file) THEN ToSet(rest) ELSE ToSet(kept[u])
      BY <1>1, <1>2, <1>4, TheBook DEF FileInv, Holds
    <2> QED BY <1>4, <2>1
  <1>14. Book' = (ToSet(file') \ {Torn}) \cup
                 IF Torn \in ToSet(file') THEN {rest[i] : i \in DOMAIN rest \ {1}} ELSE ToSet(rest)
    <2>1. writer' = u /\ op'[writer'] = "write" /\ kept'[writer'] = rest /\ writer' # Nobody
      BY <1>2, <1>5
    <2>2. Book' = Holds(file', writer', op', kept') BY TheBookThen
    <2> QED BY <2>1, <2>2 DEF Holds
  <1>15. {rest[i] : i \in DOMAIN rest \ {1}} \subseteq ToSet(rest) BY DEF ToSet
  <1> QED BY <1>4, <1>6, <1>8, <1>9, <1>10, <1>12, <1>13, <1>14, <1>15 DEF rest

LEMMA DeleteWritesKeeps ==
  ASSUME StoreInv, NEW u \in Users, DeleteWrites(u) \/ DeleteWriteFails(u)
  PROVE  StoreInv' /\ Grows /\ MovesBook
  <1>1. TypesInv /\ FileInv /\ DeleteInv(u) /\ faults \in Nat BY DEF StoreInv, TypesInv
  <1>2. /\ op[u] = "write" /\ kept[u] # <<>> /\ kept' = [kept EXCEPT ![u] = Tail(@)]
        /\ UNCHANGED <<rem, writer, op, target, deleted, promised, looked>>
    BY DEF DeleteWrites, DeleteWriteFails, cron
  <1>3. Head(kept[u]) \in ToSet(kept[u]) /\ Head(kept[u]) \in Nat
    <2>1. kept[u] \in Seq(Nat) BY <1>1 DEF TypesInv
    <2> QED BY <1>2, <2>1, HeadAndTail, InSet
  <1>4. Head(kept[u]) # Torn BY <1>1, <1>3 DEF DeleteInv, TypesInv, Ids, Torn
  <1>5. CASE DeleteWrites(u)
    <2>1. file' = Extend(file, Head(kept[u])) /\ faults' = faults BY <1>5 DEF DeleteWrites
    <2>2. /\ file' \in Seq(Nat) /\ WholeButLast(file')
          /\ ToSet(file') = IF Torn \in ToSet(file) THEN ToSet(file) \ {Torn}
                             ELSE ToSet(file) \cup {Head(kept[u])}
      BY <1>1, <1>3, <1>4, <2>1, Extended DEF FileInv
    <2>3. Torn \notin ToSet(file') BY <1>4, <2>2
    <2>4. faults' \in Nat /\ faults' >= faults BY <1>1, <2>1
    <2>5. ToSet(file') \subseteq ToSet(file) \cup {Torn, Head(kept[u])} BY <2>2
    <2>6. /\ TypesInv' /\ FileInv' /\ Grows /\ \A v \in Users : DeleteInv(v)'
          /\ Book = (ToSet(file) \ {Torn}) \cup
                     (IF Torn \in ToSet(file) THEN {} ELSE {Head(kept[u])}) \cup ToSet(Tail(kept[u]))
          /\ Book' = ToSet(file') \cup ToSet(Tail(kept[u]))
      BY <1>2, <2>2, <2>3, <2>4, <2>5, Shrinks
    <2>7. Book' = Book BY <2>2, <2>6
    <2>8. Promised' BY <1>2, <2>1, <2>7 DEF StoreInv, Promised
    <2> QED BY <1>2, <2>1, <2>6, <2>7, <2>8 DEF StoreInv, MovesBook
  <1>6. CASE DeleteWriteFails(u)
    <2>1. file' \in {file, Extend(file, Torn)} /\ faults' = faults + 1
      BY <1>6 DEF DeleteWriteFails, FaultOccurs
    <2>2. /\ file' \in Seq(Nat) /\ WholeButLast(file')
          /\ ToSet(file) \subseteq ToSet(file') /\ ToSet(file') \subseteq ToSet(file) \cup {Torn}
      BY <1>1, <2>1, Extended DEF FileInv, Torn
    <2>3. faults' \in Nat /\ faults' >= faults /\ faults' > 0 BY <1>1, <2>1
    <2>4. ToSet(file') \subseteq ToSet(file) \cup {Torn, Head(kept[u])} BY <2>2
    <2>5. /\ TypesInv' /\ FileInv' /\ Grows /\ \A v \in Users : DeleteInv(v)'
          /\ Book = (ToSet(file) \ {Torn}) \cup
                     (IF Torn \in ToSet(file) THEN {} ELSE {Head(kept[u])}) \cup ToSet(Tail(kept[u]))
          /\ Book' \subseteq (ToSet(file') \ {Torn}) \cup ToSet(Tail(kept[u]))
      BY <1>2, <2>2, <2>3, <2>4, Shrinks
    <2>6. Book' \subseteq Book BY <2>2, <2>5
    <2>7. Promised' BY <2>3 DEF Promised
    <2>8. Atomic!Fault BY <1>2, <2>1, <2>6 DEF Atomic!Fault
    <2> QED BY <2>5, <2>7, <2>8 DEF StoreInv, MovesBook, Atomic!BookNext
  <1> QED BY <1>5, <1>6

LEMMA CrashKeeps ==
  ASSUME StoreInv, Crash
  PROVE  StoreInv' /\ Grows /\ MovesBook
  <1>1. TypesInv /\ FileInv BY DEF StoreInv
  <1>2. /\ op' = [u \in Users |-> "idle"] /\ kept' = [u \in Users |-> <<>>]
        /\ target' = [u \in Users |-> 0] /\ writer' = Nobody
        /\ UNCHANGED <<rem, file, deleted, promised, looked>>
        /\ \/ faults' = faults + 1
           \/ faults' = faults /\ \A u \in Users : op[u] # "write"
    BY DEF Crash, FaultOccurs
  <1>3. faults \in Nat /\ faults' \in Nat /\ (faults > 0 => faults' > 0) /\ (faults' = 0 => faults = 0)
    BY <1>1, <1>2 DEF TypesInv
  <1>4. TypesInv' BY <1>1, <1>2, <1>3 DEF TypesInv, Ids
  <1>5. FileInv' BY <1>1, <1>2, <1>3 DEF FileInv, Ids, WholeButLast
  <1>6. Grows BY <1>2, <1>3 DEF Grows, Ids
  <1>7. \A u \in Users : DeleteInv(u)'
    <2> SUFFICES ASSUME NEW u \in Users PROVE DeleteInv(u)' OBVIOUS
    <2>1. op'[u] = "idle" /\ kept'[u] = <<>> /\ writer' # u BY <1>2, RemindersAssumption
    <2>2. ToSet(kept'[u]) = {} BY <2>1 DEF ToSet
    <2> QED BY <2>1, <2>2 DEF DeleteInv
  <1>8. Book = Holds(file, writer, op, kept) BY <1>1, TheBook DEF FileInv
  <1>9. Book' = ToSet(file) \ {Torn} BY <1>2, <1>5, TheBookThen DEF FileInv, Holds
  <1>10. Book' \subseteq Book BY <1>8, <1>9 DEF Holds
  <1>11. CASE faults' = faults + 1
    <2>1. Atomic!Fault BY <1>2, <1>10, <1>11 DEF Atomic!Fault
    <2>2. Promised' BY <1>3, <1>11 DEF Promised
    <2> QED BY <1>4, <1>5, <1>6, <1>7, <2>1, <2>2 DEF StoreInv, MovesBook, Atomic!BookNext
  <1>12. CASE faults' = faults /\ \A u \in Users : op[u] # "write"
    <2>1. Book' = Book BY <1>1, <1>8, <1>9, <1>12 DEF Holds, TypesInv
    <2>2. Promised' BY <1>2, <1>12, <2>1 DEF StoreInv, Promised
    <2> QED BY <1>2, <1>4, <1>5, <1>6, <1>7, <1>12, <2>1, <2>2 DEF StoreInv, MovesBook
  <1> QED BY <1>2, <1>11, <1>12

LEMMA UserKeepsStore ==
  ASSUME StoreInv, NEW u \in Users, UserStep(u)
  PROVE  StoreInv' /\ Grows /\ MovesBook /\ UNCHANGED <<now, cron>>
  <1>1. CASE \E form \in Forms : Create(u, form)
    BY <1>1, CreateKeeps DEF Create
  <1>2. CASE CreateTorn(u)
    BY <1>2, CreateTornKeeps DEF CreateTorn
  <1>3. CASE \E id \in Ids : DeleteStarts(u, id)
    BY <1>3, DeleteStartsKeeps DEF DeleteStarts
  <1>4. CASE DeleteReads(u)
    BY <1>4, DeleteReadsKeeps DEF DeleteReads
  <1>5. CASE DeleteFindsNothing(u) \/ DeleteFails(u) \/ DeleteCloses(u)
    BY <1>5, DeleteEndsKeep DEF DeleteFindsNothing, DeleteFails, DeleteCloses
  <1>6. CASE DeleteTruncates(u)
    BY <1>6, DeleteTruncatesKeeps DEF DeleteTruncates
  <1>7. CASE DeleteWrites(u) \/ DeleteWriteFails(u)
    BY <1>7, DeleteWritesKeeps DEF DeleteWrites, DeleteWriteFails
  <1> QED BY <1>1, <1>2, <1>3, <1>4, <1>5, <1>6, <1>7 DEF UserStep, Deleting

\* The cron reads the store and never changes it.
CronStep == (\E r \in Runs : RunStep(r)) \/ Tick \/ Fire

LEMMA CronKeepsStore ==
  ASSUME StoreInv, CronStep
  PROVE  StoreInv' /\ Grows /\ MovesBook
  <1>1. UNCHANGED <<rem, file, writer, op, target, kept, deleted, promised, faults>>
    BY DEF CronStep, RunStep, RunLists, RunListFails, RunReadsClock, RunHandlesNext, RunSendReturns, RunEnds, Tick, Fire,
           user
  <1>2. Ids' = Ids /\ Grows BY <1>1 DEF Ids, Grows
  <1>3. TypesInv' BY <1>1, <1>2 DEF StoreInv, TypesInv
  <1>4. FileInv' BY <1>1, <1>2 DEF StoreInv, FileInv, WholeButLast
  <1>5. Book' = Book
    <2>1. Book = Holds(file, writer, op, kept) BY TheBook DEF StoreInv, FileInv
    <2>2. Book' = Holds(file', writer', op', kept') BY <1>4, TheBookThen DEF FileInv
    <2> QED BY <1>1, <2>1, <2>2
  <1>6. Promised' BY <1>1, <1>5 DEF StoreInv, Promised
  <1>7. \A u \in Users : DeleteInv(u)' BY <1>1, <1>2, OtherDelete
  <1>8. MovesBook
    <2>1. CASE \E r \in Runs : RunLists(r)
      <3>1. PICK r \in Runs : RunLists(r) BY <2>1
      <3>2. Book = ToSet(Readable(file)) BY <3>1 DEF RunLists, Lock, Book
      <3>3. looked' = [looked EXCEPT ![r] = Book] BY <3>1, <3>2 DEF RunLists
      <3>4. Atomic!Look BY <1>1, <1>5, <3>3 DEF Atomic!Look
      <3> QED BY <3>4 DEF MovesBook, Atomic!BookNext
    <2>2. CASE ~\E r \in Runs : RunLists(r)
      <3>1. looked' = looked
        BY <2>2 DEF CronStep, RunStep, RunListFails, RunReadsClock, RunHandlesNext, RunSendReturns, RunEnds, Tick, Fire,
                    cron
      <3> QED BY <1>1, <1>5, <3>1 DEF MovesBook
    <2> QED BY <2>1, <2>2
  <1> QED BY <1>2, <1>3, <1>4, <1>6, <1>7, <1>8 DEF StoreInv

-----------------------------------------------------------------------------
(* The cron.                                                               *)

\* What another run, or a user, does leaves a run where it is.
LEMMA RunGoesOn ==
  ASSUME Grows, NEW r \in Runs, RunInv(r), fired \in Nat, fired' \in Nat, fired' >= fired,
         run'[r] = run[r], at'[r] = at[r], list'[r] = list[r], due'[r] = due[r], gone'[r] = gone[r],
         sent \subseteq sent'
  PROVE  RunInv(r)'
  <1>1. r \in Nat BY RemindersAssumption DEF Runs
  <1>2. \A id \in Ids : Wanted(id, r)' <=> Wanted(id, r)
    BY DEF Grows, Wanted, DueAt
  <1>3. \A id : WasSent(id, r) => WasSent(id, r)' BY DEF WasSent
  <1>4. due'[r] \cap promised' \subseteq due[r] \cap promised BY DEF Grows, RunInv
  <1>5. (faults = 0 /\ run[r] \in {"send", "sending", "done"} /\ at[r] = r =>
           \A id \in due[r] \cap promised :
             Wanted(id, r) => id \in ToSet(list[r]) \/ WasSent(id, r))'
    <2> SUFFICES ASSUME faults' = 0, run[r] \in {"send", "sending", "done"}, at[r] = r,
                        NEW id \in due[r] \cap promised, id \in Ids, Wanted(id, r)
                 PROVE  id \in ToSet(list[r]) \/ WasSent(id, r)
      BY <1>2, <1>3, <1>4 DEF RunInv
    <2> QED BY DEF Grows, RunInv
  <1>6. (r > fired => run[r] = "none")' BY <1>1 DEF RunInv
  <1>7. (ToSet(list[r]) \subseteq Ids \ gone[r] /\ gone[r] \subseteq deleted /\ due[r] \subseteq Ids)'
    BY DEF Grows, RunInv
  <1>8. (faults = 0 /\ run[r] = "clock" => due[r] \cap promised \subseteq ToSet(list[r]))'
    BY <1>4 DEF Grows, RunInv
  <1>9. (run[r] \notin {"clock", "send", "sending"} => list[r] = <<>>)' /\ (run[r] \in {"send", "sending"} => at[r] >= r)'
    BY DEF RunInv
  <1> QED BY <1>5, <1>6, <1>7, <1>8, <1>9 DEF RunInv

\* What was sent stays right when nothing is sent.
LEMMA SentStays ==
  ASSUME StoreInv, CronInv, Grows, fired' \in Nat, fired' >= fired, sent' = sent,
         \A r \in 1..fired : gone'[r] = gone[r]
  PROVE  /\ InTime' /\ DeletedStaysQuiet'
         /\ (sent \subseteq Sends)'
  <1>1. fired \in Nat BY DEF CronInv, CronTypes
  <1>2. 1..fired \subseteq 1..fired' BY <1>1
  <1>3. \A s \in sent : s.id \in Ids /\ s.run \in 1..fired BY DEF CronInv, CronTypes, Sends
  <1>4. (sent \subseteq Sends)' BY <1>2 DEF CronInv, CronTypes, Grows, Sends
  <1> QED BY <1>1, <1>2, <1>3, <1>4 DEF CronInv, Grows, InTime, DeletedStaysQuiet

LEMMA UserKeepsCron ==
  ASSUME StoreInv, CronInv, Grows, UNCHANGED <<now, cron>>
  PROVE  CronInv'
  <1>1. UNCHANGED <<now, fired, run, at, list, looked, due, gone, sent>> BY DEF cron
  <1>2. fired \in Nat /\ fired' \in Nat /\ fired' >= fired BY <1>1 DEF CronInv, CronTypes
  <1>3. \A r \in Runs : RunInv(r)' BY <1>1, <1>2, RunGoesOn DEF CronInv
  <1>4. /\ InTime' /\ DeletedStaysQuiet'
        /\ (sent \subseteq Sends)'
    BY <1>1, <1>2, SentStays
  <1>5. CronTypes' BY <1>1, <1>4 DEF CronInv, CronTypes, Runs
  <1> QED BY <1>3, <1>4, <1>5 DEF CronInv

LEMMA TickKeepsCron ==
  ASSUME StoreInv, CronInv, Grows, Tick
  PROVE  CronInv'
  <1>1. now < MaxMinute /\ now' = now + 1 /\ UNCHANGED <<fired, run, at, list, due, gone, sent>>
    BY DEF Tick, cron
  <1>2. /\ fired \in Nat /\ fired' \in Nat /\ fired' >= fired
        /\ now' \in 0..MaxMinute /\ fired' \in 0..now' /\ 0..now \subseteq 0..now'
    BY <1>1, RemindersAssumption DEF CronInv, CronTypes
  <1>3. \A r \in Runs : RunInv(r)' BY <1>1, <1>2, RunGoesOn DEF CronInv
  <1>4. /\ InTime' /\ DeletedStaysQuiet'
        /\ (sent \subseteq Sends)'
    BY <1>1, <1>2, SentStays
  <1>5. CronTypes' BY <1>1, <1>2, <1>4 DEF CronInv, CronTypes, Runs
  <1> QED BY <1>3, <1>4, <1>5 DEF CronInv

LEMMA FireKeepsCron ==
  ASSUME StoreInv, CronInv, Grows, Fire
  PROVE  CronInv'
  <1>1. /\ fired < now /\ fired' = now /\ run' = [run EXCEPT ![now] = "list"]
        /\ due' = [due EXCEPT ![now] = promised] /\ gone' = [gone EXCEPT ![now] = deleted]
        /\ UNCHANGED <<rem, deleted, promised, now, at, list, sent, faults>>
    BY DEF Fire
  <1>2. CronTypes BY DEF CronInv
  <1>3. /\ fired \in Nat /\ now \in Nat /\ fired' \in Nat /\ fired' >= fired /\ now \in Runs
        /\ now \notin 1..fired /\ 1..fired \subseteq Runs
    BY <1>1, <1>2, RemindersAssumption DEF CronTypes, Runs
  <1>4. run'[now] = "list" /\ due'[now] = promised /\ gone'[now] = deleted
    BY <1>1, <1>2, <1>3 DEF CronTypes
  <1>5. \A r \in Runs : r # now => run'[r] = run[r] /\ due'[r] = due[r] /\ gone'[r] = gone[r]
    BY <1>1, <1>2 DEF CronTypes
  <1>6. ASSUME NEW r \in Runs, r # now PROVE RunInv(r)'
    <2>1. run'[r] = run[r] /\ at'[r] = at[r] /\ list'[r] = list[r] /\ due'[r] = due[r]
          /\ gone'[r] = gone[r] /\ sent \subseteq sent'
      BY <1>1, <1>5, <1>6
    <2>2. RunInv(r) BY DEF CronInv
    <2> QED BY <1>3, <2>1, <2>2, RunGoesOn
  <1>7. RunInv(now)'
    <2>1. RunInv(now) BY <1>3 DEF CronInv
    <2>2. list[now] = <<>> BY <1>1, <1>3, <2>1 DEF RunInv
    <2>3. ToSet(list'[now]) = {} BY <1>1, <2>2 DEF ToSet
    <2>4. deleted \subseteq Ids /\ promised \subseteq Ids BY DEF StoreInv, TypesInv
    <2>5. ~(now > fired') BY <1>1, <1>3
    <2> QED BY <1>1, <1>4, <2>2, <2>3, <2>4, <2>5 DEF RunInv, Ids
  <1>8. \A r \in Runs : RunInv(r)' BY <1>1, <1>6, <1>7
  <1>9. /\ InTime' /\ DeletedStaysQuiet'
        /\ (sent \subseteq Sends)'
    <2>1. \A r \in 1..fired : gone'[r] = gone[r] BY <1>3, <1>5
    <2> QED BY <1>1, <1>3, <2>1, SentStays
  <1>10. CronTypes'
    <2>1. run' \in [Runs -> Phases]
      BY <1>1, <1>2 DEF CronTypes, Phases
    <2>2. DOMAIN due' = Runs /\ DOMAIN gone' = Runs BY <1>1, <1>2 DEF CronTypes
    <2>3. fired' \in 0..now' /\ now' \in 0..MaxMinute BY <1>1, <1>2, <1>3 DEF CronTypes
    <2> QED BY <1>1, <1>2, <1>9, <2>1, <2>2, <2>3 DEF CronTypes, Runs
  <1> QED BY <1>8, <1>9, <1>10 DEF CronInv

LEMMA CrashKeepsCron ==
  ASSUME StoreInv, CronInv, Grows, Crash
  PROVE  CronInv'
  <1>1. /\ fired' = now /\ list' = [r \in Runs |-> <<>>]
        /\ run' = [r \in Runs |-> IF run[r] = "none" THEN "none"
                                  ELSE IF run[r] = "done" THEN "done" ELSE "failed"]
        /\ UNCHANGED <<rem, deleted, promised, now, at, due, gone, sent>>
    BY DEF Crash
  <1>2. CronTypes BY DEF CronInv
  <1>3. fired \in Nat /\ now \in Nat /\ fired' \in Nat /\ fired' >= fired /\ fired' \in 0..now'
    BY <1>1, <1>2, RemindersAssumption DEF CronTypes
  <1>4. ASSUME NEW r \in Runs PROVE RunInv(r)'
    <2>1. RunInv(r) BY DEF CronInv
    <2>2. r \in Nat BY RemindersAssumption DEF Runs
    <2>3. list'[r] = <<>> /\ ToSet(list'[r]) = {} BY <1>1 DEF ToSet
    <2>4. /\ run'[r] \in {"none", "done", "failed"} /\ (run[r] = "none" => run'[r] = "none")
          /\ (run'[r] = "done" => run[r] = "done" /\ list[r] = <<>>)
      BY <1>1, <2>1 DEF RunInv
    <2>5. (r > fired => run[r] = "none")' BY <1>1, <1>3, <2>1, <2>2, <2>4 DEF RunInv
    <2>6. (faults = 0 /\ run[r] \in {"send", "sending", "done"} /\ at[r] = r =>
             \A id \in due[r] \cap promised :
               Wanted(id, r) => id \in ToSet(list[r]) \/ WasSent(id, r))'
      <3> SUFFICES ASSUME faults' = 0, run'[r] = "done", at[r] = r,
                          NEW id \in due[r] \cap promised, Wanted(id, r)
                   PROVE  WasSent(id, r)
        BY <1>1, <2>4 DEF WasSent, Wanted, DueAt
      <3>1. faults = 0 /\ run[r] = "done" /\ ToSet(list[r]) = {} BY <2>4 DEF Grows, ToSet
      <3> QED BY <2>1, <3>1 DEF RunInv
    <2> QED BY <1>1, <2>1, <2>3, <2>4, <2>5, <2>6 DEF RunInv, Ids
  <1>5. /\ InTime' /\ DeletedStaysQuiet'
        /\ (sent \subseteq Sends)'
    BY <1>1, <1>3, SentStays
  <1>6. CronTypes'
    <2>1. run' \in [Runs -> Phases]
          /\ list' \in [Runs -> Seq(Nat)]
      BY <1>1, <1>2 DEF CronTypes, Phases
    <2> QED BY <1>1, <1>2, <1>3, <1>5, <2>1 DEF CronTypes, Runs
  <1> QED BY <1>4, <1>5, <1>6 DEF CronInv

\* A step of one run is right when it is right for that run, and what it sends is.
LEMMA OneRun ==
  ASSUME StoreInv, CronInv, Grows, NEW r \in Runs,
         UNCHANGED <<now, fired, due, gone>>,
         \A q \in Runs \ {r} : run'[q] = run[q] /\ at'[q] = at[q] /\ list'[q] = list[q],
         run' \in [Runs -> Phases],
         at' \in [Runs -> 0..now], list' \in [Runs -> Seq(Nat)],
         sent \subseteq sent', RunInv(r)', InTime', DeletedStaysQuiet',
         (sent \subseteq Sends)'
  PROVE  CronInv'
  <1>1. fired \in Nat /\ fired' = fired /\ fired' >= fired BY DEF CronInv, CronTypes
  <1>2. ASSUME NEW q \in Runs, q # r PROVE RunInv(q)'
    <2>1. run'[q] = run[q] /\ at'[q] = at[q] /\ list'[q] = list[q] BY <1>2
    <2>2. RunInv(q) /\ due'[q] = due[q] /\ gone'[q] = gone[q] BY DEF CronInv
    <2> QED BY <1>1, <2>1, <2>2, RunGoesOn
  <1>3. CronTypes' BY <1>1 DEF CronInv, CronTypes, Runs
  <1> QED BY <1>2, <1>3 DEF CronInv

LEMMA RunListsKeepsCron ==
  ASSUME StoreInv, CronInv, Grows, NEW r \in Runs, RunLists(r)
  PROVE  CronInv'
  <1> DEFINE lines == Readable(file)
  <1>1. /\ writer = Nobody /\ run[r] = "list" /\ run' = [run EXCEPT ![r] = "clock"]
        /\ list' = [list EXCEPT ![r] = lines]
        /\ UNCHANGED <<rem, deleted, promised, now, fired, at, due, gone, sent, faults>>
    BY DEF RunLists, Lock, Step
  <1>2. lines \in Seq(Nat) /\ ToSet(lines) = ToSet(file) \ {Torn} /\ Book = ToSet(lines)
    BY <1>1, ReadableLines DEF StoreInv, FileInv, Book
  <1> HIDE DEF lines
  <1>3. CronTypes /\ RunInv(r) BY DEF CronInv
  <1>4. /\ run'[r] = "clock" /\ list'[r] = lines
        /\ \A q \in Runs \ {r} : run'[q] = run[q] /\ at'[q] = at[q] /\ list'[q] = list[q]
    BY <1>1, <1>3 DEF CronTypes
  <1>5. RunInv(r)'
    <2>1. (r > fired => run[r] = "none")' BY <1>1, <1>3 DEF RunInv
    <2>2. ToSet(lines) \subseteq Ids \ gone[r] BY <1>2, <1>3 DEF StoreInv, FileInv, RunInv
    <2>3. faults = 0 => due[r] \cap promised \subseteq ToSet(lines) BY <1>2 DEF StoreInv, Promised
    <2> QED BY <1>1, <1>3, <1>4, <2>1, <2>2, <2>3 DEF RunInv, Ids
  <1>6. /\ InTime' /\ DeletedStaysQuiet'
        /\ (sent \subseteq Sends)'
    BY <1>1, SentStays DEF CronInv, CronTypes
  <1>7. /\ run' \in [Runs -> Phases]
        /\ at' \in [Runs -> 0..now] /\ list' \in [Runs -> Seq(Nat)]
    BY <1>1, <1>2, <1>3 DEF CronTypes, Phases
  <1>8. sent \subseteq sent' BY <1>1
  <1> QED BY <1>1, <1>4, <1>5, <1>6, <1>7, <1>8, OneRun

\* A run that fails, reads the clock, gets back from the sender or ends only moves on.
LEMMA RunMovesKeepsCron ==
  ASSUME StoreInv, CronInv, Grows, NEW r \in Runs,
         RunListFails(r) \/ RunReadsClock(r) \/ RunSendReturns(r) \/ RunEnds(r)
  PROVE  CronInv'
  <1>1. /\ UNCHANGED <<rem, deleted, promised, now, fired, list, due, gone, sent, faults>>
        /\ \/ /\ run[r] = "list" /\ run' = [run EXCEPT ![r] = "failed"] /\ at' = at
           \/ /\ run[r] = "clock" /\ run' = [run EXCEPT ![r] = "send"]
              /\ at' = [at EXCEPT ![r] = now]
           \/ /\ run[r] = "sending" /\ run' = [run EXCEPT ![r] = "send"] /\ at' = at
           \/ /\ run[r] = "send" /\ run' = [run EXCEPT ![r] = "done"] /\ at' = at /\ list[r] = <<>>
    BY DEF RunListFails, RunReadsClock, RunSendReturns, RunEnds, Step
  <1>2. CronTypes /\ RunInv(r) BY DEF CronInv
  <1>3. r \in Nat /\ now \in Nat /\ fired \in Nat /\ fired <= now /\ now \in 0..now
    BY <1>2, RemindersAssumption DEF CronTypes, Runs
  <1>4. \A q \in Runs \ {r} : run'[q] = run[q] /\ at'[q] = at[q] /\ list'[q] = list[q]
    BY <1>1, <1>2 DEF CronTypes
  <1>5. /\ run' \in [Runs -> Phases]
        /\ at' \in [Runs -> 0..now] /\ list' \in [Runs -> Seq(Nat)]
    BY <1>1, <1>2, <1>3 DEF CronTypes, Phases
  <1>6. /\ InTime' /\ DeletedStaysQuiet'
        /\ (sent \subseteq Sends)'
    BY <1>1, <1>3, SentStays
  <1>7. RunInv(r)'
    <2>1. r <= fired BY <1>1, <1>2, <1>3 DEF RunInv
    <2>2. /\ ToSet(list'[r]) \subseteq Ids' \ gone'[r] /\ gone'[r] \subseteq deleted'
          /\ due'[r] \subseteq Ids' /\ ~(r > fired')
      BY <1>1, <1>2, <1>3, <2>1 DEF RunInv, Ids
    <2>3. \A id : WasSent(id, r)' <=> WasSent(id, r) BY <1>1 DEF WasSent
    <2>4. \A id : Wanted(id, r)' <=> Wanted(id, r) BY <1>1 DEF Wanted, DueAt
    <2>5. CASE run[r] = "list" /\ run' = [run EXCEPT ![r] = "failed"]
      <3>1. run'[r] = "failed" /\ list'[r] = <<>> BY <1>1, <1>2, <2>5 DEF CronTypes, RunInv
      <3> QED BY <2>2, <3>1 DEF RunInv
    <2>6. CASE run[r] = "clock" /\ run' = [run EXCEPT ![r] = "send"] /\ at' = [at EXCEPT ![r] = now]
      <3>1. run'[r] = "send" /\ at'[r] = now /\ at'[r] >= r
        BY <1>2, <1>3, <2>1, <2>6 DEF CronTypes
      <3>2. faults' = 0 => due'[r] \cap promised' \subseteq ToSet(list'[r])
        BY <1>1, <1>2, <2>6 DEF RunInv
      <3> QED BY <2>2, <2>4, <3>1, <3>2 DEF RunInv
    <2>8. CASE run[r] = "sending" /\ run' = [run EXCEPT ![r] = "send"] /\ at' = at
      <3>1. run'[r] = "send" BY <1>2, <2>8 DEF CronTypes
      <3>2. (faults = 0 /\ at[r] = r => \A id \in due[r] \cap promised :
               Wanted(id, r) => id \in ToSet(list[r]) \/ WasSent(id, r))'
        BY <1>1, <1>2, <2>3, <2>4, <2>8 DEF RunInv
      <3> QED BY <1>2, <2>2, <2>8, <3>1, <3>2 DEF RunInv
    <2>7. CASE run[r] = "send" /\ run' = [run EXCEPT ![r] = "done"] /\ at' = at /\ list[r] = <<>>
      <3>1. run'[r] = "done" /\ list'[r] = <<>> BY <1>1, <1>2, <2>7 DEF CronTypes
      <3>2. (faults = 0 /\ at[r] = r => \A id \in due[r] \cap promised :
               Wanted(id, r) => id \in ToSet(list[r]) \/ WasSent(id, r))'
        BY <1>1, <1>2, <2>3, <2>4, <2>7 DEF RunInv
      <3> QED BY <2>2, <3>1, <3>2 DEF RunInv
    <2> QED BY <1>1, <2>5, <2>6, <2>7, <2>8
  <1>8. UNCHANGED <<now, fired, due, gone>> /\ sent \subseteq sent' BY <1>1
  <1> QED BY <1>4, <1>5, <1>6, <1>7, <1>8, OneRun

LEMMA RunHandlesKeepsCron ==
  ASSUME StoreInv, CronInv, Grows, NEW r \in Runs, RunHandlesNext(r)
  PROVE  CronInv'
  <1> DEFINE id == Head(list[r])
             this == [id |-> id, for |-> at[r], minute |-> now, run |-> r, place |-> Len(list[r])]
  <1>1. /\ run[r] = "send" /\ list[r] # <<>> /\ list' = [list EXCEPT ![r] = Tail(@)]
        /\ \/ ~ToSend(r, id) /\ run' = run /\ sent' = sent
           \/ ToSend(r, id) /\ run' = [run EXCEPT ![r] = "sending"] /\ sent' = sent \cup {this}
        /\ UNCHANGED <<rem, deleted, promised, now, fired, at, due, gone, faults>>
    BY DEF RunHandlesNext
  <1>2. CronTypes /\ RunInv(r) BY DEF CronInv
  <1>3. /\ id \in ToSet(list[r]) /\ Tail(list[r]) \in Seq(Nat)
        /\ ToSet(list[r]) = {id} \cup ToSet(Tail(list[r])) /\ Len(list[r]) \in Nat
    <2>1. list[r] \in Seq(Nat) BY <1>2 DEF CronTypes
    <2> QED BY <1>1, <2>1, HeadAndTail
  <1>4. id \in Ids /\ id \notin gone[r] BY <1>2, <1>3 DEF RunInv
  <1>5. r \in 1..fired /\ at[r] \in Nat /\ r <= at[r] /\ at[r] <= now /\ now \in Nat
    BY <1>1, <1>2, RemindersAssumption DEF CronTypes, RunInv, Runs
  <1>6. ToSend(r, id) => DueAt(rem[id].form, at[r]) BY DEF ToSend
  <1> HIDE DEF id
  <1>7. list'[r] = Tail(list[r]) /\ \A q \in Runs \ {r} : list'[q] = list[q]
    BY <1>1, <1>2 DEF CronTypes
  <1>8. list' \in [Runs -> Seq(Nat)] BY <1>1, <1>2, <1>3 DEF CronTypes
  <1>9. /\ run' \in [Runs -> Phases] /\ run'[r] \in {"send", "sending"}
        /\ \A q \in Runs \ {r} : run'[q] = run[q]
    BY <1>1, <1>2 DEF CronTypes, Phases
  <1>10. this.id = id /\ this.for = at[r] /\ this.minute = now /\ this.run = r OBVIOUS
  <1>11. this \in Sends BY <1>3, <1>4, <1>5 DEF Sends
  <1> HIDE DEF this
  <1>12. (sent \subseteq Sends)'
    <2>1. Sends' = Sends BY <1>1 DEF Sends, Ids
    <2> QED BY <1>1, <1>2, <1>11, <2>1 DEF CronTypes
  <1>13. InTime'
    BY <1>1, <1>5, <1>6, <1>10 DEF CronInv, InTime, DueAt
  <1>14. DeletedStaysQuiet' BY <1>1, <1>4, <1>10 DEF CronInv, DeletedStaysQuiet
  <1>15. sent \subseteq sent' BY <1>1
  <1>16. RunInv(r)'
    <2>1. (faults = 0 /\ at[r] = r => \A i \in due[r] \cap promised :
             Wanted(i, r) => i \in ToSet(list[r]) \/ WasSent(i, r))'
      <3> SUFFICES ASSUME faults = 0, at[r] = r, NEW i \in due[r] \cap promised, Wanted(i, r)
                   PROVE  i \in ToSet(Tail(list[r])) \/ WasSent(i, r)'
        BY <1>1, <1>7 DEF Wanted, DueAt
      <3>1. i \in ToSet(list[r]) \/ WasSent(i, r) BY <1>1, <1>2 DEF RunInv
      <3>2. WasSent(i, r) => WasSent(i, r)' BY <1>15 DEF WasSent
      <3>3. i = id => WasSent(i, r)' BY <1>1, <1>10 DEF WasSent, ToSend, Wanted
      <3> QED BY <1>3, <3>1, <3>2, <3>3
    <2>2. ToSet(list'[r]) \subseteq Ids \ gone[r] BY <1>2, <1>3, <1>7 DEF RunInv
    <2> QED BY <1>1, <1>2, <1>7, <1>9, <2>1, <2>2 DEF RunInv, Ids
  <1>17. UNCHANGED <<now, fired, due, gone>> /\ at' \in [Runs -> 0..now]
         /\ \A q \in Runs \ {r} : run'[q] = run[q] /\ at'[q] = at[q] /\ list'[q] = list[q]
    BY <1>1, <1>2, <1>7, <1>9 DEF CronTypes
  <1> QED BY <1>8, <1>9, <1>12, <1>13, <1>14, <1>15, <1>16, <1>17, OneRun

LEMMA CronKeepsCron ==
  ASSUME StoreInv, CronInv, Grows, CronStep
  PROVE  CronInv'
  <1>1. ASSUME NEW r \in Runs, RunStep(r) PROVE CronInv'
    BY <1>1, RunListsKeepsCron, RunMovesKeepsCron, RunHandlesKeepsCron DEF RunStep
  <1> QED BY <1>1, TickKeepsCron, FireKeepsCron DEF CronStep

-----------------------------------------------------------------------------
(* Nothing stands twice.                                                   *)

\* A delete that has a line to write holds the lock; the others have nothing in hand.
LEMMA WritesAlone ==
  ASSUME StoreInv, NEW v \in Users, op[v] = "write"
  PROVE  writer = v /\ v # Nobody
BY RemindersAssumption DEF StoreInv, DeleteInv

LEMMA UserStoresOnce ==
  ASSUME StoreInv, OnceStored, NEW u \in Users, UserStep(u)
  PROVE  OnceStored'
  <1>1. TypesInv /\ FileInv /\ DeleteInv(u) /\ Once(file) /\ Once(kept[u])
        /\ (op[u] = "write" => ToSet(kept[u]) \cap ToSet(file) = {})
    BY DEF StoreInv, OnceStored
  <1>2. Once(<<>>) /\ ToSet(<<>>) = {} BY DEF Once, ToSet
  <1>4. ASSUME writer = Nobody, kept' = kept, op' = op, NEW l \in Nat, file' = Extend(file, l),
               l = Torn \/ l \notin ToSet(file)
        PROVE  OnceStored'
    <2>1. Once(file') BY <1>1, <1>4, Extended DEF FileInv
    <2>2. \A v \in Users : op[v] # "write" BY <1>4, WritesAlone
    <2> QED BY <1>4, <2>1, <2>2 DEF OnceStored
  <1>5. ASSUME NEW form \in Forms, Create(u, form) PROVE OnceStored'
    <2>1. rem \in Seq(Entries) /\ [user |-> u, form |-> form] \in Entries BY <1>1 DEF TypesInv, Entries
    <2>2. Len(rem') = Len(rem) + 1 /\ Len(rem) \in Nat /\ Ids = 1..Len(rem) BY <1>5, <2>1 DEF Create, Ids
    <2>3. Len(rem') \in Nat /\ Len(rem') \notin Ids /\ Len(rem') # Torn BY <2>2 DEF Torn
    <2>4. Len(rem') \notin ToSet(file) BY <1>1, <2>3 DEF FileInv
    <2>5. writer = Nobody /\ kept' = kept /\ op' = op /\ file' = Extend(file, Len(rem'))
      BY <1>5 DEF Create, Lock, user
    <2> QED BY <1>4, <2>3, <2>4, <2>5
  <1>6. CASE CreateTorn(u)
    <2>1. writer = Nobody /\ kept' = kept /\ op' = op /\ file' = Extend(file, Torn) /\ Torn \in Nat
      BY <1>6 DEF CreateTorn, Lock, user, Torn
    <2> QED BY <1>4, <2>1
  <1>7. ASSUME file' = file, UNCHANGED kept, NEW to \in {"lock", "idle"}, op' = [op EXCEPT ![u] = to]
        PROVE  OnceStored'
    <2>1. \A v \in Users : op'[v] = "write" => op[v] = "write" BY <1>1, <1>7 DEF TypesInv
    <2> QED BY <1>7, <2>1 DEF OnceStored
  <1>8. CASE \E id \in Ids : DeleteStarts(u, id)
    BY <1>7, <1>8 DEF DeleteStarts, Goto
  <1>9. CASE DeleteFindsNothing(u) \/ DeleteCloses(u)
    BY <1>7, <1>9 DEF DeleteFindsNothing, DeleteCloses, Goto
  <1>10. CASE DeleteFails(u)
    <2>1. file' = file /\ op' = [op EXCEPT ![u] = "idle"]
          /\ (kept' = kept \/ kept' = [kept EXCEPT ![u] = <<>>])
      BY <1>10 DEF DeleteFails, Goto
    <2>2. CASE kept' = kept BY <1>7, <2>1, <2>2
    <2>3. CASE kept' = [kept EXCEPT ![u] = <<>>]
      <3>1. \A v \in Users : Once(kept'[v]) BY <1>1, <1>2, <2>3 DEF TypesInv, OnceStored
      <3>2. \A v \in Users : op'[v] = "write" => op[v] = "write" /\ kept'[v] = kept[v]
        BY <1>1, <2>1, <2>3 DEF TypesInv
      <3> QED BY <2>1, <3>1, <3>2 DEF OnceStored
    <2> QED BY <2>1, <2>2, <2>3
  <1>11. CASE DeleteReads(u)
    <2>1. /\ op' = [op EXCEPT ![u] = "create"] /\ kept' = [kept EXCEPT ![u] = Keeps(u)]
          /\ file' = file
      BY <1>11 DEF DeleteReads, Goto
    <2>2. Once(Keeps(u)) BY <1>1, Selected DEF Keeps, FileInv
    <2>3. \A v \in Users : Once(kept'[v]) BY <1>1, <2>1, <2>2 DEF TypesInv, OnceStored
    <2>4. \A v \in Users : op'[v] = "write" => op[v] = "write" /\ kept'[v] = kept[v]
      BY <1>1, <2>1 DEF TypesInv
    <2> QED BY <2>1, <2>3, <2>4 DEF OnceStored
  <1>12. CASE DeleteTruncates(u)
    BY <1>2, <1>12 DEF DeleteTruncates, OnceStored
  <1>13. CASE DeleteWrites(u) \/ DeleteWriteFails(u)
    <2> DEFINE head == Head(kept[u])
               rest == Tail(kept[u])
    <2>1. /\ op[u] = "write" /\ kept[u] # <<>> /\ kept' = [kept EXCEPT ![u] = rest] /\ op' = op
          /\ file' \in {file, Extend(file, Torn), Extend(file, head)}
      BY <1>13 DEF DeleteWrites, DeleteWriteFails
    <2>2. kept[u] \in Seq(Nat) BY <1>1 DEF TypesInv
    <2>3. /\ head \in ToSet(kept[u]) /\ ToSet(kept[u]) = {head} \cup ToSet(rest) /\ Once(rest)
          /\ (head # Torn => head \notin ToSet(rest))
      BY <1>1, <2>1, <2>2, HeadAndTail
    <2>4. Torn \notin ToSet(kept[u]) BY <1>1 DEF DeleteInv, TypesInv, Ids, Torn
    <2>5. head \in Nat /\ head # Torn /\ head \notin ToSet(file) BY <1>1, <2>1, <2>2, <2>3, <2>4, InSet
    <2> HIDE DEF head, rest
    <2>6. Once(file') /\ ToSet(file') \subseteq ToSet(file) \cup {Torn, head}
      <3>1. file \in Seq(Nat) /\ WholeButLast(file) /\ Torn \in Nat BY <1>1 DEF FileInv, Torn
      <3>2. CASE file' = file BY <1>1, <3>2
      <3>3. CASE file' = Extend(file, Torn) BY <1>1, <3>1, <3>3, Extended
      <3>4. CASE file' = Extend(file, head)
        <4>1. /\ ~CutOff(file) => ToSet(Extend(file, head)) = ToSet(file) \cup {head}
              /\ CutOff(file) => ToSet(Extend(file, head)) = ToSet(file) \ {Torn}
              /\ Once(Extend(file, head))
          BY <1>1, <2>5, <3>1, Extended
        <4> QED BY <3>4, <4>1
      <3> QED BY <2>1, <3>2, <3>3, <3>4
    <2>7. kept'[u] = rest /\ \A v \in Users \ {u} : kept'[v] = kept[v] BY <1>1, <2>1 DEF TypesInv
    <2>8. ToSet(rest) \cap ToSet(file') = {} BY <1>1, <2>1, <2>3, <2>4, <2>5, <2>6
    <2>9. \A v \in Users \ {u} : op'[v] # "write" BY <2>1, WritesAlone
    <2>10. \A v \in Users : Once(kept'[v]) BY <2>3, <2>7 DEF OnceStored
    <2> QED BY <2>6, <2>7, <2>8, <2>9, <2>10 DEF OnceStored
  <1> QED BY <1>5, <1>6, <1>8, <1>9, <1>10, <1>11, <1>12, <1>13 DEF UserStep, Deleting

LEMMA RunSendsOnce ==
  ASSUME StoreInv, CronInv, OnceStored, OnceSent, NEW r \in Runs, RunStep(r)
  PROVE  OnceSent'
  <1>1. CronTypes /\ RunInv(r) /\ Once(list[r]) /\ r \in Nat
    BY RemindersAssumption DEF CronInv, OnceSent, Runs
  <1>2. Once(<<>>) /\ ToSet(<<>>) = {} BY DEF Once, ToSet
  <1>3. ASSUME UNCHANGED <<list, sent>>, NEW to \in {"send", "done", "failed"},
               run' = [run EXCEPT ![r] = to]
        PROVE  OnceSent'
    <2>1. \A q \in Runs : run'[q] = run[q] \/ run'[q] = to BY <1>1, <1>3 DEF CronTypes
    <2>2. \A s \in sent : s.run \in Runs
      BY <1>1, RemindersAssumption DEF CronTypes, Sends, Runs
    <2> QED BY <1>3, <2>1, <2>2 DEF OnceSent
  <1>4. CASE RunListFails(r) \/ RunReadsClock(r) \/ RunSendReturns(r) \/ RunEnds(r)
    BY <1>3, <1>4 DEF RunListFails, RunReadsClock, RunSendReturns, RunEnds, Step
  <1>5. CASE RunLists(r)
    <2> DEFINE lines == Readable(file)
    <2>1. run[r] = "list" /\ run' = [run EXCEPT ![r] = "clock"] /\ list' = [list EXCEPT ![r] = lines]
          /\ sent' = sent
      BY <1>5 DEF RunLists, Step
    <2>2. Once(lines) BY ReadableLines DEF StoreInv, FileInv, OnceStored
    <2> HIDE DEF lines
    <2>3. \A s \in sent : s.run # r BY <2>1 DEF OnceSent
    <2>4. \A q \in Runs : q # r => list'[q] = list[q] /\ run'[q] = run[q] BY <1>1, <2>1 DEF CronTypes
    <2>5. list'[r] = lines BY <1>1, <2>1 DEF CronTypes
    <2>6. \A s \in sent : s.run \in Runs
      BY <1>1, RemindersAssumption DEF CronTypes, Sends, Runs
    <2>7. \A q \in Runs : Once(list'[q]) BY <2>2, <2>4, <2>5 DEF OnceSent
    <2> QED BY <2>1, <2>3, <2>4, <2>6, <2>7 DEF OnceSent
  <1>6. CASE RunHandlesNext(r)
    <2> DEFINE id == Head(list[r])
               this == [id |-> id, for |-> at[r], minute |-> now, run |-> r, place |-> Len(list[r])]
    <2>1. /\ run[r] = "send" /\ list[r] # <<>> /\ list' = [list EXCEPT ![r] = Tail(@)]
          /\ run' \in {run, [run EXCEPT ![r] = "sending"]} /\ sent' \in {sent, sent \cup {this}}
      BY <1>6 DEF RunHandlesNext
    <2>2. /\ id \in ToSet(list[r]) /\ ToSet(list[r]) = {id} \cup ToSet(Tail(list[r]))
          /\ Once(Tail(list[r])) /\ (id # Torn => id \notin ToSet(Tail(list[r])))
      <3>1. list[r] \in Seq(Nat) BY <1>1 DEF CronTypes
      <3> QED BY <1>1, <2>1, <3>1, HeadAndTail
    <2>3. id # Torn
      <3>1. id \in Ids BY <1>1, <2>2 DEF RunInv
      <3>2. Torn \notin Ids BY DEF StoreInv, TypesInv, Ids, Torn
      <3> QED BY <3>1, <3>2
    <2>4. this.id = id /\ this.run = r OBVIOUS
    <2> HIDE DEF id, this
    <2>5. list'[r] = Tail(list[r]) /\ \A q \in Runs : q # r => list'[q] = list[q]
      BY <1>1, <2>1 DEF CronTypes
    <2>6. run'[r] \in {"send", "sending"} /\ \A q \in Runs : q # r => run'[q] = run[q]
      BY <1>1, <2>1 DEF CronTypes
    <2>7. \A s \in sent : s.run \in Runs
      BY <1>1, RemindersAssumption DEF CronTypes, Sends, Runs
    <2>8. \A q \in Runs : Once(list'[q]) BY <2>2, <2>5 DEF OnceSent
    <2>9. \A s \in sent : s.id = id => s.run # r BY <2>2 DEF OnceSent
    <2>10. \A s \in sent' :
             s.id \notin ToSet(list'[s.run]) /\ run'[s.run] \in {"send", "sending", "done", "failed"}
      <3> SUFFICES ASSUME NEW s \in sent'
                   PROVE  s.id \notin ToSet(list'[s.run])
                          /\ run'[s.run] \in {"send", "sending", "done", "failed"}
        OBVIOUS
      <3>1. CASE s = this BY <2>2, <2>3, <2>4, <2>5, <2>6, <3>1
      <3>2. CASE s \in sent /\ s.run = r BY <2>2, <2>5, <2>6, <3>2 DEF OnceSent
      <3>3. CASE s \in sent /\ s.run # r BY <2>5, <2>6, <2>7, <3>3 DEF OnceSent
      <3> QED BY <2>1, <3>1, <3>2, <3>3
    <2>11. \A s, t \in sent' : s.id = t.id /\ s.run = t.run => s = t
      BY <2>1, <2>4, <2>9 DEF OnceSent
    <2> QED BY <2>8, <2>10, <2>11 DEF OnceSent
  <1> QED BY <1>4, <1>5, <1>6 DEF RunStep

-----------------------------------------------------------------------------
(* The theorems.                                                           *)

Inv == StoreInv /\ CronInv

LEMMA InitInv == Init => Inv /\ Atomic!BookInit
  <1> SUFFICES ASSUME Init PROVE Inv /\ Atomic!BookInit OBVIOUS
  <1>1. ToSet(<<>>) = {} BY DEF ToSet
  <1>2. TypesInv BY DEF Init, TypesInv, Ids
  <1>3. FileInv BY <1>1 DEF Init, FileInv, WholeButLast
  <1>4. Promised BY DEF Init, Promised
  <1>5. \A u \in Users : DeleteInv(u) BY <1>1, RemindersAssumption DEF Init, DeleteInv
  <1>6. CronTypes BY RemindersAssumption DEF Init, CronTypes, Phases, Sends, Runs
  <1>7. InTime /\ DeletedStaysQuiet BY DEF Init, InTime, DeletedStaysQuiet
  <1>8. \A r \in Runs : RunInv(r) BY <1>1 DEF Init, RunInv
  <1>9. Book = {} BY <1>1, <1>3, TheBook DEF Init, FileInv, Holds
  <1>10. Atomic!BookInit BY <1>9 DEF Init, Atomic!BookInit
  <1> QED BY <1>2, <1>3, <1>4, <1>5, <1>6, <1>7, <1>8, <1>10 DEF Inv, StoreInv, CronInv

LEMMA StepInv == Inv /\ [Next]_vars => Inv' /\ MovesBook
  <1> SUFFICES ASSUME Inv, [Next]_vars PROVE Inv' /\ MovesBook OBVIOUS
  <1>0. StoreInv /\ CronInv BY DEF Inv
  <1>1. ASSUME NEW u \in Users, UserStep(u) PROVE Inv' /\ MovesBook
    BY <1>0, <1>1, UserKeepsStore, UserKeepsCron DEF Inv
  <1>2. CASE CronStep
    BY <1>0, <1>2, CronKeepsStore, CronKeepsCron DEF Inv
  <1>3. CASE Crash
    BY <1>0, <1>3, CrashKeeps, CrashKeepsCron DEF Inv
  <1>4. CASE UNCHANGED vars
    <2>1. /\ UNCHANGED <<rem, file, writer, op, target, kept, deleted, promised, now, fired, run, at>>
          /\ UNCHANGED <<list, looked, due, gone, sent, faults, cron>>
      BY <1>4 DEF vars, user, cron
    <2>2. Grows BY <2>1 DEF Grows, Ids
    <2>3. TypesInv' BY <1>0, <2>1 DEF StoreInv, TypesInv, Ids
    <2>4. FileInv' BY <1>0, <2>1 DEF StoreInv, FileInv, WholeButLast, Ids
    <2>5. Book' = Book
      <3>1. Book = Holds(file, writer, op, kept) BY <1>0, TheBook DEF StoreInv, FileInv
      <3>2. Book' = Holds(file', writer', op', kept') BY <2>4, TheBookThen DEF FileInv
      <3> QED BY <2>1, <3>1, <3>2
    <2>6. Promised' BY <1>0, <2>1, <2>5 DEF StoreInv, Promised
    <2>7. \A u \in Users : DeleteInv(u)' BY <1>0, <2>1, <2>2, OtherDelete
    <2>8. StoreInv' BY <2>3, <2>4, <2>6, <2>7 DEF StoreInv
    <2>9. CronInv' BY <1>0, <2>1, <2>2, UserKeepsCron
    <2> QED BY <2>1, <2>5, <2>8, <2>9 DEF Inv, MovesBook
  <1> QED BY <1>1, <1>2, <1>3, <1>4 DEF Next, CronStep

LEMMA Invariant == Spec => []Inv
  <1>1. Init => Inv BY InitInv
  <1>2. Inv /\ [Next]_vars => Inv' BY StepInv
  <1> QED BY <1>1, <1>2, PTL DEF Spec

LEMMA StepOnce ==
  ASSUME Inv, OnceStored, OnceSent, [Next]_vars
  PROVE  OnceStored' /\ OnceSent'
  <1>0. StoreInv /\ CronInv /\ CronTypes BY DEF Inv, CronInv
  <1>1. ASSUME UNCHANGED <<file, kept>>, \A u \in Users : op'[u] = op[u] PROVE OnceStored'
    BY <1>1 DEF OnceStored
  <1>2. ASSUME UNCHANGED <<list, sent, run>> PROVE OnceSent' BY <1>2 DEF OnceSent
  <1>3. ASSUME NEW u \in Users, UserStep(u) PROVE OnceStored' /\ OnceSent'
    <2>1. UNCHANGED cron BY <1>0, <1>3, UserKeepsStore
    <2> QED BY <1>0, <1>2, <1>3, <2>1, UserStoresOnce DEF cron
  <1>4. ASSUME NEW r \in Runs, RunStep(r) PROVE OnceStored' /\ OnceSent'
    <2>1. UNCHANGED <<file, kept, op>>
      BY <1>4 DEF RunStep, RunLists, RunListFails, RunReadsClock, RunHandlesNext, RunSendReturns, RunEnds, user
    <2> QED BY <1>0, <1>1, <1>4, <2>1, RunSendsOnce
  <1>5. CASE Tick
    BY <1>1, <1>2, <1>5 DEF Tick, user, cron
  <1>6. CASE Fire
    <2>1. UNCHANGED <<file, kept, op, list, sent>> /\ fired < now /\ run' = [run EXCEPT ![now] = "list"]
      BY <1>6 DEF Fire, user
    <2>2. \A s \in sent : s.run \in Runs /\ s.run # now
      BY <1>0, <2>1, RemindersAssumption DEF CronTypes, Sends, Runs
    <2>3. \A q \in Runs : q # now => run'[q] = run[q] BY <1>0, <2>1 DEF CronTypes
    <2> QED BY <1>1, <2>1, <2>2, <2>3 DEF OnceSent
  <1>7. CASE Crash
    <2>1. Once(<<>>) /\ ToSet(<<>>) = {} BY DEF Once, ToSet
    <2>2. /\ op' = [u \in Users |-> "idle"] /\ kept' = [u \in Users |-> <<>>] /\ file' = file
          /\ list' = [r \in Runs |-> <<>>] /\ sent' = sent
          /\ run' = [r \in Runs |-> IF run[r] = "none" THEN "none"
                                    ELSE IF run[r] = "done" THEN "done" ELSE "failed"]
      BY <1>7 DEF Crash
    <2>3. OnceStored' BY <2>1, <2>2 DEF OnceStored
    <2>4. \A s \in sent : s.run \in Runs
      BY <1>0, RemindersAssumption DEF CronTypes, Sends, Runs
    <2>5. OnceSent' BY <2>1, <2>2, <2>4 DEF OnceSent
    <2> QED BY <2>3, <2>5
  <1>8. CASE UNCHANGED vars
    BY <1>1, <1>2, <1>8 DEF vars, user, cron
  <1> QED BY <1>3, <1>4, <1>5, <1>6, <1>7, <1>8 DEF Next

\* A run sends a reminder at most once, however the file it reads was rewritten, and
\* never before a minute that its schedule names (runDueReminders), nor after a run
\* that fired later than that minute; it may be late, for senders may be slow.
THEOREM SentOnceAndNotEarly == Spec => []SentAsScheduled
  <1> DEFINE NoneTwice == OnceStored /\ OnceSent
  <1>1. Init => NoneTwice
    <2>1. Once(<<>>) /\ ToSet(<<>>) = {} BY DEF Once, ToSet
    <2> QED BY <2>1 DEF Init, OnceStored, OnceSent
  <1>2. Inv /\ NoneTwice /\ [Next]_vars => NoneTwice' BY StepOnce
  <1>3. Inv /\ NoneTwice => SentAsScheduled BY DEF Inv, CronInv, InTime, OnceSent, SentAsScheduled
  <1> QED BY <1>1, <1>2, <1>3, Invariant, PTL DEF Spec

\* Once Store.Delete has answered its owner, no later run of the cron sends a reminder,
\* however the rewrites of others are interleaved, fail or are cut off by a crash.
THEOREM DeletedIsGone == Spec => []DeletedStaysQuiet
  <1>1. Inv => DeletedStaysQuiet BY DEF Inv, CronInv
  <1> QED BY <1>1, Invariant, PTL

\* While no write of the store fails, a reminder whose creation was acknowledged and
\* that its owner has not begun to delete is sent by every run in time for it.
THEOREM PromisesAreKept == Spec => []PromisedIsSent
  <1>1. Inv => PromisedIsSent
    <2> SUFFICES ASSUME Inv, NEW r \in Runs, run[r] = "done", at[r] = r, faults = 0,
                        NEW id \in due[r] \cap promised, Wanted(id, r)
                 PROVE  \E s \in sent : s.id = id /\ s.run = r
      BY DEF PromisedIsSent, Wanted
    <2>1. RunInv(r) BY DEF Inv, CronInv
    <2>2. ToSet(list[r]) = {} BY <2>1 DEF RunInv, ToSet
    <2> QED BY <2>1, <2>2 DEF RunInv, WasSent
  <1> QED BY <1>1, Invariant, PTL

\* The file under its lock is the book that is read and changed in one step: readers
\* never see a rewrite half done, and a reminder leaves only with its owner's delete or
\* with a fault (Store.Add, List and Delete).
THEOREM StoreIsABook == Spec => ImplementsBook
  <1>1. Init => Atomic!BookInit BY InitInv
  <1>2. Inv /\ [Next]_vars => [Atomic!BookNext]_(Atomic!bookVars)
    BY StepInv DEF MovesBook, Atomic!bookVars
  <1> QED BY <1>1, <1>2, Invariant, PTL DEF Spec, ImplementsBook, Atomic!BookSpec
=============================================================================
