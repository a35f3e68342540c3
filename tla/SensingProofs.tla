---------------------------- MODULE SensingProofs ----------------------------
(***************************************************************************)
(* Theorems about Sensing, for every number of ships, bases and entries of *)
(* a scan, and for battles of any length: the loops that fill a scan up    *)
(* repeat evenly what was found, what a scan shows lives, and what the     *)
(* networks read is of this tick and always means the same.                *)
(***************************************************************************)
EXTENDS Sensing, Integers, FiniteSetTheorems, SequenceTheorems, TLAPS

\* TypeOK, with the bounds on index and last in FillInv instead.
SensType ==
  /\ phase \in {"begin", "look", "think", "act", "over"}
  /\ tick \in 0..Ticks /\ dead \subseteq Ship \cup Base
  /\ trees \in [Team -> SUBSET Ship] /\ baseTrees \in [Team -> SUBSET Base]
  /\ side \in Team /\ toLook \subseteq ShipsOf(side) /\ looking \in toLook \cup {NoShip}
  /\ part \in Parts /\ objects \in Seq(Objects) /\ Len(objects) <= End(part)
  /\ found \in 0..Size[part] /\ nearest \in Ship \cup Base \cup {NoShip}
  /\ index \in Nat /\ last \in Nat
  /\ scans \in [Ship -> Seq(Seen)] /\ \A s \in Ship : Len(scans[s]) \in {0, NumObjects}
  /\ inputs \in [Ship -> [Slots -> Inputs]]

\* Entries of a scan, as far as there are any, have the types of their places.
TypesInPlace(s) ==
  \A p \in Parts : \A k \in Start[p] + 1 .. End(p) :
    k \in 1..Len(s) => s[k].type = TypeIn[p]

LookInv ==
  /\ phase # "look" => looking = NoShip
  /\ looking # NoShip /\ found = 0 => Len(objects) = Start[part]
  /\ looking # NoShip => TypesInPlace(objects)

Multiple(d, f) == \E q \in Int : d = q * f

\* The loop is about to repeat what stands a multiple of found before; entries
\* at such a distance are equal.
FillInv ==
  looking # NoShip /\ found # 0 =>
    /\ Start[part] + found <= Len(objects)
    /\ index \in Start[part] + 1 .. last /\ last <= Len(objects)
    /\ Len(objects) + 1 - index = last - Start[part]
    /\ Multiple(last - Start[part], found)
    /\ \A i, j \in Start[part] + 1 .. Len(objects) :
         Multiple(i - j, found) => objects[i] = objects[j]

\* A whole scan, made in this tick.
Current(scan) ==
  /\ Len(scan) = NumObjects
  /\ \A k \in 1..NumObjects : scan[k].dir /\ scan[k].tick = tick

\* Whoever lives and thinks has been scanned when it was passed.
ScanInv ==
  /\ \A s \in Ship : TypesInPlace(scans[s])
  /\ phase = "look" =>
       \A s \in Ship : Thinks(s) /\ TeamOf[s] <= side /\ s \notin toLook => Current(scans[s])
  /\ phase = "think" => \A s \in Ship : Thinks(s) => Current(scans[s])

SensInv ==
  /\ SensType /\ LookInv /\ FillInv /\ SomebodyToFind /\ ScanInv
  /\ InputsKeepMeaning /\ InputsAreFresh

-----------------------------------------------------------------------------
\* The parts follow each other.
LEMMA PartFacts ==
  /\ \A p \in Parts : /\ Size[p] \in Nat \ {0} /\ Start[p] \in Nat
                      /\ End(p) = Start[p] + Size[p] /\ End(p) <= NumObjects
                      /\ TypeIn[p] \in Types
  /\ \A p \in 1..3 : Start[p + 1] = End(p)
  /\ Start[1] = 0 /\ End(4) = NumObjects /\ NumObjects \in Nat
<1> USE ScannerAssumption DEF Size, Start, End, TypeIn, NumObjects, Types
<1>1. \A p \in Parts : p = 1 \/ p = 2 \/ p = 3 \/ p = 4
  BY DEF Parts
<1>2. \A p \in 1..3 : p = 1 \/ p = 2 \/ p = 3
  OBVIOUS
<1>3. \A p \in Parts : /\ Size[p] \in Nat \ {0} /\ Start[p] \in Nat
                       /\ End(p) = Start[p] + Size[p] /\ End(p) <= NumObjects
                       /\ TypeIn[p] \in Types
  BY <1>1
<1>4. \A p \in 1..3 : Start[p + 1] = End(p)
  BY <1>2
<1> QED BY <1>3, <1>4

\* A place of a scan is in one part only.
LEMMA PartIsUnique ==
  ASSUME NEW p \in Parts, NEW q \in Parts, NEW k \in Int,
         k \in Start[p] + 1 .. End(p), k \in Start[q] + 1 .. End(q)
  PROVE  p = q
<1>1. \A a \in Parts, b \in Parts : a < b => End(a) <= Start[b]
  BY PartFacts DEF Parts
<1> QED BY <1>1, PartFacts DEF Parts

-----------------------------------------------------------------------------
(***************************************************************************)
(* Multiples of the number of entries found.                               *)
(***************************************************************************)
LEMMA MultipleSum ==
  ASSUME NEW f \in Int, NEW a \in Int, NEW b \in Int, Multiple(a, f), Multiple(b, f)
  PROVE  Multiple(a + b, f) /\ Multiple(a - b, f)
<1>1. PICK q \in Int : a = q * f
  BY DEF Multiple
<1>2. PICK r \in Int : b = r * f
  BY DEF Multiple
<1>3. a + b = (q + r) * f /\ a - b = (q - r) * f
  BY <1>1, <1>2
<1>4. q + r \in Int /\ q - r \in Int
  OBVIOUS
<1> QED BY <1>3, <1>4 DEF Multiple

LEMMA MultipleSmall ==
  ASSUME NEW f \in Nat \ {0}, NEW a \in Int, Multiple(a, f), a < f, -f < a
  PROVE  a = 0
<1>1. PICK q \in Int : a = q * f
  BY DEF Multiple
<1>2. CASE q >= 1
  <2>1. (q - 1) * f >= 0 BY <1>2
  <2>2. (q - 1) * f = q * f - f OBVIOUS
  <2> QED BY <1>1, <2>1, <2>2
<1>3. CASE q <= -1
  <2>1. (-1 - q) * f >= 0 BY <1>3
  <2>2. (-1 - q) * f = -f - q * f OBVIOUS
  <2> QED BY <1>1, <2>1, <2>2
<1>4. CASE q = 0 BY <1>1, <1>4
<1> QED BY <1>2, <1>3, <1>4

LEMMA MultipleSelf ==
  ASSUME NEW f \in Int
  PROVE  Multiple(f, f)
<1>1. f = 1 * f OBVIOUS
<1> QED BY <1>1 DEF Multiple

-----------------------------------------------------------------------------
(***************************************************************************)
(* What the searches return.                                               *)
(***************************************************************************)
LEMMA CandidatesFacts ==
  ASSUME SensType
  PROVE  /\ Candidates(part) \subseteq Ship \cup Base
         /\ IsFiniteSet(Candidates(part)) /\ Cardinality(Candidates(part)) \in Nat
<1>1. part = 1 \/ part = 2 \/ part = 3 \/ part = 4
  BY DEF SensType, Parts
<1>2. Tree(part) \subseteq Ship \cup Base
  <2>1. \A t \in Team : trees[t] \subseteq Ship /\ baseTrees[t] \subseteq Base
    BY DEF SensType
  <2>2. side \in Team /\ 1 - side \in Team
    BY DEF SensType, Team
  <2> QED BY <1>1, <2>1, <2>2 DEF Tree
<1>3. Candidates(part) \subseteq Ship \cup Base
  BY <1>2 DEF Candidates
<1>4. IsFiniteSet(Ship \cup Base)
  BY FS_Union, ScannerAssumption DEF ScannerAssumption
<1> QED BY <1>3, <1>4, FS_Subset, FS_CardinalityType

LEMMA FirstNFinds ==
  ASSUME SensType, NEW m, NEW l \in FirstN(part, m)
  PROVE  l \in Seq(Ship \cup Base)
<1>1. PICK k \in 0..Cardinality(Candidates(part)) : l \in [1..k -> Candidates(part)]
  BY DEF FirstN
<1>2. k \in Nat
  BY <1>1, CandidatesFacts
<1>3. l \in Seq(Candidates(part))
  BY <1>1, <1>2, SeqDef
<1> QED BY <1>3, SeqMonotonic, CandidatesFacts

LEMMA NearestFinds ==
  ASSUME SensType, NEW n, NEW l \in Nearest(part, n)
  PROVE  l \in Seq(Ship \cup Base)
<1> DEFINE others == Candidates(part) \ {Root(part)}
<1>1. l = <<>> \/ \E o \in others : l = <<o>>
  BY DEF Nearest
<1>2. CASE l = <<>>
  BY <1>2, EmptySeq
<1>3. CASE \E o \in others : l = <<o>>
  <2>1. PICK o \in Ship \cup Base : l = <<o>>
    BY <1>3, CandidatesFacts
  <2> QED BY <2>1
<1> QED BY <1>1, <1>2, <1>3

LEMMA SearchFinds ==
  ASSUME SensType, NEW n, NEW l \in Search(part, n)
  PROVE  l \in Seq(Ship \cup Base)
<1>1. CASE part \in {1, 2}
  <2>1. PICK a \in Nearest(part, n) : l \in {a \o b : b \in FirstN(part, Size[part] - Len(a))}
    BY <1>1 DEF Search
  <2>2. PICK b \in FirstN(part, Size[part] - Len(a)) : l = a \o b
    BY <2>1
  <2>3. a \in Seq(Ship \cup Base) /\ b \in Seq(Ship \cup Base)
    BY <2>1, <2>2, NearestFinds, FirstNFinds
  <2> QED BY <2>2, <2>3, ConcatProperties
<1>2. CASE part \notin {1, 2}
  BY <1>2, FirstNFinds DEF Search
<1> QED BY <1>1, <1>2

\* The entries of a part: at least one, at most as many as it has room for,
\* for what the searches returned or for nothing.
LEMMA Found ==
  ASSUME SensType, NEW n, NEW l \in Search(part, n),
         NEW who, who = IF l = <<>> THEN Pad(part) ELSE Cut(l, Size[part]),
         NEW here, here = Entries(part, who)
  PROVE  /\ here \in Seq(Objects) /\ Len(here) \in 1..Size[part]
         /\ \A k \in 1..Len(here) : here[k].type = TypeIn[part]
         /\ Len(who) = Len(here) /\ \A k \in 1..Len(here) : here[k].of = who[k]
<1> DEFINE Whos == Ship \cup Base \cup {NoShip}
<1>1. Size[part] \in Nat \ {0} /\ TypeIn[part] \in Types
  BY PartFacts DEF SensType
<1>2. who \in Seq(Whos) /\ Len(who) \in 1..Size[part]
  <2>1. CASE l = <<>>
    <3> DEFINE m == IF part = 2 THEN 1 ELSE Size[part]
    <3>1. who = [k \in 1..m |-> NoShip] /\ m \in 1..Size[part]
      BY <1>1, <2>1 DEF Pad
    <3> HIDE DEF m
    <3> QED BY <3>1, <1>1
  <2>2. CASE l # <<>>
    <3>1. l \in Seq(Ship \cup Base) /\ Len(l) \in Nat \ {0}
      BY <2>2, SearchFinds, EmptySeq
    <3> DEFINE m == IF Len(l) < Size[part] THEN Len(l) ELSE Size[part]
    <3>2. m \in Nat \ {0} /\ m <= Len(l) /\ m <= Size[part] /\ who = SubSeq(l, 1, m)
      BY <2>2, <3>1, <1>1 DEF Cut
    <3> HIDE DEF m
    <3>3. \A i \in 1..m : l[i] \in Whos
      BY <3>1, <3>2, ElementOfSeq
    <3> HIDE DEF Whos
    <3>4. who \in Seq(Whos) /\ Len(who) = m
      BY <3>2, <3>3, SubSeqProperties
    <3> QED BY <3>2, <3>4, <1>1
  <2> QED BY <2>1, <2>2
<1>3. here = [k \in DOMAIN who |-> [type |-> TypeIn[part], of |-> who[k]]]
  BY DEF Entries
<1>4. DOMAIN who = 1..Len(who) /\ \A k \in 1..Len(who) : who[k] \in Whos
  BY <1>2, LenProperties, ElementOfSeq
<1>5. \A k \in 1..Len(who) : [type |-> TypeIn[part], of |-> who[k]] \in Objects
  BY <1>1, <1>4 DEF Objects
<1>6. here \in [1..Len(who) -> Objects]
  BY <1>3, <1>4, <1>5
<1>7. here \in Seq(Objects) /\ Len(here) = Len(who)
  BY <1>2, <1>6, SeqDef
<1>8. \A k \in 1..Len(who) : here[k].type = TypeIn[part] /\ here[k].of = who[k]
  BY <1>3, <1>4
<1> QED BY <1>2, <1>7, <1>8

-----------------------------------------------------------------------------
(***************************************************************************)
(* The steps that make a scan.                                             *)
(***************************************************************************)
LEMMA ScanBegins ==
  ASSUME SensInv, NEW s \in Ship, Visit(s)
  PROVE  SensType' /\ LookInv' /\ FillInv'
<1>1. s \in toLook /\ looking' = s /\ part' = 1 /\ objects' = <<>> /\ found' = 0
  BY DEF Visit, IsNext
<1>2. UNCHANGED <<phase, tick, dead, trees, baseTrees, side, toLook, nearest, index, last,
                  scans, inputs>> /\ phase = "look"
  BY DEF Visit
<1>3. s # NoShip
  BY ScannerAssumption DEF ScannerAssumption
<1>4. objects' \in Seq(Objects) /\ Len(objects') = 0
  BY <1>1, EmptySeq
<1>5. 1 \in Parts /\ Start[1] = 0 /\ End(1) \in Nat /\ 0 \in 0..Size[1]
  BY PartFacts DEF Parts
<1>6. SensType'
  BY <1>1, <1>2, <1>4, <1>5 DEF SensInv, SensType, ShipsOf
<1>7. TypesInPlace(objects')
  BY <1>4 DEF TypesInPlace
<1>8. LookInv'
  BY <1>1, <1>2, <1>4, <1>5, <1>7 DEF LookInv
<1>9. FillInv'
  BY <1>1 DEF FillInv
<1> QED BY <1>6, <1>8, <1>9

LEMMA PartIsSearched ==
  ASSUME SensInv, SearchPart
  PROVE  SensType' /\ LookInv' /\ FillInv'
<1>0. PICK n \in IF Candidates(part) = {} THEN {NoShip} ELSE Candidates(part) :
        /\ nearest' = n
        /\ \E l \in Search(part, n) :
             LET here == Entries(part, IF l = <<>> THEN Pad(part) ELSE Cut(l, Size[part]))
             IN /\ objects' = objects \o here /\ found' = Len(here)
                /\ index' = Restart(part) /\ last' = Start[part] + Len(here)
  BY DEF SearchPart
<1>1. PICK l \in Search(part, n) :
        LET here == Entries(part, IF l = <<>> THEN Pad(part) ELSE Cut(l, Size[part]))
        IN /\ objects' = objects \o here /\ found' = Len(here)
           /\ index' = Restart(part) /\ last' = Start[part] + Len(here)
  BY <1>0
<1>n. PICK who : who = IF l = <<>> THEN Pad(part) ELSE Cut(l, Size[part])
  OBVIOUS
<1>2. PICK here : here = Entries(part, who)
  OBVIOUS
<1>3. /\ objects' = objects \o here /\ found' = Len(here) /\ nearest' = n
      /\ index' = Start[part] + 1 /\ last' = Start[part] + Len(here)
      /\ n \in Ship \cup Base \cup {NoShip}
  BY <1>0, <1>1, <1>n, <1>2, CandidatesFacts DEF Restart, SensInv
<1>4. /\ UNCHANGED <<phase, tick, dead, trees, baseTrees, side, toLook, looking, part, scans, inputs>>
      /\ looking # NoShip /\ found = 0
  BY DEF SearchPart
<1>5. /\ here \in Seq(Objects) /\ Len(here) \in 1..Size[part]
      /\ \A k \in 1..Len(here) : here[k].type = TypeIn[part]
  BY <1>n, <1>2, Found DEF SensInv
<1>6. /\ objects \in Seq(Objects) /\ Len(objects) = Start[part] /\ part \in Parts
      /\ TypesInPlace(objects)
  BY <1>4 DEF SensInv, SensType, LookInv
<1>7. /\ Size[part] \in Nat \ {0} /\ Start[part] \in Nat /\ End(part) = Start[part] + Size[part]
  BY <1>6, PartFacts
<1>8. /\ objects' \in Seq(Objects) /\ Len(objects') = Start[part] + Len(here)
      /\ \A k \in 1..Start[part] + Len(here) :
           objects'[k] = IF k <= Start[part] THEN objects[k] ELSE here[k - Start[part]]
  <2>1. /\ objects \o here \in Seq(Objects) /\ Len(objects \o here) = Len(objects) + Len(here)
        /\ \A k \in 1..Len(objects) + Len(here) :
             (objects \o here)[k] = IF k <= Len(objects) THEN objects[k] ELSE here[k - Len(objects)]
    BY <1>5, <1>6, ConcatProperties
  <2> QED BY <2>1, <1>3, <1>6
<1>9. SensType'
  <2>1. Len(objects') <= End(part) /\ found' \in 0..Size[part]
    BY <1>3, <1>5, <1>7, <1>8
  <2>2. index' \in Nat /\ last' \in Nat
    BY <1>3, <1>5, <1>7
  <2>3. (Len(objects) <= End(part))' /\ (found \in 0..Size[part])'
    BY <2>1, <1>4 DEF End
  <2>4. SensType
    BY DEF SensInv
  <2> QED BY <2>2, <2>3, <2>4, <1>3, <1>4, <1>8 DEF SensType
<1>10. TypesInPlace(objects')
  <2>1. SUFFICES ASSUME NEW p \in Parts, NEW k \in Start[p] + 1 .. End(p), k \in 1..Len(objects')
                 PROVE  objects'[k].type = TypeIn[p]
    BY DEF TypesInPlace
  <2>2. Start[p] \in Nat /\ End(p) \in Nat
    BY PartFacts
  <2>3. CASE k <= Start[part]
    <3>1. k \in 1..Len(objects) /\ objects'[k] = objects[k]
      BY <1>5, <1>6, <1>7, <1>8, <2>1, <2>2, <2>3
    <3> QED BY <3>1, <1>6 DEF TypesInPlace
  <2>4. CASE k > Start[part]
    <3>1. k \in Start[part] + 1 .. End(part)
      BY <1>5, <1>7, <1>8, <2>1, <2>2, <2>4
    <3>2. p = part
      BY <3>1, <1>6, <2>2, PartIsUnique
    <3>3. objects'[k] = here[k - Start[part]] /\ k - Start[part] \in 1..Len(here)
      BY <1>5, <1>7, <1>8, <2>1, <2>2, <2>4
    <3> QED BY <3>2, <3>3, <1>5
  <2> QED BY <1>7, <2>2, <2>3, <2>4
<1>11. LookInv'
  BY <1>3, <1>4, <1>5, <1>10 DEF SensInv, LookInv
<1>12. FillInv'
  <2>1. Multiple(last' - Start[part'], found')
    <3>1. last' - Start[part'] = found' /\ found' \in Int
      BY <1>3, <1>4, <1>5, <1>7
    <3> QED BY <3>1, MultipleSelf
  <2>2. ASSUME NEW i \in Start[part] + 1 .. Len(objects'), NEW j \in Start[part] + 1 .. Len(objects'),
               Multiple(i - j, found')
        PROVE  objects'[i] = objects'[j]
    <3>1. i \in Int /\ j \in Int /\ i - j < found' /\ -found' < i - j /\ found' \in Nat \ {0}
      BY <1>3, <1>5, <1>7, <1>8
    <3>2. PICK d \in Int : d = i - j
      BY <3>1
    <3>3. d = 0
      <4> DEFINE f == found'
      <4>1. f \in Nat \ {0} /\ d < f /\ -f < d /\ Multiple(d, f)
        BY <3>1, <3>2, <2>2
      <4> HIDE DEF f
      <4> QED BY <4>1, MultipleSmall
    <3> QED BY <3>1, <3>2, <3>3
  <2>3. /\ Start[part] + found' <= Len(objects')
        /\ index' \in Start[part] + 1 .. last' /\ last' <= Len(objects')
        /\ Len(objects') + 1 - index' = last' - Start[part]
    <3>1. PICK f \in Nat \ {0}, a \in Nat : f = Len(here) /\ a = Start[part]
      BY <1>5, <1>7
    <3>2. found' = f /\ index' = a + 1 /\ last' = a + f /\ Len(objects') = a + f
      BY <1>3, <1>8, <3>1
    <3>3. /\ a + f <= a + f /\ a + 1 \in a + 1 .. a + f
          /\ a + f + 1 - (a + 1) = a + f - a
      BY <3>1
    <3> QED BY <3>1, <3>2, <3>3
  <2> QED BY <2>1, <2>2, <2>3, <1>4 DEF FillInv
<1> QED BY <1>9, <1>11, <1>12

LEMMA EntryIsRepeated ==
  ASSUME SensInv, Fill
  PROVE  SensType' /\ LookInv' /\ FillInv'
<1> DEFINE S == Start[part]
           n == Len(objects)
           again == objects[index]
<1>1. /\ looking # NoShip /\ found # 0 /\ n < End(part)
      /\ objects' = Append(objects, again)
      /\ IF index < last THEN index' = index + 1 /\ last' = last
         ELSE index' = Restart(part) /\ last' = n + 1
      /\ UNCHANGED <<phase, tick, dead, trees, baseTrees, side, toLook, looking, part, found,
                     nearest, scans, inputs>>
  BY DEF Fill
<1>2. /\ objects \in Seq(Objects) /\ part \in Parts /\ found \in 0..Size[part]
      /\ TypesInPlace(objects) /\ SensType
  BY <1>1 DEF SensInv, SensType, LookInv
<1>3. /\ Size[part] \in Nat \ {0} /\ S \in Nat /\ End(part) = S + Size[part] /\ n \in Nat
      /\ TypeIn[part] \in Types
  BY <1>2, PartFacts, LenProperties
<1>4. /\ S + found <= n /\ index \in S + 1 .. last /\ last <= n /\ last \in Nat
      /\ n + 1 - index = last - S
      /\ Multiple(last - S, found)
      /\ \A i, j \in S + 1 .. n : Multiple(i - j, found) => objects[i] = objects[j]
  BY <1>1 DEF SensInv, FillInv, SensType
<1>5. index \in 1..n /\ again \in Objects
  BY <1>2, <1>3, <1>4, ElementOfSeq
<1>6. /\ objects' \in Seq(Objects) /\ Len(objects') = n + 1
      /\ \A k \in 1..n : objects'[k] = objects[k]
      /\ objects'[n + 1] = again
  BY <1>1, <1>2, <1>5, AppendProperties
<1> HIDE DEF n, again
<1>6a. n < End(part) /\ found \in Nat
  BY <1>1, <1>2, <1>3 DEF n
<1>6b. \/ index' = index + 1 /\ last' = last /\ index < last
       \/ index' = S + 1 /\ last' = n + 1 /\ index = last
  <2>1. index \in Nat /\ last \in Nat /\ index <= last
    BY <1>3, <1>4
  <2> QED BY <2>1, <1>1 DEF Restart
<1>7. SensType'
  <2>1. (Len(objects) <= End(part))'
    BY <1>1, <1>3, <1>6 DEF End
  <2>2. index' \in Nat /\ last' \in Nat
    BY <1>6b, <1>3, <1>4
  <2>3. (found \in 0..Size[part])'
    BY <1>1, <1>2
  <2> QED BY <2>1, <2>2, <2>3, <1>1, <1>2, <1>6 DEF SensType
<1>8. again.type = TypeIn[part]
  <2>1. index \in S + 1 .. End(part) /\ index \in 1..Len(objects)
    BY <1>1, <1>3, <1>4, <1>5 DEF n
  <2> QED BY <2>1, <1>2 DEF TypesInPlace, again
<1>9. TypesInPlace(objects')
  <2>1. SUFFICES ASSUME NEW p \in Parts, NEW k \in Start[p] + 1 .. End(p), k \in 1..Len(objects')
                 PROVE  objects'[k].type = TypeIn[p]
    BY DEF TypesInPlace
  <2>2. Start[p] \in Nat /\ End(p) \in Nat
    BY PartFacts
  <2>3. CASE k <= n
    <3>1. k \in 1..Len(objects) /\ objects'[k] = objects[k]
      BY <1>3, <1>6, <2>1, <2>2, <2>3 DEF n
    <3> QED BY <3>1, <1>2 DEF TypesInPlace
  <2>4. CASE k = n + 1
    <3>0. S <= n /\ n < End(part) /\ S \in Nat /\ n \in Nat /\ End(part) \in Nat
      BY <1>6a, <1>3, <1>4
    <3>1. k \in S + 1 .. End(part)
      BY <3>0, <2>4
    <3>2. p = part
      BY <3>1, <1>2, <2>2, PartIsUnique
    <3> QED BY <3>2, <1>6, <1>8, <2>4
  <2> QED BY <1>3, <1>6, <2>1, <2>2, <2>3, <2>4
<1>10. LookInv'
  BY <1>1, <1>9 DEF SensInv, LookInv
<1>11. FillInv'
  <2>1. \A i \in S + 1 .. n : Multiple(n + 1 - i, found) => again = objects[i]
    <3>1. SUFFICES ASSUME NEW i \in S + 1 .. n, Multiple(n + 1 - i, found)
                   PROVE  again = objects[i]
      OBVIOUS
    <3>2. PICK a \in Int, b \in Int : a = n + 1 - i /\ b = last - S
      BY <1>3, <1>4
    <3>3. Multiple(a - b, found)
      <4>1. found \in Int
        BY <1>2, <1>3
      <4> QED BY <4>1, <3>1, <3>2, <1>4, MultipleSum
    <3>4. a - b = index - i
      BY <3>2, <1>3, <1>4
    <3>5. index \in S + 1 .. n
      BY <1>3, <1>4
    <3> QED BY <3>3, <3>4, <3>5, <1>4 DEF again
  <2>2. \A i \in S + 1 .. n : Multiple(i - (n + 1), found) => again = objects[i]
    <3>1. SUFFICES ASSUME NEW i \in S + 1 .. n, Multiple(i - (n + 1), found)
                   PROVE  Multiple(n + 1 - i, found)
      BY <2>1
    <3>2. PICK q \in Int : i - (n + 1) = q * found
      BY <3>1 DEF Multiple
    <3>3. n + 1 - i = (-q) * found /\ -q \in Int
      BY <3>2, <1>2, <1>3
    <3> QED BY <3>3 DEF Multiple
  <2>3. ASSUME NEW i \in S + 1 .. n + 1, NEW j \in S + 1 .. n + 1, Multiple(i - j, found)
        PROVE  objects'[i] = objects'[j]
    <3>1. /\ i \in S + 1 .. n => i \in 1..n /\ objects'[i] = objects[i]
          /\ j \in S + 1 .. n => j \in 1..n /\ objects'[j] = objects[j]
      BY <1>3, <1>6
    <3>2. CASE i = n + 1 /\ j = n + 1
      BY <3>2
    <3>3. CASE i = n + 1 /\ j # n + 1
      <4>1. j \in S + 1 .. n
        BY <1>3, <3>3
      <4>2. objects'[i] = again /\ objects'[j] = objects[j]
        BY <4>1, <3>1, <3>3, <1>6
      <4>3. Multiple(n + 1 - j, found)
        <5>1. i - j = n + 1 - j
          BY <3>3, <1>3
        <5> QED BY <5>1, <2>3
      <4> QED BY <4>1, <4>2, <4>3, <2>1
    <3>4. CASE i # n + 1 /\ j = n + 1
      <4>1. i \in S + 1 .. n
        BY <1>3, <3>4
      <4>2. objects'[j] = again /\ objects'[i] = objects[i]
        BY <4>1, <3>1, <3>4, <1>6
      <4>3. Multiple(i - (n + 1), found)
        BY <3>4, <2>3
      <4> QED BY <4>1, <4>2, <4>3, <2>2
    <3>5. CASE i # n + 1 /\ j # n + 1
      <4>1. i \in S + 1 .. n /\ j \in S + 1 .. n
        BY <1>3, <3>5
      <4>2. objects'[i] = objects[i] /\ objects'[j] = objects[j]
        BY <4>1, <3>1
      <4> QED BY <4>1, <4>2, <2>3, <1>4
    <3> QED BY <3>2, <3>3, <3>4, <3>5
  <2>4. /\ S + found <= n + 1 /\ index' \in S + 1 .. last' /\ last' <= n + 1
        /\ n + 2 - index' = last' - S /\ Multiple(last' - S, found)
    <3>0. found \in Int
      BY <1>2, <1>3
    <3>1. CASE index' = index + 1 /\ last' = last /\ index < last
      BY <3>1, <1>3, <1>4, <3>0
    <3>2. CASE index' = S + 1 /\ last' = n + 1 /\ index = last
      <4>1. index = last /\ index' = S + 1 /\ last' = n + 1
        BY <3>2
      <4>2. PICK b \in Int : b = last - S /\ last' - S = b + b
        <5>1. last \in Int /\ S \in Int /\ n \in Int /\ n + 1 - last = last - S
          BY <4>1, <1>3, <1>4
        <5>2. n + 1 - S = (last - S) + (last - S) /\ last - S \in Int
          BY <5>1
        <5>3. PICK b \in Int : b = last - S
          BY <5>2
        <5>4. last' - S = b + b
          BY <5>1, <5>2, <5>3, <4>1
        <5> QED BY <5>3, <5>4
      <4>3. Multiple(b + b, found)
        BY <4>2, <1>4, <3>0, MultipleSum
      <4>4. Multiple(last' - S, found)
        BY <4>2, <4>3
      <4>5. S + found <= n + 1 /\ S + 1 \in S + 1 .. n + 1 /\ n + 2 - (S + 1) = n + 1 - S
        BY <1>3, <1>4, <3>0
      <4> QED BY <4>1, <4>4, <4>5, <1>3
    <3> QED BY <1>6b, <3>1, <3>2
  <2>5. n + 2 - index' = Len(objects') + 1 - index'
    BY <1>3, <1>6, <2>4, <1>4
  <2>6. part' = part /\ found' = found
    BY <1>1
  <2>7. /\ Start[part'] + found' <= Len(objects')
        /\ index' \in Start[part'] + 1 .. last' /\ last' <= Len(objects')
        /\ Len(objects') + 1 - index' = last' - Start[part']
    BY <2>4, <2>5, <2>6, <1>6
  <2>8. Multiple(last' - Start[part'], found')
    BY <2>4, <2>6
  <2>9. \A i, j \in Start[part'] + 1 .. Len(objects') :
          Multiple(i - j, found') => objects'[i] = objects'[j]
    BY <2>3, <2>6, <1>6
  <2> QED BY <2>7, <2>8, <2>9 DEF FillInv
<1> QED BY <1>7, <1>10, <1>11

LEMMA PartEnds ==
  ASSUME SensInv, NextPart
  PROVE  SensType' /\ LookInv' /\ FillInv'
<1>1. /\ Len(objects) = End(part) /\ part' = part + 1 /\ found' = 0 /\ part \in 1..3
      /\ UNCHANGED <<phase, tick, dead, trees, baseTrees, side, toLook, looking, objects, nearest,
                     index, last, scans, inputs>>
  BY DEF NextPart, SensInv, SensType, Parts
<1>2. Start[part'] = Len(objects') /\ part' \in Parts
  <2>1. part' = part + 1 /\ Len(objects') = End(part) /\ part \in 1..3
    BY <1>1
  <2>2. Start[part + 1] = End(part)
    BY <2>1, PartFacts
  <2> QED BY <2>1, <2>2 DEF Parts
<1>3. /\ Size[part'] \in Nat \ {0} /\ Start[part'] \in Nat
      /\ End(part') = Start[part'] + Size[part']
  BY <1>2, PartFacts
<1>4. SensType'
  <2>1. (Len(objects) <= End(part))' /\ (found \in 0..Size[part])' /\ (part \in Parts)'
    BY <1>1, <1>2, <1>3 DEF End
  <2>2. SensType
    BY DEF SensInv
  <2> QED BY <1>1, <2>1, <2>2 DEF SensType
<1>5. LookInv'
  BY <1>1, <1>2 DEF SensInv, LookInv, TypesInPlace
<1>6. FillInv'
  BY <1>1 DEF FillInv
<1> QED BY <1>4, <1>5, <1>6

\* The scan that is finished has an entry for every slot, of this tick.
LEMMA ScanEnds ==
  ASSUME SensInv, EndVisit
  PROVE  /\ SensType' /\ LookInv' /\ FillInv'
         /\ TypesInPlace(scans'[looking]) /\ Current(scans'[looking])
         /\ looking \in Ship /\ \A s \in Ship \ {looking} : scans'[s] = scans[s]
<1> DEFINE scan == [k \in DOMAIN objects |-> Calculated(objects[k])]
<1>1. /\ looking # NoShip /\ Len(objects) = End(4) /\ part = 4
      /\ scans' = [scans EXCEPT ![looking] = scan]
      /\ toLook' = toLook \ {looking} /\ looking' = NoShip
      /\ UNCHANGED <<phase, tick, trees, baseTrees, side, part, objects, found, nearest, index,
                     last, inputs>>
  BY DEF EndVisit
<1>2. /\ objects \in Seq(Objects) /\ Len(objects) = NumObjects /\ NumObjects \in Nat
      /\ TypesInPlace(objects) /\ SensType
  BY <1>1, PartFacts DEF SensInv, SensType, LookInv
<1>3. looking \in Ship /\ looking \in toLook
  BY <1>1, <1>2 DEF SensType, ShipsOf
<1>4. DOMAIN objects = 1..NumObjects /\ \A k \in 1..NumObjects : objects[k] \in Objects
  BY <1>2, LenProperties, ElementOfSeq
<1>5. \A k \in 1..NumObjects :
        Calculated(objects[k]) = [type |-> objects[k].type, dir |-> TRUE, tick |-> tick]
  BY DEF Calculated
<1>6. tick \in Nat
  BY <1>2, ScannerAssumption DEF SensType, ScannerAssumption
<1>7. \A k \in 1..NumObjects : Calculated(objects[k]) \in Seen
  <2>1. ASSUME NEW k \in 1..NumObjects
        PROVE  [type |-> objects[k].type, dir |-> TRUE, tick |-> tick] \in Seen
    <3>1. objects[k].type \in Types
      BY <1>4 DEF Objects
    <3>2. TRUE \in BOOLEAN
      OBVIOUS
    <3> QED BY <3>1, <3>2, <1>6 DEF Seen
  <2> QED BY <2>1, <1>5
<1>8. scan \in [1..NumObjects -> Seen]
  BY <1>4, <1>7
<1>9. scan \in Seq(Seen) /\ Len(scan) = NumObjects
  BY <1>2, <1>8, SeqDef
<1>10. \A k \in 1..NumObjects :
         scan[k] = [type |-> objects[k].type, dir |-> TRUE, tick |-> tick]
  BY <1>4, <1>5
<1> HIDE DEF scan
<1>11. scans' \in [Ship -> Seq(Seen)] /\ scans'[looking] = scan
       /\ \A s \in Ship \ {looking} : scans'[s] = scans[s]
  BY <1>1, <1>2, <1>3, <1>9 DEF SensType
<1>12. TypesInPlace(scan)
  BY <1>2, <1>9, <1>10 DEF TypesInPlace
<1>13. Current(scan)
  BY <1>9, <1>10 DEF Current
<1>14. dead' \subseteq Ship \cup Base
  <2>1. trees[0] \subseteq Ship /\ trees[1] \subseteq Ship /\ dead \subseteq Ship \cup Base
    BY <1>2 DEF SensType, Team
  <2> QED BY <2>1 DEF EndVisit, BlastsKill
<1>15. SensType'
  <2>1. \A s \in Ship : Len(scans'[s]) \in {0, NumObjects}
    BY <1>2, <1>9, <1>11 DEF SensType
  <2>2. /\ phase \in {"begin", "look", "think", "act", "over"}
        /\ tick \in 0..Ticks /\ trees \in [Team -> SUBSET Ship] /\ baseTrees \in [Team -> SUBSET Base]
        /\ side \in Team /\ toLook \subseteq ShipsOf(side)
        /\ part \in Parts /\ objects \in Seq(Objects) /\ Len(objects) <= End(part)
        /\ found \in 0..Size[part] /\ nearest \in Ship \cup Base \cup {NoShip}
        /\ index \in Nat /\ last \in Nat /\ inputs \in [Ship -> [Slots -> Inputs]]
    BY <1>2 DEF SensType
  <2>3. (toLook \subseteq ShipsOf(side))' /\ (looking \in toLook \cup {NoShip})'
    BY <1>1, <2>2 DEF ShipsOf
  <2> QED BY <1>1, <1>11, <1>14, <2>1, <2>2, <2>3 DEF SensType, End
<1>16. LookInv' /\ FillInv'
  BY <1>1 DEF LookInv, FillInv
<1> QED BY <1>3, <1>11, <1>12, <1>13, <1>15, <1>16

-----------------------------------------------------------------------------
(***************************************************************************)
(* The slots of a whole scan.                                              *)
(***************************************************************************)
\* The slot of the k-th entry, if all entries have the types of their places.
SlotAt(k) ==
  IF k \in Start[2] + 1 .. End(2) THEN k + NumFriendFacilities
  ELSE IF k \in Start[3] + 1 .. End(3) THEN k - NumEnemies ELSE k

LEMMA TwoIntervals ==
  ASSUME NEW a \in Nat, NEW b \in Nat, NEW c \in Nat, a <= b, b <= c,
         NEW set, set = (1..a) \cup (b + 1 .. c)
  PROVE  Cardinality(set) = a + c - b
<1>1. IsFiniteSet(1..a) /\ Cardinality(1..a) = a
  BY FS_Interval
<1>2. IsFiniteSet(b + 1 .. c) /\ Cardinality(b + 1 .. c) = c - b
  <2>1. b + 1 \in Int
    OBVIOUS
  <2>2. /\ IsFiniteSet(b + 1 .. c)
        /\ Cardinality(b + 1 .. c) = IF b + 1 > c THEN 0 ELSE c - (b + 1) + 1
    BY <2>1, FS_Interval
  <2> QED BY <2>2
<1>3. (1..a) \cap (b + 1 .. c) = {}
  OBVIOUS
<1>4. PICK s, t : s = 1..a /\ t = b + 1 .. c
  OBVIOUS
<1>5. IsFiniteSet(s) /\ IsFiniteSet(t) /\ s \cap t = {}
  BY <1>1, <1>2, <1>3, <1>4
<1>6. Cardinality(s \cup t) = Cardinality(s) + Cardinality(t) - Cardinality(s \cap t)
  BY <1>5, FS_Union
<1>7. Cardinality(s \cup t) = a + (c - b) - 0
  BY <1>1, <1>2, <1>4, <1>5, <1>6, FS_EmptySet
<1> QED BY <1>1, <1>4, <1>7

\* The order of the types, for a place in a scan with parts that end at n1, n2
\* and n3.
RankAt(i, n1, n2, n3) == IF i <= n1 THEN 1 ELSE IF i <= n2 THEN 3 ELSE IF i <= n3 THEN 2 ELSE 4

IsBefore(before, k, n1, n2, n3, n) ==
  /\ before \subseteq 1..n
  /\ \A i \in 1..n : i \in before <=> \/ RankAt(i, n1, n2, n3) < RankAt(k, n1, n2, n3)
                                      \/ RankAt(i, n1, n2, n3) = RankAt(k, n1, n2, n3) /\ i < k

\* What stands before k: all before it and, for an enemy, the bases of friends;
\* for these no enemies.
LEMMA Before ==
  ASSUME NEW n1 \in Nat, NEW n2 \in Nat, NEW n3 \in Nat, NEW n \in Nat,
         n1 < n2, n2 < n3, n3 < n, NEW k \in 1..n, NEW before,
         IsBefore(before, k, n1, n2, n3, n)
  PROVE  Cardinality(before) =
           IF k > n1 /\ k <= n2 THEN k - 1 + (n3 - n2)
           ELSE IF k > n2 /\ k <= n3 THEN k - 1 - (n2 - n1) ELSE k - 1
<1>1. PICK m \in Nat : m = k - 1
  OBVIOUS
<1>2. CASE k <= n1 \/ k > n3
  <2>1. before = (1..m) \cup (m + 1 .. m)
    <3>1. \A i \in 1..n : i \in before <=> i <= m
      BY <1>1, <1>2 DEF RankAt, IsBefore
    <3>2. (1..m) \cup (m + 1 .. m) \subseteq 1..n
      BY <1>1, <1>2
    <3>3. ASSUME NEW i \in 1..n
          PROVE  i \in before <=> i \in (1..m) \cup (m + 1 .. m)
      BY <3>1, <1>1
    <3> QED BY <3>2, <3>3 DEF IsBefore
  <2>2. Cardinality(before) = m + m - m
    BY <2>1, TwoIntervals
  <2> QED BY <2>2, <1>1, <1>2
<1>3. CASE k > n1 /\ k <= n2
  <2>1. before = (1..m) \cup (n2 + 1 .. n3)
    <3>1. \A i \in 1..n : i \in before <=> i <= m \/ (n2 < i /\ i <= n3)
      BY <1>1, <1>3 DEF RankAt, IsBefore
    <3>2. (1..m) \cup (n2 + 1 .. n3) \subseteq 1..n
      BY <1>1, <1>3
    <3>3. ASSUME NEW i \in 1..n
          PROVE  i \in before <=> i \in (1..m) \cup (n2 + 1 .. n3)
      BY <3>1, <1>1
    <3> QED BY <3>2, <3>3 DEF IsBefore
  <2>2. m <= n2 /\ n2 <= n3
    BY <1>1, <1>3
  <2>3. Cardinality(before) = m + n3 - n2
    BY <2>1, <2>2, TwoIntervals
  <2> QED BY <2>3, <1>1, <1>3
<1>4. CASE k > n2 /\ k <= n3
  <2>1. before = (1..n1) \cup (n2 + 1 .. m)
    <3>1. \A i \in 1..n : i \in before <=> i <= n1 \/ (n2 < i /\ i <= m)
      BY <1>1, <1>4 DEF RankAt, IsBefore
    <3>2. (1..n1) \cup (n2 + 1 .. m) \subseteq 1..n
      BY <1>1, <1>4
    <3>3. ASSUME NEW i \in 1..n
          PROVE  i \in before <=> i \in (1..n1) \cup (n2 + 1 .. m)
      BY <3>1, <1>1
    <3> QED BY <3>2, <3>3 DEF IsBefore
  <2>2. n1 <= n2 /\ n2 <= m
    BY <1>1, <1>4
  <2>3. Cardinality(before) = n1 + m - n2
    BY <2>1, <2>2, TwoIntervals
  <2> QED BY <2>3, <1>1, <1>4
<1> QED BY <1>2, <1>3, <1>4

LEMMA PartEnd ==
  LET n1 == NumFriends
      n2 == NumFriends + NumEnemies
      n3 == NumFriends + NumEnemies + NumFriendFacilities
  IN /\ n1 \in Nat /\ n2 \in Nat /\ n3 \in Nat /\ NumObjects \in Nat
     /\ n1 < n2 /\ n2 < n3 /\ n3 < NumObjects
     /\ n2 - n1 = NumEnemies /\ n3 - n2 = NumFriendFacilities
     /\ Start[1] = 0 /\ End(1) = n1 /\ Start[2] = n1 /\ End(2) = n2
     /\ Start[3] = n2 /\ End(3) = n3 /\ Start[4] = n3 /\ End(4) = NumObjects
BY ScannerAssumption DEF ScannerAssumption, Start, End, Size, NumObjects

LEMMA EntryHasSlot ==
  ASSUME NEW scan \in Seq(Seen), Len(scan) = NumObjects, TypesInPlace(scan),
         NEW k \in 1..NumObjects
  PROVE  Slot(scan, k) = SlotAt(k)
<1>1. PICK n1 \in Nat, n2 \in Nat, n3 \in Nat, n \in Nat :
        /\ n = NumObjects /\ n1 < n2 /\ n2 < n3 /\ n3 < n
        /\ n2 - n1 = NumEnemies /\ n3 - n2 = NumFriendFacilities
        /\ Start[1] = 0 /\ End(1) = n1 /\ Start[2] = n1 /\ End(2) = n2
        /\ Start[3] = n2 /\ End(3) = n3 /\ Start[4] = n3 /\ End(4) = n
  BY PartEnd
<1> DEFINE rank(i) == RankAt(i, n1, n2, n3)
           before == {i \in DOMAIN scan : \/ Rank[scan[i].type] < Rank[scan[k].type]
                                          \/ Rank[scan[i].type] = Rank[scan[k].type] /\ i < k}
<1>2. \A i \in 1..n : Rank[scan[i].type] = rank(i)
  <2>1. SUFFICES ASSUME NEW i \in 1..n PROVE Rank[scan[i].type] = rank(i)
    OBVIOUS
  <2>2. \A p \in Parts : i \in Start[p] + 1 .. End(p) => scan[i].type = TypeIn[p]
    BY <1>1 DEF TypesInPlace
  <2>3. CASE i <= n1
    <3>1. 1 \in Parts /\ i \in Start[1] + 1 .. End(1)
      BY <1>1, <2>3 DEF Parts
    <3>2. TypeIn[1] = "friend" /\ Rank["friend"] = 1
      BY DEF TypeIn, Rank
    <3>3. rank(i) = 1
      BY <1>1, <2>3 DEF RankAt
    <3> QED BY <3>1, <3>2, <3>3, <2>2
  <2>4. CASE i > n1 /\ i <= n2
    <3>1. 2 \in Parts /\ i \in Start[2] + 1 .. End(2)
      BY <1>1, <2>4 DEF Parts
    <3>2. TypeIn[2] = "enemy" /\ Rank["enemy"] = 3
      BY DEF TypeIn, Rank
    <3>3. rank(i) = 3
      BY <1>1, <2>4 DEF RankAt
    <3> QED BY <3>1, <3>2, <3>3, <2>2
  <2>5. CASE i > n2 /\ i <= n3
    <3>1. 3 \in Parts /\ i \in Start[3] + 1 .. End(3)
      BY <1>1, <2>5 DEF Parts
    <3>2. TypeIn[3] = "friendFacility" /\ Rank["friendFacility"] = 2
      BY DEF TypeIn, Rank
    <3>3. rank(i) = 2
      BY <1>1, <2>5 DEF RankAt
    <3> QED BY <3>1, <3>2, <3>3, <2>2
  <2>6. CASE i > n3
    <3>1. 4 \in Parts /\ i \in Start[4] + 1 .. End(4)
      BY <1>1, <2>6 DEF Parts
    <3>2. TypeIn[4] = "enemyFacility" /\ Rank["enemyFacility"] = 4
      BY DEF TypeIn, Rank
    <3>3. rank(i) = 4
      BY <1>1, <2>6 DEF RankAt
    <3> QED BY <3>1, <3>2, <3>3, <2>2
  <2> QED BY <2>3, <2>4, <2>5, <2>6
<1>3. before = {i \in 1..n : \/ rank(i) < rank(k)
                             \/ rank(i) = rank(k) /\ i < k}
  <2>1. DOMAIN scan = 1..n
    BY <1>1, LenProperties
  <2> HIDE DEF rank
  <2> QED BY <1>1, <1>2, <2>1
<1>4. Cardinality(before) =
        IF k > n1 /\ k <= n2 THEN k - 1 + (n3 - n2)
        ELSE IF k > n2 /\ k <= n3 THEN k - 1 - (n2 - n1) ELSE k - 1
  <2>1. k \in 1..n
    BY <1>1
  <2>2. IsBefore(before, k, n1, n2, n3, n)
    BY <1>3 DEF IsBefore
  <2>3. n1 < n2 /\ n2 < n3 /\ n3 < n
    BY <1>1
  <2> HIDE DEF before
  <2> QED BY <2>1, <2>2, <2>3, Before
<1>5. Slot(scan, k) = 1 + Cardinality(before)
  BY DEF Slot
<1> HIDE DEF before, rank
<1>6. k \in 1..n /\ /\ k \in Start[2] + 1 .. End(2) <=> k > n1 /\ k <= n2
                   /\ k \in Start[3] + 1 .. End(3) <=> k > n2 /\ k <= n3
  BY <1>1
<1>7. CASE k > n1 /\ k <= n2
  BY <1>1, <1>4, <1>5, <1>6, <1>7 DEF SlotAt
<1>8. CASE k > n2 /\ k <= n3
  BY <1>1, <1>4, <1>5, <1>6, <1>8 DEF SlotAt
<1>9. CASE k <= n1 \/ k > n3
  BY <1>1, <1>4, <1>5, <1>6, <1>9 DEF SlotAt
<1> QED BY <1>1, <1>6, <1>7, <1>8, <1>9

\* Every slot but the last is that of an entry, one of the type it is meant for.
LEMMA SlotHasEntry ==
  ASSUME NEW scan \in Seq(Seen), Len(scan) = NumObjects, TypesInPlace(scan),
         NEW slot \in 1..NumObjects
  PROVE  /\ \E k \in 1..NumObjects : Slot(scan, k) = slot
         /\ \A k \in 1..NumObjects : Slot(scan, k) = slot => scan[k].type = MeaningOf(slot)
<1>1. PICK n1 \in Nat, n2 \in Nat, n3 \in Nat, n \in Nat :
        /\ n1 = NumFriends /\ n = NumObjects /\ n1 < n2 /\ n2 < n3 /\ n3 < n
        /\ n2 - n1 = NumEnemies /\ n3 - n2 = NumFriendFacilities /\ n - n3 = NumEnemyFacilities
        /\ Start[1] = 0 /\ End(1) = n1 /\ Start[2] = n1 /\ End(2) = n2
        /\ Start[3] = n2 /\ End(3) = n3 /\ Start[4] = n3 /\ End(4) = n
  <2>1. NumEnemyFacilities \in Nat /\ NumObjects - (NumFriends + NumEnemies + NumFriendFacilities)
                                        = NumEnemyFacilities
    BY ScannerAssumption DEF ScannerAssumption, NumObjects
  <2> QED BY <2>1, PartEnd
<1>2. \A k \in 1..n : Slot(scan, k) = SlotAt(k)
  BY <1>1, EntryHasSlot
<1>3. \A k \in 1..n : SlotAt(k) = IF k > n1 /\ k <= n2 THEN k + (n3 - n2)
                                  ELSE IF k > n2 /\ k <= n3 THEN k - (n2 - n1) ELSE k
  <2>1. ASSUME NEW k \in 1..n
        PROVE  /\ k \in Start[2] + 1 .. End(2) <=> k > n1 /\ k <= n2
               /\ k \in Start[3] + 1 .. End(3) <=> k > n2 /\ k <= n3
    BY <1>1
  <2> QED BY <2>1, <1>1 DEF SlotAt
<1>4. slot \in 1..n
  BY <1>1
<1>5. /\ \A k \in 1..n1 : scan[k].type = "friend"
      /\ \A k \in n1 + 1 .. n2 : scan[k].type = "enemy"
      /\ \A k \in n2 + 1 .. n3 : scan[k].type = "friendFacility"
      /\ \A k \in n3 + 1 .. n : scan[k].type = "enemyFacility"
  <2>1. ASSUME NEW p \in Parts, NEW k \in Start[p] + 1 .. End(p), k \in 1..n
        PROVE  scan[k].type = TypeIn[p]
    BY <2>1, <1>1 DEF TypesInPlace
  <2>2. 1 \in Parts /\ 2 \in Parts /\ 3 \in Parts /\ 4 \in Parts
    BY DEF Parts
  <2>3. \A k \in 1..n1 : scan[k].type = "friend"
    <3>1. TypeIn[1] = "friend"
      BY DEF TypeIn
    <3>2. \A k \in 1..n1 : k \in Start[1] + 1 .. End(1) /\ k \in 1..n
      BY <1>1
    <3> QED BY <3>1, <3>2, <2>1, <2>2
  <2>4. \A k \in n1 + 1 .. n2 : scan[k].type = "enemy"
    <3>1. TypeIn[2] = "enemy"
      BY DEF TypeIn
    <3>2. \A k \in n1 + 1 .. n2 : k \in Start[2] + 1 .. End(2) /\ k \in 1..n
      BY <1>1
    <3> QED BY <3>1, <3>2, <2>1, <2>2
  <2>5. \A k \in n2 + 1 .. n3 : scan[k].type = "friendFacility"
    <3>1. TypeIn[3] = "friendFacility"
      BY DEF TypeIn
    <3>2. \A k \in n2 + 1 .. n3 : k \in Start[3] + 1 .. End(3) /\ k \in 1..n
      BY <1>1
    <3> QED BY <3>1, <3>2, <2>1, <2>2
  <2>6. \A k \in n3 + 1 .. n : scan[k].type = "enemyFacility"
    <3>1. TypeIn[4] = "enemyFacility"
      BY DEF TypeIn
    <3>2. \A k \in n3 + 1 .. n : k \in Start[4] + 1 .. End(4) /\ k \in 1..n
      BY <1>1
    <3> QED BY <3>1, <3>2, <2>1, <2>2
  <2> QED BY <2>3, <2>4, <2>5, <2>6
<1>6. /\ slot <= n1 => MeaningOf(slot) = "friend"
      /\ slot > n1 /\ slot <= n1 + (n3 - n2) => MeaningOf(slot) = "friendFacility"
      /\ slot > n1 + (n3 - n2) /\ slot <= n3 => MeaningOf(slot) = "enemy"
      /\ slot > n3 => MeaningOf(slot) = "enemyFacility"
  BY <1>1, <1>4 DEF MeaningOf
<1>7. \E k \in 1..n : Slot(scan, k) = slot
  <2>1. CASE slot <= n1 \/ slot > n3
    <3>1. SlotAt(slot) = slot
      BY <1>1, <1>3, <1>4, <2>1
    <3> QED BY <3>1, <1>2, <1>4
  <2>2. CASE slot > n1 /\ slot <= n1 + (n3 - n2)
    <3>1. slot + (n2 - n1) \in 1..n /\ SlotAt(slot + (n2 - n1)) = slot
      BY <1>1, <1>3, <1>4, <2>2
    <3> QED BY <3>1, <1>2
  <2>3. CASE slot > n1 + (n3 - n2) /\ slot <= n3
    <3>1. slot - (n3 - n2) \in 1..n /\ SlotAt(slot - (n3 - n2)) = slot
      BY <1>1, <1>3, <1>4, <2>3
    <3> QED BY <3>1, <1>2
  <2> QED BY <1>1, <1>4, <2>1, <2>2, <2>3
<1>8. ASSUME NEW k \in 1..n, Slot(scan, k) = slot
      PROVE  scan[k].type = MeaningOf(slot)
  <2>1. SlotAt(k) = slot
    BY <1>2, <1>8
  <2>2. CASE k <= n1
    BY <2>1, <2>2, <1>1, <1>3, <1>5, <1>6
  <2>3. CASE k > n1 /\ k <= n2
    BY <2>1, <2>3, <1>1, <1>3, <1>5, <1>6
  <2>4. CASE k > n2 /\ k <= n3
    BY <2>1, <2>4, <1>1, <1>3, <1>5, <1>6
  <2>5. CASE k > n3
    BY <2>1, <2>5, <1>1, <1>3, <1>5, <1>6
  <2> QED BY <1>1, <2>2, <2>3, <2>4, <2>5
<1> QED BY <1>1, <1>7, <1>8

LEMMA OwnSlot ==
  MeaningOf(NumObjects + 1) = "own"
BY ScannerAssumption DEF ScannerAssumption, NumObjects, MeaningOf

\* What update() makes of a scan.
LEMMA FedIsTyped ==
  ASSUME NEW was \in [Slots -> Inputs], NEW scan \in Seq(Seen), tick \in Nat
  PROVE  Fed(was, scan) \in [Slots -> Inputs]
<1>1. SUFFICES ASSUME NEW slot \in Slots PROVE Fed(was, scan)[slot] \in Inputs
  BY DEF Fed
<1> DEFINE here == {k \in DOMAIN scan : Slot(scan, k) = slot /\ scan[k].dir}
<1>2. CASE slot = NumObjects + 1
  BY <1>2 DEF Fed, Inputs
<1>3. CASE slot # NumObjects + 1 /\ here = {}
  BY <1>3 DEF Fed
<1>4. CASE slot # NumObjects + 1 /\ here # {}
  <2>1. PICK k \in here : Fed(was, scan)[slot] = [type |-> scan[k].type, tick |-> scan[k].tick]
    BY <1>4 DEF Fed
  <2>2. scan[k] \in Seen
    BY <2>1, LenProperties, ElementOfSeq
  <2> QED BY <2>1, <2>2 DEF Seen, Inputs
<1> QED BY <1>2, <1>3, <1>4

LEMMA FedIsCurrent ==
  ASSUME NEW was \in [Slots -> Inputs], NEW scan \in Seq(Seen), Current(scan), TypesInPlace(scan),
         NEW slot \in Slots
  PROVE  Fed(was, scan)[slot].type = MeaningOf(slot) /\ Fed(was, scan)[slot].tick = tick
<1>1. CASE slot = NumObjects + 1
  BY <1>1, OwnSlot DEF Fed
<1>2. CASE slot # NumObjects + 1
  <2> DEFINE here == {k \in DOMAIN scan : Slot(scan, k) = slot /\ scan[k].dir}
  <2>1. slot \in 1..NumObjects /\ DOMAIN scan = 1..NumObjects
    BY <1>2, PartEnd, LenProperties DEF Slots, Current
  <2>2. PICK k \in 1..NumObjects : Slot(scan, k) = slot
    BY <2>1, SlotHasEntry DEF Current
  <2>3. here # {}
    BY <2>1, <2>2 DEF Current
  <2>4. PICK j \in here : Fed(was, scan)[slot] = [type |-> scan[j].type, tick |-> scan[j].tick]
    BY <1>2, <2>3 DEF Fed
  <2>5. scan[j].type = MeaningOf(slot)
    <3>1. j \in 1..NumObjects /\ Slot(scan, j) = slot /\ Len(scan) = NumObjects
      BY <2>1, <2>4 DEF Current
    <3> QED BY <3>1, <2>1, SlotHasEntry
  <2>6. scan[j].tick = tick
    BY <2>1, <2>4 DEF Current
  <2> QED BY <2>4, <2>5, <2>6
<1> QED BY <1>1, <1>2

-----------------------------------------------------------------------------
(***************************************************************************)
(* The invariant.                                                          *)
(***************************************************************************)
LEMMA SensInit == Init => SensInv
<1> SUFFICES ASSUME Init PROVE SensInv
  OBVIOUS
<1>1. /\ phase = "begin" /\ tick = 0 /\ dead = {} /\ side = 0 /\ toLook = {} /\ looking = NoShip
      /\ trees = [t \in Team |-> {}] /\ baseTrees = [t \in Team |-> {}]
      /\ part = 1 /\ objects = <<>> /\ found = 0 /\ nearest = NoShip /\ index = 0 /\ last = 0
      /\ scans = [s \in Ship |-> <<>>] /\ inputs = [s \in Ship |-> [k \in Slots |-> Unset]]
  BY DEF Init
<1>2. \A S : <<>> \in Seq(S) /\ Len(<<>>) = 0
  BY EmptySeq
<1>3. /\ Size[1] \in Nat \ {0} /\ End(1) \in Nat /\ 1 \in Parts
  BY PartFacts DEF Parts
<1>4. SensType
  <2>1. tick \in 0..Ticks
    BY <1>1, ScannerAssumption DEF ScannerAssumption
  <2>2. Unset \in Inputs
    BY DEF Unset, Inputs
  <2>3. inputs \in [Ship -> [Slots -> Inputs]]
    BY <1>1, <2>2
  <2>4. scans \in [Ship -> Seq(Seen)] /\ \A s \in Ship : Len(scans[s]) \in {0, NumObjects}
    BY <1>1, <1>2
  <2> QED BY <1>1, <1>2, <1>3, <2>1, <2>3, <2>4 DEF SensType, Team
<1>5. LookInv /\ FillInv /\ SomebodyToFind
  BY <1>1 DEF LookInv, FillInv, SomebodyToFind, ProjectileEnds
<1>6. ScanInv
  <2>1. \A s \in Ship : scans[s] = <<>>
    BY <1>1
  <2> QED BY <1>1, <1>2, <2>1 DEF ScanInv, TypesInPlace
<1>7. InputsKeepMeaning /\ InputsAreFresh
  BY <1>1 DEF InputsKeepMeaning, InputsAreFresh, Unset
<1> QED BY <1>4, <1>5, <1>6, <1>7 DEF SensInv

\* Ships that die while the teams are scanning.
LEMMA BlastsKillShips ==
  ASSUME SensType, BlastsKill
  PROVE  /\ dead \subseteq dead' /\ dead' \subseteq Ship \cup Base
         /\ \A b \in Base : b \in dead' => b \in dead
<1>1. trees[0] \subseteq Ship /\ trees[1] \subseteq Ship /\ dead \subseteq Ship \cup Base
  BY DEF SensType, Team
<1> QED BY <1>1, ScannerAssumption DEF BlastsKill, ScannerAssumption

LEMMA LookStep ==
  ASSUME SensInv, Next
  PROVE  SensType' /\ LookInv' /\ FillInv'
<1> USE DEF SensInv
<1>1. CASE Prepare
  <2>1. /\ phase' = "look" /\ side' = 0 /\ toLook' = ShipsOf(0) /\ tick < Ticks /\ tick' = tick + 1
        /\ trees' = [t \in Team |-> ShipsOf(t) \ dead]
        /\ baseTrees' = [t \in Team |-> BasesOf(t)]
        /\ UNCHANGED <<dead, looking, part, objects, found, nearest, index, last, scans, inputs>>
        /\ looking = NoShip
    BY <1>1 DEF Prepare, LookInv, look
  <2>2. tick' \in 0..Ticks
    BY <2>1, ScannerAssumption DEF SensType, ScannerAssumption
  <2>3. trees' \in [Team -> SUBSET Ship] /\ baseTrees' \in [Team -> SUBSET Base]
    BY <2>1 DEF ShipsOf, BasesOf
  <2>4. (toLook \subseteq ShipsOf(side))' /\ (side \in Team)'
    BY <2>1 DEF ShipsOf, Team
  <2>5. SensType'
    BY <2>1, <2>2, <2>3, <2>4 DEF SensType, End
  <2> QED BY <2>1, <2>5 DEF LookInv, FillInv
<1>2. CASE EndBattle
  BY <1>2 DEF EndBattle, SensType, LookInv, FillInv, look, End, ShipsOf
<1>3. CASE \E s \in Ship : Visit(s)
  BY <1>3, ScanBegins
<1>4. CASE \E s \in Ship : Skip(s)
  <2>1. PICK s \in Ship : Skip(s)
    BY <1>4
  <2>2. /\ toLook' = toLook \ {s} /\ BlastsKill /\ looking = NoShip
        /\ UNCHANGED <<phase, tick, trees, baseTrees, side, looking, part, objects, found, nearest,
                       index, last, scans, inputs>>
    BY <2>1 DEF Skip, look
  <2>3. dead' \subseteq Ship \cup Base
    BY <2>2, BlastsKillShips
  <2>4. (toLook \subseteq ShipsOf(side))'
    BY <2>2 DEF SensType, ShipsOf
  <2>5. SensType'
    BY <2>2, <2>3, <2>4 DEF SensType, End
  <2> QED BY <2>2, <2>5 DEF LookInv, FillInv
<1>5. CASE SearchPart
  BY <1>5, PartIsSearched
<1>6. CASE Fill
  BY <1>6, EntryIsRepeated
<1>7. CASE NextPart
  BY <1>7, PartEnds
<1>8. CASE EndVisit
  BY <1>8, ScanEnds
<1>9. CASE EndSide
  <2>1. /\ looking = NoShip /\ toLook = {}
        /\ UNCHANGED <<tick, dead, trees, baseTrees, looking, part, objects, found, nearest,
                       index, last, scans, inputs>>
        /\ phase' \in {"look", "think"} /\ side' \in Team /\ toLook' \subseteq ShipsOf(side')
    BY <1>9 DEF EndSide, look, Team
  <2>2. SensType'
    BY <2>1 DEF SensType, End, ShipsOf
  <2> QED BY <2>1, <2>2 DEF LookInv, FillInv
<1>10. CASE Think
  <2>1. /\ phase' = "act" /\ phase = "think" /\ looking = NoShip
        /\ inputs' = [s \in Ship |-> IF Thinks(s) THEN Fed(inputs[s], scans[s]) ELSE inputs[s]]
        /\ UNCHANGED <<tick, dead, trees, baseTrees, side, toLook, looking, part, objects, found,
                       nearest, index, last, scans>>
    BY <1>10 DEF Think, look, LookInv
  <2>2. tick \in Nat
    BY ScannerAssumption DEF SensType, ScannerAssumption
  <2>3. \A s \in Ship : inputs[s] \in [Slots -> Inputs] /\ scans[s] \in Seq(Seen)
    BY DEF SensType
  <2>4. \A s \in Ship : Fed(inputs[s], scans[s]) \in [Slots -> Inputs]
    BY <2>2, <2>3, FedIsTyped
  <2>5. inputs' \in [Ship -> [Slots -> Inputs]]
    BY <2>1, <2>3, <2>4
  <2>6. SensType'
    BY <2>1, <2>5 DEF SensType, End, ShipsOf
  <2> QED BY <2>1, <2>6 DEF LookInv, FillInv
<1>11. CASE Act
  <2>1. /\ phase' = "begin" /\ phase = "act" /\ looking = NoShip
        /\ dead' \subseteq dead \cup Ship \cup Base
        /\ UNCHANGED <<tick, trees, baseTrees, side, toLook, looking, part, objects, found,
                       nearest, index, last, scans, inputs>>
    BY <1>11 DEF Act, look, LookInv
  <2>2. SensType'
    BY <2>1 DEF SensType, End, ShipsOf
  <2> QED BY <2>1, <2>2 DEF LookInv, FillInv
<1>12. CASE Rest
  BY <1>12 DEF Rest, vars, look, SensType, LookInv, FillInv, End, ShipsOf
<1> QED BY <1>1, <1>2, <1>3, <1>4, <1>5, <1>6, <1>7, <1>8, <1>9, <1>10, <1>11, <1>12 DEF Next

LEMMA TreeStep ==
  ASSUME SensInv, Next
  PROVE  SomebodyToFind'
<1> USE DEF SensInv
<1>1. CASE Prepare
  <2>1. /\ \A t \in Team : ~TeamIsDead(t) /\ trees'[t] = ShipsOf(t) \ dead /\ baseTrees'[t] = BasesOf(t)
        /\ dead' = dead
    BY <1>1 DEF Prepare
  <2> QED BY <2>1 DEF TeamIsDead, SomebodyToFind, ProjectileEnds
<1>2. CASE EndBattle \/ Act
  BY <1>2 DEF EndBattle, Act, SomebodyToFind, ProjectileEnds
<1>3. CASE BlastsKill /\ UNCHANGED <<phase, trees, baseTrees>>
  <2>1. \A t \in Team : baseTrees[t] \subseteq Base
    BY DEF SensType
  <2> QED BY <1>3, <2>1, BlastsKillShips DEF SomebodyToFind, ProjectileEnds
<1>4. CASE UNCHANGED <<dead, trees, baseTrees>> /\ (phase' = "look" => phase = "look")
  BY <1>4 DEF SomebodyToFind, ProjectileEnds
<1>5. \/ BlastsKill /\ UNCHANGED <<phase, trees, baseTrees>>
      \/ UNCHANGED <<dead, trees, baseTrees>> /\ (phase' = "look" => phase = "look")
      \/ Prepare \/ EndBattle \/ Act
  BY DEF Next, Visit, Skip, SearchPart, Fill, NextPart, EndVisit, EndSide, Think, Rest, vars
<1> QED BY <1>1, <1>2, <1>3, <1>4, <1>5

LEMMA ScanStep ==
  ASSUME SensInv, Next
  PROVE  ScanInv'
<1> USE DEF SensInv
<1>0. /\ \A s \in Ship : TypesInPlace(scans[s])
      /\ phase = "look" =>
           \A s \in Ship : Thinks(s) /\ TeamOf[s] <= side /\ s \notin toLook => Current(scans[s])
      /\ phase = "think" => \A s \in Ship : Thinks(s) => Current(scans[s])
  BY DEF ScanInv
<1>1. \A s \in Ship : TeamOf[s] \in {0, 1}
  BY ScannerAssumption DEF ScannerAssumption, Team
<1>2. CASE Prepare
  <2>1. phase' = "look" /\ side' = 0 /\ toLook' = ShipsOf(0) /\ scans' = scans
    BY <1>2 DEF Prepare
  <2>2. \A s \in Ship : TeamOf[s] <= 0 => s \in ShipsOf(0)
    BY <1>1 DEF ShipsOf
  <2> QED BY <2>1, <2>2, <1>0 DEF ScanInv
<1>3. CASE EndBattle \/ Think \/ Act
  BY <1>3, <1>0 DEF EndBattle, Think, Act, ScanInv
<1>4. CASE UNCHANGED <<phase, tick, dead, side, toLook, scans>>
  BY <1>4, <1>0 DEF ScanInv, Thinks, Current
<1>5. CASE \E s \in Ship : Skip(s)
  <2>1. PICK s \in Ship : Skip(s)
    BY <1>5
  <2>2. /\ phase = "look" /\ phase' = "look" /\ toLook' = toLook \ {s} /\ BlastsKill /\ ~Thinks(s)
        /\ tick' = tick /\ side' = side /\ scans' = scans
    BY <2>1 DEF Skip
  <2>3. dead \subseteq dead'
    BY <2>2, BlastsKillShips
  <2>4. ASSUME NEW u \in Ship, Thinks(u)', TeamOf[u] <= side, u \notin toLook'
        PROVE  Current(scans[u])
    <3>1. Thinks(u) /\ u # s
      BY <2>2, <2>3, <2>4 DEF Thinks
    <3> QED BY <3>1, <2>2, <2>4, <1>0
  <2> QED BY <2>2, <2>4, <1>0 DEF ScanInv, Current
<1>6. CASE EndVisit
  <2>1. /\ TypesInPlace(scans'[looking]) /\ Current(scans'[looking])
        /\ looking \in Ship /\ \A s \in Ship \ {looking} : scans'[s] = scans[s]
    BY <1>6, ScanEnds
  <2>2. /\ phase = "look" /\ phase' = "look" /\ toLook' = toLook \ {looking} /\ BlastsKill
        /\ tick' = tick /\ side' = side
    BY <1>6 DEF EndVisit, LookInv
  <2>3. dead \subseteq dead'
    BY <2>2, BlastsKillShips
  <2>4. ASSUME NEW u \in Ship, Thinks(u)', TeamOf[u] <= side, u \notin toLook'
        PROVE  Current(scans'[u])
    <3>1. CASE u = looking
      BY <3>1, <2>1
    <3>2. CASE u # looking
      <4>1. Thinks(u) /\ u \notin toLook /\ scans'[u] = scans[u]
        BY <3>2, <2>1, <2>2, <2>3, <2>4 DEF Thinks
      <4> QED BY <4>1, <2>2, <2>4, <1>0
    <3> QED BY <3>1, <3>2
  <2>5. \A u \in Ship : TypesInPlace(scans'[u])
    BY <2>1, <1>0
  <2> QED BY <2>2, <2>4, <2>5 DEF ScanInv, Current
<1>7. CASE EndSide
  <2>1. /\ phase = "look" /\ toLook = {} /\ UNCHANGED <<tick, dead, scans>>
        /\ \/ side = 0 /\ side' = 1 /\ toLook' = ShipsOf(1) /\ phase' = "look"
           \/ side = 1 /\ phase' = "think"
    BY <1>7 DEF EndSide, SensType, Team
  <2>2. \A s \in Ship : s \notin ShipsOf(1) => TeamOf[s] <= 0
    BY <1>1 DEF ShipsOf
  <2>3. \A s \in Ship : TeamOf[s] <= 1
    BY <1>1
  <2>4. CASE side = 0 /\ side' = 1 /\ toLook' = ShipsOf(1) /\ phase' = "look"
    BY <2>1, <2>2, <2>4, <1>0 DEF ScanInv, Thinks, Current
  <2>5. CASE side = 1 /\ phase' = "think"
    BY <2>1, <2>3, <2>5, <1>0 DEF ScanInv, Thinks, Current
  <2> QED BY <2>1, <2>4, <2>5
<1>8. \/ Prepare \/ EndBattle \/ Think \/ Act
      \/ UNCHANGED <<phase, tick, dead, side, toLook, scans>>
      \/ (\E s \in Ship : Skip(s)) \/ EndVisit \/ EndSide
  BY DEF Next, Visit, SearchPart, Fill, NextPart, Rest, vars
<1> QED BY <1>2, <1>3, <1>4, <1>5, <1>6, <1>7, <1>8

LEMMA InputStep ==
  ASSUME SensInv, Next
  PROVE  InputsKeepMeaning' /\ InputsAreFresh'
<1> USE DEF SensInv
<1>1. CASE Think
  <2>1. /\ phase' = "act" /\ phase = "think"
        /\ inputs' = [s \in Ship |-> IF Thinks(s) THEN Fed(inputs[s], scans[s]) ELSE inputs[s]]
        /\ dead' = dead /\ tick' = tick
    BY <1>1 DEF Think
  <2>2. \A s \in Ship : inputs[s] \in [Slots -> Inputs] /\ scans[s] \in Seq(Seen)
    BY DEF SensType
  <2>3. \A s \in Ship : TypesInPlace(scans[s]) /\ (Thinks(s) => Current(scans[s]))
    BY <2>1 DEF ScanInv
  <2>4. ASSUME NEW s \in Ship, NEW slot \in Slots, Thinks(s)
        PROVE  inputs'[s][slot].type = MeaningOf(slot) /\ inputs'[s][slot].tick = tick
    <3>1. inputs'[s] = Fed(inputs[s], scans[s])
      BY <2>1, <2>4
    <3>2. /\ Fed(inputs[s], scans[s])[slot].type = MeaningOf(slot)
          /\ Fed(inputs[s], scans[s])[slot].tick = tick
      BY <2>2, <2>3, <2>4, FedIsCurrent
    <3> QED BY <3>1, <3>2
  <2>5. ASSUME NEW s \in Ship, NEW slot \in Slots, ~Thinks(s)
        PROVE  inputs'[s][slot].type \in {"unset", MeaningOf(slot)}
    BY <2>1, <2>5 DEF InputsKeepMeaning
  <2>6. InputsKeepMeaning'
    BY <2>4, <2>5 DEF InputsKeepMeaning, MeaningOf
  <2>7. \A slot \in Slots : MeaningOf(slot) # "unset"
    BY DEF MeaningOf
  <2>8. InputsAreFresh'
    BY <2>1, <2>4, <2>7 DEF InputsAreFresh, Thinks
  <2> QED BY <2>6, <2>8
<1>2. CASE inputs' = inputs /\ (phase' # "act" \/ UNCHANGED <<phase, dead, tick>>)
  BY <1>2 DEF InputsKeepMeaning, InputsAreFresh, MeaningOf, Thinks
<1>3. \/ inputs' = inputs /\ (phase' # "act" \/ UNCHANGED <<phase, dead, tick>>)
      \/ Think
  BY DEF Next, Prepare, EndBattle, Visit, Skip, SearchPart, Fill, NextPart, EndVisit, EndSide,
         Act, Rest, vars, LookInv
<1> QED BY <1>1, <1>2, <1>3

LEMMA SensNext == SensInv /\ [Next]_vars => SensInv'
<1>1. ASSUME SensInv, Next PROVE SensInv'
  BY <1>1, LookStep, TreeStep, ScanStep, InputStep DEF SensInv
<1>2. ASSUME SensInv, UNCHANGED vars PROVE SensInv'
  BY <1>2 DEF vars, look, SensInv, SensType, LookInv, FillInv, SomebodyToFind, ProjectileEnds, ScanInv,
              InputsKeepMeaning, InputsAreFresh, Thinks, Current, End, ShipsOf, MeaningOf
<1> QED BY <1>1, <1>2

\* The invariant holds in every battle.
THEOREM SensInvariant == Spec => []SensInv
<1> QED BY SensInit, SensNext, PTL DEF Spec

-----------------------------------------------------------------------------
\* The types, and the bounds of the loop that fills a scan up: it only copies
\* entries that are there, and no scan gets longer than its parts allow.
THEOREM ScansAreBounded == Spec => []TypeOK
<1>1. SensInv => TypeOK
  <2>1. SUFFICES ASSUME SensInv PROVE TypeOK
    OBVIOUS
  <2>2. SensType
    BY <2>1 DEF SensInv
  <2>3. ASSUME looking # NoShip /\ found # 0
        PROVE  index \in 1..last /\ last \in 1..Len(objects)
    <3>1. index \in Start[part] + 1 .. last /\ last <= Len(objects)
      BY <2>1, <2>3 DEF SensInv, FillInv
    <3>2. Start[part] \in Nat /\ Len(objects) \in Nat /\ last \in Nat
      BY <2>2, PartFacts, LenProperties DEF SensType
    <3> QED BY <3>1, <3>2
  <2> QED BY <2>2, <2>3 DEF SensType, TypeOK
<1> QED BY <1>1, SensInvariant, PTL

\* While the teams scan, the findNearest() of projectiles has a ship of either
\* team to return, dead or alive, and either team has a base that lives, whoever
\* was killed by the blasts of ships that were visited before.
THEOREM ProjectilesFindSomebody == Spec => []SomebodyToFind
<1>1. SensInv => SomebodyToFind
  BY DEF SensInv
<1> QED BY <1>1, SensInvariant, PTL

\* Scans of any length are filled up evenly, each part from its own entries.
THEOREM PartsRepeatEvenly == Spec => []EvenRepeats
<1>1. SensInv => EvenRepeats
  <2>1. SUFFICES ASSUME SensInv, looking # NoShip, found # 0,
                        NEW k \in Start[part] + 1 .. Len(objects)
                 PROVE  /\ objects[k].type = TypeIn[part]
                        /\ k > Start[part] + found => objects[k] = objects[k - found]
    BY DEF EvenRepeats
  <2>2. SensType /\ FillInv /\ TypesInPlace(objects)
    BY <2>1 DEF SensInv, LookInv
  <2>3. /\ Start[part] \in Nat /\ Len(objects) \in Nat /\ End(part) \in Nat /\ found \in Nat
        /\ Len(objects) <= End(part) /\ part \in Parts
    BY <2>2, PartFacts, LenProperties DEF SensType
  <2>4. objects[k].type = TypeIn[part]
    <3>1. k \in Start[part] + 1 .. End(part) /\ k \in 1..Len(objects)
      BY <2>1, <2>3
    <3> QED BY <3>1, <2>2, <2>3 DEF TypesInPlace
  <2>5. ASSUME k > Start[part] + found
        PROVE  objects[k] = objects[k - found]
    <3>1. k - found \in Start[part] + 1 .. Len(objects) /\ k - (k - found) = found
      BY <2>1, <2>3, <2>5
    <3>2. Multiple(k - (k - found), found)
      BY <3>1, <2>3, MultipleSelf
    <3> QED BY <3>1, <3>2, <2>1, <2>2 DEF FillInv
  <2> QED BY <2>4, <2>5
<1> QED BY <1>1, SensInvariant, PTL

\* An input of a network tells the same, in every ship and in every tick.
THEOREM InputsMeanTheSame == Spec => []InputsKeepMeaning
<1>1. SensInv => InputsKeepMeaning
  BY DEF SensInv
<1> QED BY <1>1, SensInvariant, PTL

\* A network runs on nothing older than its tick, with any number of ships
\* dying while the teams scan.
THEOREM NetworksRunOnFreshInputs == Spec => []InputsAreFresh
<1>1. SensInv => InputsAreFresh
  BY DEF SensInv
<1> QED BY <1>1, SensInvariant, PTL

-----------------------------------------------------------------------------
(***************************************************************************)
(* What a scan shows lives.  While the teams scan, the trees hold who lives*)
(* and nobody of the wrong team.                                           *)
(***************************************************************************)
TreeInv ==
  phase = "look" =>
    \A t \in Team : /\ trees[t] \subseteq ShipsOf(t) /\ ShipsOf(t) \ dead \subseteq trees[t]
                    /\ baseTrees[t] = BasesOf(t)

ShowInv == SensInv /\ TreeInv /\ SeesWhatLives

\* What a sequence holds.
Held(l) == {l[i] : i \in 1..Len(l)}

LEMMA CandidatesLive ==
  ASSUME SensInv, TreeInv, looking # NoShip
  PROVE  Candidates(part) = Alive(part)
<1>1. part = 1 \/ part = 2 \/ part = 3 \/ part = 4
  BY DEF SensInv, SensType, Parts
<1>2. /\ side \in Team /\ 1 - side \in Team
      /\ \A t \in Team : /\ trees[t] \subseteq ShipsOf(t) /\ ShipsOf(t) \ dead \subseteq trees[t]
                         /\ baseTrees[t] = BasesOf(t)
  BY DEF SensInv, SensType, LookInv, TreeInv, Team
<1>3. CASE part = 1
  BY <1>2, <1>3 DEF Candidates, Tree, Alive, ShipsOf
<1>4. CASE part = 2
  BY <1>2, <1>4 DEF Candidates, Tree, Alive, ShipsOf
<1>5. CASE part = 3
  BY <1>2, <1>5 DEF Candidates, Tree, Alive, BasesOf
<1>6. CASE part = 4
  BY <1>2, <1>6 DEF Candidates, Tree, Alive, BasesOf
<1> QED BY <1>1, <1>3, <1>4, <1>5, <1>6

\* The first j of a sequence without repetitions are j.
LEMMA FirstAreMany ==
  ASSUME NEW S, NEW l \in Seq(S), NEW j \in 0..Len(l),
         \A a, b \in 1..Len(l) : l[a] = l[b] => a = b,
         NEW T, T = {l[i] : i \in 1..j}
  PROVE  IsFiniteSet(T) /\ Cardinality(T) = j
<1> DEFINE f == [i \in 1..j |-> l[i]]
<1>1. Len(l) \in Nat /\ j \in Nat /\ \A i \in 1..j : i \in 1..Len(l)
  BY LenProperties
<1>2. f \in Bijection(1..j, T)
  BY <1>1 DEF Bijection, Injection, Surjection, IsInjective
<1>3. ExistsBijection(1..j, T)
  BY <1>2 DEF ExistsBijection
<1>4. IsFiniteSet(1..j) /\ Cardinality(1..j) = j
  BY <1>1, FS_Interval
<1> HIDE DEF f
<1> QED BY <1>3, <1>4, FS_Bijection

\* findNearestN() returns as many different candidates as it should, or all.
LEMMA FirstNCovers ==
  ASSUME SensType, NEW m \in Nat, NEW l \in FirstN(part, m)
  PROVE  /\ l \in Seq(Candidates(part))
         /\ \A i, j \in 1..Len(l) : l[i] = l[j] => i = j
         /\ Len(l) >= m \/ Held(l) = Candidates(part)
         /\ l # <<>> /\ Root(part) \in Candidates(part) => l[1] = Root(part)
<1> DEFINE C == Candidates(part)
<1>1. PICK k \in 0..Cardinality(C) : l \in [1..k -> C]
  BY DEF FirstN
<1>2. IsFiniteSet(C) /\ Cardinality(C) \in Nat /\ k \in Nat
  BY <1>1, CandidatesFacts
<1>3. l \in Seq(C) /\ Len(l) = k /\ DOMAIN l = 1..k
  BY <1>1, <1>2, SeqDef
<1>4. /\ \A i, j \in DOMAIN l : l[i] = l[j] => i = j
      /\ Len(l) >= m \/ Len(l) = Cardinality(C)
      /\ l # <<>> /\ Root(part) \in C => l[1] = Root(part)
  BY DEF FirstN
<1>5. ASSUME Len(l) = Cardinality(C) PROVE Held(l) = C
  <2> HIDE DEF C
  <2>1. k \in 0..Len(l)
    BY <1>2, <1>3
  <2>2. \A a, b \in 1..Len(l) : l[a] = l[b] => a = b
    BY <1>3, <1>4
  <2>3. PICK T : T = {l[i] : i \in 1..k}
    OBVIOUS
  <2>4. Cardinality(T) = k
    BY <2>1, <2>2, <2>3, <1>3, FirstAreMany
  <2>5. Held(l) = T /\ T \in SUBSET C
    BY <2>3, <1>1, <1>3 DEF Held
  <2> QED BY <2>4, <2>5, <1>2, <1>3, <1>5, FS_Subset
<1> QED BY <1>3, <1>4, <1>5

\* What resize() leaves of a list.
LEMMA CutIsStart ==
  ASSUME NEW S, NEW l \in Seq(S), l # <<>>, NEW n \in Nat \ {0}, NEW c, c = Cut(l, n)
  PROVE  /\ c \in Seq(S) /\ Len(c) \in Nat \ {0}
         /\ Len(c) <= Len(l) /\ Len(c) <= n /\ (Len(c) = Len(l) \/ Len(c) = n)
         /\ \A i \in 1..Len(c) : c[i] = l[i]
<1>1. Len(l) \in Nat \ {0}
  BY EmptySeq
<1> DEFINE m == IF Len(l) < n THEN Len(l) ELSE n
<1>2. /\ m \in Nat \ {0} /\ m <= Len(l) /\ m <= n /\ (m = Len(l) \/ m = n)
      /\ Cut(l, n) = SubSeq(l, 1, m)
  BY <1>1 DEF Cut
<1> HIDE DEF m
<1>3. \A i \in 1..m : l[i] \in S
  BY <1>1, <1>2, ElementOfSeq
<1>4. /\ SubSeq(l, 1, m) \in Seq(S)
      /\ Len(SubSeq(l, 1, m)) = IF 1 <= m THEN m - 1 + 1 ELSE 0
      /\ \A i \in 1 .. m - 1 + 1 : SubSeq(l, 1, m)[i] = l[1 + i - 1]
  BY <1>2, <1>3, SubSeqProperties
<1>5. Len(SubSeq(l, 1, m)) = m /\ \A i \in 1..m : SubSeq(l, 1, m)[i] = l[i]
  BY <1>2, <1>4
<1> QED BY <1>2, <1>4, <1>5

\* A list of what findNearest() found, if anything, and of what findNearestN()
\* found after it, cut: it holds all there are or as many as there is room for,
\* unless what findNearest() found was found again.
LEMMA CutKeeps ==
  ASSUME SensType, NEW a \in Seq(Candidates(part)), Len(a) \in {0, 1},
         NEW m \in FirstN(part, Size[part] - Len(a)), a \o m # <<>>
  PROVE  LET c == Cut(a \o m, Size[part])
         IN /\ Held(c) \subseteq Candidates(part) /\ Held(c) # {}
            /\ \/ Candidates(part) \subseteq Held(c) \/ Cardinality(Held(c)) >= Size[part]
               \/ /\ Len(a) = 1 /\ Cardinality(Held(c)) >= Size[part] - 1
                  /\ \E i \in 2..Len(c) : c[i] = c[1]
            /\ Len(a) = 1 => a[1] \in Held(c)
            /\ Size[part] >= 2 /\ m # <<>> /\ Root(part) \in Candidates(part) =>
                 Root(part) \in Held(c)
<1> DEFINE C == Candidates(part)
           l == a \o m
           c == Cut(l, Size[part])
           d == Len(a)
           n == Size[part]
<1>1. n \in Nat \ {0} /\ d \in Nat /\ d <= 1 /\ n - d \in Nat
  <2>1. n \in Nat \ {0} /\ d \in {0, 1}
    BY PartFacts DEF SensType
  <2> HIDE DEF n, d
  <2> QED BY <2>1
<1>2. /\ m \in Seq(C)
      /\ \A i, j \in 1..Len(m) : m[i] = m[j] => i = j
      /\ Len(m) >= n - d \/ Held(m) = C
      /\ m # <<>> /\ Root(part) \in C => m[1] = Root(part)
  BY <1>1, FirstNCovers
<1>2a. IsFiniteSet(C)
  BY CandidatesFacts
<1>2b. l # <<>> /\ a \in Seq(C)
  OBVIOUS
<1>2c. l = a \o m /\ c = Cut(l, n) /\ d = Len(a)
  OBVIOUS
<1> HIDE DEF C, l, c, d, n
<1>3. /\ l \in Seq(C) /\ Len(l) = d + Len(m) /\ Len(m) \in Nat
      /\ \A i \in 1 .. d + Len(m) : l[i] = IF i <= d THEN a[i] ELSE m[i - d]
  BY <1>2, <1>2b, <1>2c, ConcatProperties, LenProperties
<1>4. PICK k \in Nat \ {0} :
           /\ k <= Len(l) /\ k <= n /\ (k = Len(l) \/ k = n)
           /\ c \in Seq(C) /\ Len(c) = k
           /\ \A i \in 1..k : c[i] = l[i]
  <2>1. n \in Nat \ {0} /\ l \in Seq(C) /\ l # <<>> /\ c = Cut(l, n)
    BY <1>1, <1>2b, <1>2c, <1>3
  <2>2. /\ c \in Seq(C) /\ Len(c) \in Nat \ {0}
        /\ Len(c) <= Len(l) /\ Len(c) <= n /\ (Len(c) = Len(l) \/ Len(c) = n)
        /\ \A i \in 1..Len(c) : c[i] = l[i]
    BY <2>1, CutIsStart
  <2> QED BY <2>2
<1>5. Held(c) \subseteq C /\ Held(c) # {}
  <2>1. \A i \in 1..Len(c) : c[i] \in C
    BY <1>4, ElementOfSeq
  <2>2. 1 \in 1..Len(c)
    BY <1>4
  <2> QED BY <2>1, <2>2 DEF Held
<1>6. PICK j \in Nat : j = k - d
  BY <1>1, <1>4
<1>7. j <= Len(m) /\ (j = Len(m) \/ j = n - d)
  BY <1>1, <1>3, <1>4, <1>6
<1>8. \A i \in 1..j : i + d \in 1..k /\ c[i + d] = m[i]
  <2>1. SUFFICES ASSUME NEW i \in 1..j PROVE i + d \in 1..k /\ c[i + d] = m[i]
    OBVIOUS
  <2>2. PICK h \in Int : h = i + d
    BY <1>1
  <2>3. h \in 1..k /\ h \in 1 .. d + Len(m) /\ ~(h <= d) /\ h - d = i
    BY <2>2, <1>1, <1>3, <1>6, <1>7
  <2>4. c[h] = l[h] /\ l[h] = m[h - d]
    BY <2>3, <1>3, <1>4
  <2> QED BY <2>2, <2>3, <2>4
<1>9. {m[i] : i \in 1..j} \subseteq Held(c)
  BY <1>8, <1>4 DEF Held
<1>10. ASSUME d = 1 PROVE a[1] \in Held(c)
  <2>1. 1 \in 1..k /\ 1 \in 1 .. d + Len(m) /\ 1 <= d
    BY <1>3, <1>4, <1>10
  <2>2. c[1] = a[1]
    BY <2>1, <1>3, <1>4
  <2> QED BY <2>1, <2>2, <1>4 DEF Held
<1>11. \/ C \subseteq Held(c) \/ Cardinality(Held(c)) >= n
       \/ d = 1 /\ Cardinality(Held(c)) >= n - 1 /\ \E i \in 2..Len(c) : c[i] = c[1]
  <2>1. CASE j = n - d
    <3>1. j \in 0..Len(m)
      BY <1>3, <1>7
    <3>2. PICK T : T = {m[i] : i \in 1..j}
      OBVIOUS
    <3>3. IsFiniteSet(T) /\ Cardinality(T) = j
      BY <3>1, <3>2, <1>2, FirstAreMany
    <3>4. IsFiniteSet(Held(c))
      BY <1>5, <1>2a, FS_Subset
    <3>5. T \subseteq Held(c)
      BY <3>2, <1>9
    <3>6. PICK h \in Nat : h = Cardinality(Held(c))
      BY <3>4, FS_CardinalityType
    <3>7. j <= h
      BY <3>3, <3>4, <3>5, <3>6, FS_Subset
    <3>8. CASE d = 0
      BY <3>6, <3>7, <3>8, <2>1, <1>1
    <3>9. CASE d = 1 /\ a[1] \in T
      <4>1. PICK i \in 1..j : m[i] = a[1]
        BY <3>2, <3>9
      <4>2. i + d \in 1..k /\ c[i + d] = m[i]
        BY <1>8
      <4>3. i + 1 \in 2..k /\ c[i + 1] = m[i]
        BY <4>2, <3>9, <1>6, <1>4
      <4>4. c[1] = a[1]
        <5>1. 1 \in 1..k /\ 1 \in 1 .. d + Len(m) /\ 1 <= d
          BY <1>3, <1>4, <3>9
        <5> QED BY <5>1, <1>3, <1>4
      <4> QED BY <4>1, <4>3, <4>4, <3>6, <3>7, <3>9, <2>1, <1>1, <1>4
    <3>10. CASE d = 1 /\ a[1] \notin T
      <4>1. T \cup {a[1]} \subseteq Held(c)
        BY <3>5, <3>10, <1>10
      <4>2. Cardinality(T \cup {a[1]}) = j + 1
        BY <3>3, <3>10, FS_AddElement
      <4>3. j + 1 <= h
        BY <4>1, <4>2, <3>4, <3>6, FS_Subset
      <4> QED BY <4>3, <3>6, <3>10, <2>1, <1>1
    <3>11. d = 0 \/ d = 1
      BY <1>1
    <3> QED BY <3>8, <3>9, <3>10, <3>11
  <2>2. CASE j = Len(m) /\ j # n - d
    <3>1. Held(m) = C
      BY <2>2, <1>1, <1>2, <1>3, <1>7, <1>4, <1>6
    <3> QED BY <3>1, <2>2, <1>9 DEF Held
  <2> QED BY <2>1, <2>2, <1>7
<1>12. ASSUME n >= 2, m # <<>>, Root(part) \in C PROVE Root(part) \in Held(c)
  <2>1. m[1] = Root(part) /\ Len(m) \in Nat \ {0}
    BY <1>12, <1>2, EmptySeq
  <2>2. 1 \in 1..j
    BY <2>1, <1>1, <1>7, <1>12
  <2> QED BY <2>1, <2>2, <1>9
<1> QED BY <1>5, <1>10, <1>11, <1>12 DEF C, l, c, d, n

\* What a search leaves in the scan lives, and is as much as it should be.
LEMMA SearchCovers ==
  ASSUME SensType, NEW n \in IF Candidates(part) = {} THEN {NoShip} ELSE Candidates(part),
         NEW l \in Search(part, n)
  PROVE  IF l = <<>> THEN Candidates(part) = {}
         ELSE /\ Held(Cut(l, Size[part])) \subseteq Candidates(part)
              /\ \/ Candidates(part) \subseteq Held(Cut(l, Size[part]))
                 \/ Cardinality(Held(Cut(l, Size[part]))) >= Size[part]
                 \/ /\ part \in {1, 2}
                    /\ Cardinality(Held(Cut(l, Size[part]))) >= Size[part] - 1
                    /\ \E i \in 2..Len(Cut(l, Size[part])) :
                         Cut(l, Size[part])[i] = Cut(l, Size[part])[1]
              /\ part \in {1, 2} /\ Size[part] >= 2 => n \in Held(Cut(l, Size[part]))
<1> DEFINE C == Candidates(part)
           others == C \ {Root(part)}
<1>1. Size[part] \in Nat \ {0} /\ IsFiniteSet(C)
  BY PartFacts, CandidatesFacts DEF SensType
<1>2. \E a \in Seq(C) : \E m \in FirstN(part, Size[part] - Len(a)) :
         /\ l = a \o m /\ Len(a) \in {0, 1}
         /\ part \notin {1, 2} => Len(a) = 0
         /\ Len(a) = 0 => part \notin {1, 2} \/ others = {}
         /\ part \in {1, 2} /\ n \in others => Len(a) = 1 /\ a[1] = n
  <2>1. CASE part \notin {1, 2}
    <3>1. l \in FirstN(part, Size[part])
      BY <2>1 DEF Search
    <3>2. l \in Seq(C)
      BY <3>1, <1>1, FirstNCovers
    <3>3. <<>> \in Seq(C) /\ Len(<<>>) = 0 /\ l = <<>> \o l /\ Size[part] - 0 = Size[part]
      BY <3>2, <1>1, EmptySeq, ConcatEmptySeq
    <3> HIDE DEF C
    <3> QED BY <3>1, <3>3, <2>1
  <2>2. CASE part \in {1, 2}
    <3>1. PICK a \in Nearest(part, n) : l \in {a \o m : m \in FirstN(part, Size[part] - Len(a))}
      BY <2>2 DEF Search
    <3>2. PICK m \in FirstN(part, Size[part] - Len(a)) : l = a \o m
      BY <3>1
    <3>3. CASE others = {}
      <4>1. a = <<>>
        BY <3>1, <3>3 DEF Nearest
      <4>2. a \in Seq(C) /\ Len(a) = 0
        BY <4>1, EmptySeq
      <4> HIDE DEF C
      <4> QED BY <3>2, <3>3, <4>2
    <3>4. CASE others # {}
      <4>1. PICK o \in others : a = <<o>> /\ (n \in others => o = n)
        BY <3>1, <3>4 DEF Nearest
      <4>2. o \in C
        BY <4>1
      <4> HIDE DEF C, others
      <4>3. a \in Seq(C) /\ Len(a) = 1 /\ a[1] = o
        BY <4>1, <4>2
      <4>4. /\ l = a \o m /\ Len(a) \in {0, 1}
            /\ part \notin {1, 2} => Len(a) = 0
            /\ Len(a) = 0 => part \notin {1, 2} \/ others = {}
            /\ part \in {1, 2} /\ n \in others => Len(a) = 1 /\ a[1] = n
        BY <2>2, <3>2, <4>1, <4>3
      <4>5. m \in FirstN(part, Size[part] - Len(a)) /\ a \in Seq(C)
        BY <3>2, <4>3
      <4> QED BY <4>4, <4>5
    <3> QED BY <3>3, <3>4
  <2> QED BY <2>1, <2>2
<1>3. PICK a \in Seq(C) : \E m \in FirstN(part, Size[part] - Len(a)) :
         /\ l = a \o m /\ Len(a) \in {0, 1}
         /\ part \notin {1, 2} => Len(a) = 0
         /\ Len(a) = 0 => part \notin {1, 2} \/ others = {}
         /\ part \in {1, 2} /\ n \in others => Len(a) = 1 /\ a[1] = n
  BY <1>2
<1>4. PICK m \in FirstN(part, Size[part] - Len(a)) :
         /\ l = a \o m /\ Len(a) \in {0, 1}
         /\ part \notin {1, 2} => Len(a) = 0
         /\ Len(a) = 0 => part \notin {1, 2} \/ others = {}
         /\ part \in {1, 2} /\ n \in others => Len(a) = 1 /\ a[1] = n
  BY <1>3
<1>5. Size[part] - Len(a) \in Nat
  BY <1>1, <1>4
<1>6. m \in Seq(C) /\ (Len(m) >= Size[part] - Len(a) \/ Held(m) = C)
  BY <1>5, FirstNCovers
<1>7. CASE l = <<>>
  <2> HIDE DEF C
  <2>0. a \in Seq(C) /\ m \in Seq(C) /\ a \o m = <<>>
    BY <1>3, <1>4, <1>6, <1>7
  <2>1. a = <<>> /\ m = <<>>
    BY <2>0, ConcatEqualIffEmpty
  <2>2. Len(a) = 0 /\ Len(m) = 0 /\ Held(m) = {}
    BY <2>1, EmptySeq DEF Held
  <2>3. Size[part] - Len(a) >= 1
    BY <1>1, <2>2
  <2>4. C = {}
    BY <1>5, <1>6, <2>2, <2>3
  <2> QED BY <1>7, <2>4 DEF C
<1>8. CASE l # <<>>
  <2> DEFINE H == Held(Cut(l, Size[part]))
  <2>1. /\ H \subseteq C /\ H # {}
        /\ \/ C \subseteq H \/ Cardinality(H) >= Size[part]
           \/ /\ Len(a) = 1 /\ Cardinality(H) >= Size[part] - 1
              /\ \E i \in 2..Len(Cut(l, Size[part])) : Cut(l, Size[part])[i] = Cut(l, Size[part])[1]
        /\ Len(a) = 1 => a[1] \in H
        /\ Size[part] >= 2 /\ m # <<>> /\ Root(part) \in C => Root(part) \in H
    BY <1>3, <1>4, <1>8, CutKeeps
  <2>2. n \in C
    BY <2>1
  <2>3. ASSUME part \in {1, 2}, Size[part] >= 2 PROVE n \in H
    <3>1. CASE n = Root(part)
      <4>1. m # <<>>
        <5>1. ASSUME m = <<>> PROVE FALSE
          <6>1. Len(m) = 0 /\ Held(m) = {}
            BY <5>1, EmptySeq DEF Held
          <6>2. Size[part] - Len(a) >= 1
            <7>1. PICK z \in Int, d \in {0, 1} : z = Size[part] /\ d = Len(a)
              BY <1>1, <1>4
            <7>2. z >= 2
              BY <2>3, <7>1
            <7>3. z - d >= 1
              BY <7>2
            <7> QED BY <7>1, <7>3
          <6>3. C # {}
            BY <2>2
          <6> HIDE DEF C
          <6> QED BY <6>1, <6>2, <6>3, <1>5, <1>6
        <5> QED BY <5>1
      <4> QED BY <4>1, <3>1, <2>1, <2>2, <2>3
    <3>2. CASE n # Root(part)
      BY <3>2, <1>4, <2>1, <2>2, <2>3
    <3> QED BY <3>1, <3>2
  <2>4. Len(a) = 1 => part \in {1, 2}
    BY <1>4
  <2> QED BY <1>8, <2>1, <2>3, <2>4
<1> QED BY <1>7, <1>8

LEMMA PartShowsWhoLives ==
  ASSUME SensInv, TreeInv, SearchPart
  PROVE  SeesWhatLives'
<1>1. PICK n \in IF Candidates(part) = {} THEN {NoShip} ELSE Candidates(part) :
        /\ nearest' = n
        /\ \E l \in Search(part, n) :
             LET here == Entries(part, IF l = <<>> THEN Pad(part) ELSE Cut(l, Size[part]))
             IN /\ objects' = objects \o here /\ found' = Len(here)
                /\ index' = Restart(part) /\ last' = Start[part] + Len(here)
  BY DEF SearchPart
<1>2. PICK l \in Search(part, n) :
        LET here == Entries(part, IF l = <<>> THEN Pad(part) ELSE Cut(l, Size[part]))
        IN objects' = objects \o here /\ found' = Len(here)
  BY <1>1
<1>3. PICK who : who = IF l = <<>> THEN Pad(part) ELSE Cut(l, Size[part])
  OBVIOUS
<1>4. PICK here, held : here = Entries(part, who) /\ held = Held(who)
  OBVIOUS
<1>5. objects' = objects \o here
  BY <1>2, <1>3, <1>4
<1>6. /\ here \in Seq(Objects) /\ Len(here) \in Nat
      /\ held = {here[k].of : k \in 1..Len(here)}
      /\ Len(who) = Len(here) /\ \A k \in 1..Len(here) : here[k].of = who[k]
  <2>1. SensType
    BY DEF SensInv
  <2>2. /\ here \in Seq(Objects) /\ Len(here) \in 1..Size[part]
        /\ Len(who) = Len(here) /\ \A k \in 1..Len(here) : here[k].of = who[k]
    BY <2>1, <1>3, <1>4, Found
  <2>3. Size[part] \in Nat
    BY <2>1, PartFacts DEF SensType
  <2>4. {here[k].of : k \in 1..Len(here)} = Held(who)
    BY <2>2 DEF Held
  <2> QED BY <2>2, <2>3, <2>4, <1>4
<1>7. /\ objects \in Seq(Objects) /\ Len(objects) = Start[part] /\ Start[part] \in Nat
      /\ looking # NoShip /\ UNCHANGED <<dead, side, looking, part>>
      /\ Size[part] \in Nat \ {0}
  BY PartFacts DEF SearchPart, SensInv, SensType, LookInv
<1> DEFINE seen == {objects'[k].of : k \in Start[part] + 1 .. Len(objects')}
<1>8. PICK b \in Nat, h \in Nat : b = Start[part] /\ h = Len(here)
  BY <1>6, <1>7
<1>8a. Len(objects') = b + h /\ \A k \in 1..h : objects'[k + b] = here[k]
  <2>1. /\ Len(objects \o here) = Len(objects) + Len(here)
        /\ \A k \in 1..Len(objects) + Len(here) :
             (objects \o here)[k] = IF k <= Len(objects) THEN objects[k]
                                    ELSE here[k - Len(objects)]
    BY <1>6, <1>7, ConcatProperties
  <2>2. /\ Len(objects') = b + h
        /\ \A k \in 1..b + h : objects'[k] = IF k <= b THEN objects[k] ELSE here[k - b]
    BY <2>1, <1>5, <1>7, <1>8
  <2>3. \A k \in 1..h : k + b \in 1..b + h /\ ~(k + b <= b) /\ k + b - b = k
    BY <1>8
  <2> QED BY <2>2, <2>3
<1>8b. seen = held
  <2>1. \A k \in b + 1 .. b + h : k - b \in 1..h /\ k - b + b = k
    BY <1>8
  <2>2. \A k \in 1..h : k + b \in b + 1 .. b + h
    BY <1>8
  <2>3. {objects'[k].of : k \in b + 1 .. b + h} = {here[k].of : k \in 1..h}
    <3>1. \A k \in b + 1 .. b + h : objects'[k] = here[k - b]
      BY <2>1, <1>8a
    <3> QED BY <3>1, <2>1, <2>2, <1>8a
  <2> QED BY <2>3, <1>6, <1>8, <1>8a
<1> HIDE DEF seen
<1>9. Candidates(part) = Alive(part) /\ Alive(part)' = Alive(part)
  BY <1>7, CandidatesLive DEF Alive
<1>10. SensType
  BY DEF SensInv
<1>11. CASE l = <<>>
  <2>1. Alive(part) = {} /\ n = NoShip
    BY <1>9, <1>10, <1>11, SearchCovers
  <2>2. held = {NoShip}
    <3> DEFINE m == IF part = 2 THEN 1 ELSE Size[part]
    <3>1. held = Held([k \in 1..m |-> NoShip]) /\ m \in Nat \ {0}
      BY <1>3, <1>4, <1>7, <1>11 DEF Pad
    <3> HIDE DEF m
    <3>2. Len([k \in 1..m |-> NoShip]) = m /\ 1 \in 1..m
      BY <3>1
    <3> QED BY <3>1, <3>2 DEF Held
  <2>3. nearest' \in seen
    BY <1>1, <1>8b, <2>1, <2>2
  <2> QED BY <2>1, <2>2, <2>3, <1>7, <1>8b, <1>9 DEF SeesWhatLives, seen
<1>12. CASE l # <<>>
  <2>1. /\ held \subseteq Alive(part)
        /\ \/ Alive(part) \subseteq held \/ Cardinality(held) >= Size[part]
           \/ /\ part \in {1, 2} /\ Cardinality(held) >= Size[part] - 1
              /\ \E i \in 2..Len(who) : who[i] = who[1]
        /\ part \in {1, 2} /\ Size[part] >= 2 => n \in held
    BY <1>3, <1>4, <1>9, <1>10, <1>12, SearchCovers
  <2> DEFINE twice == \E k \in b + 2 .. b + h : objects'[k].of = objects'[b + 1].of
  <2>2. ASSUME NEW i \in 2..Len(who), who[i] = who[1] PROVE twice
    <3>1. i \in 1..h /\ 1 \in 1..h /\ i + b \in b + 2 .. b + h /\ 1 + b = b + 1
      BY <2>2, <1>6, <1>8
    <3>2. objects'[i + b] = here[i] /\ objects'[b + 1] = here[1]
      BY <3>1, <1>8a
    <3>3. here[i].of = who[i] /\ here[1].of = who[1]
      BY <3>1, <1>6, <1>8
    <3> QED BY <3>1, <3>2, <3>3, <2>2
  <2>3. \/ Alive(part) \subseteq held \/ Cardinality(held) >= Size[part]
        \/ part \in {1, 2} /\ twice /\ Cardinality(held) >= Size[part] - 1
    BY <2>1, <2>2
  <2>4. found' = h
    BY <1>2, <1>3, <1>4, <1>8
  <2>5. twice = (\E k \in (Start[part] + 1) + 1 .. Start[part] + found' :
                  objects'[k].of = objects'[Start[part] + 1].of)
    BY <2>4, <1>8
  <2> HIDE DEF twice
  <2> QED BY <2>1, <2>3, <2>5, <1>1, <1>7, <1>8b, <1>9 DEF SeesWhatLives, seen
<1> QED BY <1>11, <1>12

\* A turn of the loop that fills a part up shows nothing new.
LEMMA FillShowsTheSame ==
  ASSUME SensInv, SeesWhatLives, Fill
  PROVE  SeesWhatLives'
<1> DEFINE S == Start[part]
           n == Len(objects)
<1>1. /\ looking # NoShip /\ found # 0 /\ objects' = Append(objects, objects[index])
      /\ UNCHANGED <<dead, side, looking, part, found, nearest>>
  BY DEF Fill
<1>2. objects \in Seq(Objects) /\ part \in Parts
  BY DEF SensInv, SensType
<1>3. S \in Nat /\ n \in Nat
  BY <1>2, PartFacts, LenProperties
<1>4. index \in S + 1 .. n /\ index \in 1..n
  <2>1. index \in S + 1 .. last /\ last <= n /\ last \in Nat
    BY <1>1 DEF SensInv, FillInv, SensType
  <2> QED BY <2>1, <1>3
<1>5. objects[index] \in Objects
  BY <1>2, <1>4, ElementOfSeq
<1>6. /\ Len(objects') = n + 1 /\ objects'[n + 1] = objects[index]
      /\ \A k \in 1..n : objects'[k] = objects[k]
  BY <1>1, <1>2, <1>5, AppendProperties
<1> HIDE DEF n
<1> DEFINE seen == {objects[k].of : k \in S + 1 .. n}
           now == {objects'[k].of : k \in S + 1 .. n + 1}
           twice == \E k \in (S + 1) + 1 .. S + found : objects[k].of = objects[S + 1].of
           again == \E k \in (S + 1) + 1 .. S + found : objects'[k].of = objects'[S + 1].of
<1>7. now = seen
  <2>1. \A k \in S + 1 .. n : k \in S + 1 .. n + 1 /\ objects'[k] = objects[k]
    BY <1>3, <1>6
  <2>2. \A k \in S + 1 .. n + 1 : k \in S + 1 .. n \/ k = n + 1
    BY <1>3
  <2>3. ASSUME NEW o \in now PROVE o \in seen
    <3>1. PICK k \in S + 1 .. n + 1 : o = objects'[k].of
      OBVIOUS
    <3>2. CASE k = n + 1
      BY <3>1, <3>2, <1>4, <1>6
    <3>3. CASE k # n + 1
      BY <3>1, <3>3, <2>1, <2>2
    <3> QED BY <3>2, <3>3
  <2>4. ASSUME NEW o \in seen PROVE o \in now
    BY <2>1
  <2> QED BY <2>3, <2>4
<1> HIDE DEF seen, now, twice, again
<1>8. /\ seen \subseteq Alive(part) \/ (Alive(part) = {} /\ seen = {NoShip})
      /\ \/ Alive(part) \subseteq seen \/ Cardinality(seen) >= Size[part]
         \/ part \in {1, 2} /\ twice /\ Cardinality(seen) >= Size[part] - 1
      /\ part \in {1, 2} /\ Size[part] >= 2 => nearest \in seen
  BY <1>1 DEF SeesWhatLives, seen, twice, n
<1>8a. twice => again
  <2>1. S + found <= n /\ found \in Nat \ {0}
    BY <1>1, <1>2, <1>3 DEF SensInv, FillInv, SensType, n
  <2>2. S + 1 \in 1..n /\ \A k \in (S + 1) + 1 .. S + found : k \in 1..n
    BY <2>1, <1>3
  <2> QED BY <2>2, <1>6 DEF twice, again
<1>9. now = {objects'[k].of : k \in Start[part]' + 1 .. Len(objects')}
  BY <1>1, <1>6 DEF now
<1>10. Alive(part)' = Alive(part)
  BY <1>1 DEF Alive
<1> QED BY <1>1, <1>7, <1>8, <1>8a, <1>9, <1>10 DEF SeesWhatLives, again

LEMMA StillSeen ==
  ASSUME SeesWhatLives, UNCHANGED vars
  PROVE  SeesWhatLives'
<1>1. UNCHANGED <<looking, part, objects, found, nearest, dead, side>>
  BY DEF vars, look
<1>2. Alive(part)' = Alive(part)
  BY <1>1 DEF Alive
<1>3. {objects[k].of : k \in Start[part] + 1 .. Len(objects)}' =
        {objects[k].of : k \in Start[part] + 1 .. Len(objects)}
  BY <1>1
<1> QED BY <1>1, <1>2, <1>3 DEF SeesWhatLives

LEMMA ShowStep ==
  ASSUME ShowInv, Next
  PROVE  TreeInv' /\ SeesWhatLives'
<1> USE DEF ShowInv
<1>n. SensType /\ LookInv
  BY DEF SensInv
<1>1. TreeInv'
  <2>1. CASE Prepare
    <3>1. \A t \in Team : trees'[t] = ShipsOf(t) \ dead /\ baseTrees'[t] = BasesOf(t)
      BY <2>1 DEF Prepare
    <3>2. dead' = dead
      BY <2>1 DEF Prepare
    <3> QED BY <3>1, <3>2 DEF TreeInv, ShipsOf, BasesOf
  <2>2. CASE phase' # "look"
    BY <2>2 DEF TreeInv
  <2>3. CASE dead \subseteq dead' /\ UNCHANGED <<trees, baseTrees>> /\ phase = "look"
    BY <2>3 DEF TreeInv, ShipsOf, BasesOf
  <2>4. CASE UNCHANGED vars
    BY <2>4 DEF TreeInv, ShipsOf, BasesOf, vars
  <2>5. \/ Prepare \/ phase' # "look" \/ UNCHANGED vars
        \/ dead \subseteq dead' /\ UNCHANGED <<trees, baseTrees>> /\ phase = "look"
    BY <1>n DEF Next, EndBattle, Visit, Skip, SearchPart, Fill, NextPart, EndVisit, EndSide,
                Think, Act, Rest, LookInv, BlastsKill
  <2> QED BY <2>1, <2>2, <2>3, <2>4, <2>5
<1>2. SeesWhatLives'
  <2>1. CASE SearchPart
    BY <2>1, PartShowsWhoLives
  <2>2. CASE Fill
    BY <2>2, FillShowsTheSame
  <2>3. CASE looking' = NoShip \/ found' = 0
    BY <2>3 DEF SeesWhatLives
  <2>4. CASE Rest
    BY <2>4, StillSeen DEF Rest
  <2>5. SearchPart \/ Fill \/ looking' = NoShip \/ found' = 0 \/ Rest
    BY <1>n DEF Next, Prepare, EndBattle, Visit, Skip, NextPart, EndVisit, EndSide, Think, Act,
                LookInv, look
  <2> QED BY <2>1, <2>2, <2>3, <2>4, <2>5
<1> QED BY <1>1, <1>2

\* A scan shows what lives and nothing else: all of it or as many different ones
\* as it has entries, of ships one less if the ship found first is found again.
\* The nearest ship is among them although the search for the nearest may miss
\* it, if the part has two entries; of bases nothing is said about the nearest.
THEOREM ScansShowWhatLives == Spec => []SeesWhatLives
<1>1. Init => ShowInv
  BY SensInit DEF Init, ShowInv, TreeInv, SeesWhatLives
<1>2. ShowInv /\ [Next]_vars => ShowInv'
  <2>1. ASSUME ShowInv, Next PROVE ShowInv'
    BY <2>1, ShowStep, SensNext DEF ShowInv
  <2>2. ASSUME ShowInv, UNCHANGED vars PROVE ShowInv'
    <3>1. SensInv'
      BY <2>2, SensNext DEF ShowInv
    <3>2. TreeInv'
      BY <2>2 DEF ShowInv, vars, TreeInv, ShipsOf, BasesOf
    <3>3. SeesWhatLives'
      BY <2>2, StillSeen DEF ShowInv
    <3> QED BY <3>1, <3>2, <3>3 DEF ShowInv
  <2> QED BY <2>1, <2>2
<1>3. ShowInv => SeesWhatLives
  BY DEF ShowInv
<1> QED BY <1>1, <1>2, <1>3, PTL DEF Spec
=============================================================================
