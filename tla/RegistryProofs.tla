--------------------------- MODULE RegistryProofs ---------------------------
(***************************************************************************)
(* Theorems about the registry: the types; one entry for each function, on *)
(* two transports too, whose handlers of R_REQ overlap; and, where they do *)
(* not overlap, one number for each function and each event to its owner.  *)
(***************************************************************************)
EXTENDS Registry, FiniteSetTheorems, TLAPS

-----------------------------------------------------------------------------
(* What a boot makes of the file. *)

LEMMA KeptFinite ==
  ASSUME NEW r
  PROVE  IsFiniteSet(Kept(r)) /\ Kept(r) \subseteq 1..(MAX_DEVICE - 1)
<1>1. Kept(r) \subseteq 1..(MAX_DEVICE - 1)
  BY NumberAssumption DEF Kept, Stored, Numbers
<1>2. IsFiniteSet(1..(MAX_DEVICE - 1))
  BY NumberAssumption, FS_Interval
<1> QED BY <1>1, <1>2, FS_Subset

LEMMA KeptCount ==
  ASSUME NEW r
  PROVE  /\ Cardinality(Kept(r)) \in Nat
         /\ Locals + Cardinality(Kept(r)) <= MaxNumber
<1>1. /\ IsFiniteSet(1..(MAX_DEVICE - 1))
      /\ Cardinality(1..(MAX_DEVICE - 1)) = MAX_DEVICE - 1
  <2>1. MAX_DEVICE - 1 \in Int /\ 1 \in Int
    BY NumberAssumption
  <2> QED BY <2>1, NumberAssumption, FS_Interval
<1>2. Cardinality(Kept(r)) <= MAX_DEVICE - 1
  BY <1>1, KeptFinite, FS_Subset
<1>3. Cardinality(Kept(r)) \in Nat
  BY KeptFinite, FS_CardinalityType
<1> QED BY <1>2, <1>3, NumberAssumption

LEMMA RankRange ==
  ASSUME NEW r, NEW i \in Kept(r)
  PROVE  Cardinality({j \in Kept(r) : j <= i}) \in 1..Cardinality(Kept(r))
<1> DEFINE U == {j \in Kept(r) : j <= i}
<1>1. /\ IsFiniteSet(U) /\ Cardinality(U) <= Cardinality(Kept(r))
  BY KeptFinite, FS_Subset
<1>2. Cardinality(U) \in Nat /\ Cardinality(Kept(r)) \in Nat
  BY <1>1, KeptFinite, FS_CardinalityType
<1>3. i \in U
  BY KeptFinite
<1>4. Cardinality(U) # 0
  BY <1>1, <1>3, FS_EmptySet
<1> QED BY <1>1, <1>2, <1>4

LEMMA RankGrows ==
  ASSUME NEW r, NEW i \in Kept(r), NEW j \in Kept(r), i < j
  PROVE  Cardinality({k \in Kept(r) : k <= i}) # Cardinality({k \in Kept(r) : k <= j})
<1> DEFINE Low == {k \in Kept(r) : k <= i}
           High == {k \in Kept(r) : k <= j}
<1>1. IsFiniteSet(High)
  BY KeptFinite, FS_Subset
<1>2. Kept(r) \subseteq Int
  BY KeptFinite
<1>3. Low \in SUBSET High
  BY <1>2
<1>4. j \in High /\ j \notin Low
  BY <1>2
<1> QED BY <1>1, <1>3, <1>4, FS_Subset

\* Two stored functions get two numbers, and one stored twice gets one.
LEMMA RestoredApart ==
  ASSUME NEW r, NEW x \in Restored(r), NEW y \in Restored(r)
  PROVE  /\ x.key = y.key => x = y
         /\ x.num = y.num => x = y
<1>1. PICK i \in Kept(r) : x = [key |-> r[i], num |-> Locals + Cardinality({k \in Kept(r) : k <= i})]
  BY DEF Restored
<1>2. PICK j \in Kept(r) : y = [key |-> r[j], num |-> Locals + Cardinality({k \in Kept(r) : k <= j})]
  BY DEF Restored
<1>3. i \in Int /\ j \in Int
  BY KeptFinite
<1>4. i # j => r[i] # r[j]
  BY <1>3 DEF Kept
<1>5. i # j => Cardinality({k \in Kept(r) : k <= i}) # Cardinality({k \in Kept(r) : k <= j})
  BY <1>3, RankGrows
<1> DEFINE n == Cardinality({k \in Kept(r) : k <= i})
           m == Cardinality({k \in Kept(r) : k <= j})
<1>6. n \in Nat /\ m \in Nat
  BY RankRange, KeptCount
<1>7. i # j => n # m
  BY <1>5
<1>8. x.num = Locals + n /\ y.num = Locals + m /\ x.key = r[i] /\ y.key = r[j]
  BY <1>1, <1>2
<1>9. i = j => x = y
  BY <1>1, <1>2
<1> HIDE DEF n, m
<1>10. x.num = y.num => i = j
  BY <1>6, <1>7, <1>8, NumberAssumption
<1> QED BY <1>4, <1>8, <1>9, <1>10

LEMMA RestoredRange ==
  ASSUME NEW r \in [Numbers -> Keys \cup {NoKey}], NEW x \in Restored(r)
  PROVE  /\ x \in Nodes
         /\ x.num > Locals /\ x.num <= Locals + Cardinality(Kept(r))
<1>1. PICK i \in Kept(r) : x = [key |-> r[i], num |-> Locals + Cardinality({k \in Kept(r) : k <= i})]
  BY DEF Restored
<1> DEFINE n == Cardinality({k \in Kept(r) : k <= i})
           m == Cardinality(Kept(r))
<1>2. n \in 1..m /\ m \in Nat /\ Locals + m <= MaxNumber
  BY RankRange, KeptCount
<1>3. r[i] \in Keys
  BY DEF Kept, Stored
<1>4. x = [key |-> r[i], num |-> Locals + n]
  BY <1>1
<1> HIDE DEF n, m
<1>5. Locals + n \in Numbers /\ Locals + n > Locals /\ Locals + n <= Locals + m
  BY <1>2, NumberAssumption DEF Numbers
<1>6. x.num > Locals /\ x.num <= Locals + m
  BY <1>4, <1>5
<1> QED BY <1>3, <1>4, <1>5, <1>6 DEF Nodes, m

-----------------------------------------------------------------------------
LEMMA BootType ==
  ASSUME TypeOK, NEW r \in [Numbers -> Keys \cup {NoKey}], NEW e \in BOOLEAN, Boot(r, e)
  PROVE  TypeOK'
<1>1. Restored(r) \subseteq Nodes
  BY RestoredRange
<1>2. list' \subseteq Nodes
  BY <1>1 DEF Boot
<1>3. counter' \in 0..MaxNumber
  BY KeptCount, NumberAssumption DEF Boot
<1>4. rec' \in [Numbers -> Keys \cup {NoKey}] /\ emptied' \in BOOLEAN
  BY DEF Boot
<1>5. pc' \in [Lines -> Places] /\ cur' \in [Lines -> Keys \cup {NoKey}]
  BY DEF Boot, Places
<1>6. num' \in [Lines -> 0..MaxNumber] /\ seen' \in [Lines -> SUBSET Nodes]
  BY NumberAssumption DEF Boot
<1>7. left' \in [Tasks -> SUBSET Boards]
  BY DEF Boot
<1>8. UNCHANGED <<pending, told, line, calm>>
  BY DEF Boot
<1> QED BY <1>2, <1>3, <1>4, <1>5, <1>6, <1>7, <1>8 DEF TypeOK

LEMMA ErasedType == TypeOK => Erased \in [Numbers -> Keys \cup {NoKey}]
  BY DEF TypeOK, Erased

\* A handler that has a function and a number for it.
InWork == \A l \in Lines :
    /\ pc[l] # "idle" => cur[l] \in Keys /\ line[BoardOf[cur[l]]] = l
    /\ pc[l] \in {"link", "publish", "store", "ack"} => num[l] \in Numbers

LEMMA NextType == TypeOK /\ InWork /\ [Next]_vars => TypeOK' /\ InWork'
<1> SUFFICES ASSUME TypeOK, InWork, [Next]_vars PROVE TypeOK' /\ InWork'
  OBVIOUS
<1> USE NumberAssumption
<1>1. ASSUME NEW l \in Lines, NEW k \in Keys, Find(l, k)
      PROVE  TypeOK' /\ InWork'
  <2>1. num' \in [Lines -> 0..MaxNumber] /\ pc' \in [Lines -> Places]
    <3>1. CASE Keyed(k) = {} /\ pc' = [pc EXCEPT ![l] = "read"] /\ UNCHANGED num
      BY <3>1 DEF TypeOK, Places
    <3>2. ASSUME NEW x \in Keyed(k), num' = [num EXCEPT ![l] = x.num], pc' = [pc EXCEPT ![l] = "store"]
          PROVE  num' \in [Lines -> 0..MaxNumber] /\ pc' \in [Lines -> Places]
      <4>1. x.num \in 0..MaxNumber
        BY <3>2 DEF TypeOK, Keyed, Nodes, Numbers
      <4> QED BY <3>2, <4>1 DEF TypeOK, Places
    <3> QED BY <1>1, <3>1, <3>2 DEF Find
  <2>2. cur' \in [Lines -> Keys \cup {NoKey}]
    BY <1>1 DEF TypeOK, Find
  <2>3. UNCHANGED <<list, counter, rec, emptied, seen, left, pending, told, line, calm>>
    BY <1>1 DEF Find
  <2>4. TypeOK'
    BY <2>1, <2>2, <2>3 DEF TypeOK
  <2>5. ASSUME NEW m \in Lines, m # l
        PROVE  UNCHANGED <<pc[m], cur[m], num[m]>>
    BY <1>1, <2>5 DEF TypeOK, Find
  <2>6. cur'[l] = k /\ l = line[BoardOf[k]] /\ pc'[l] \in {"read", "store"}
    BY <1>1 DEF TypeOK, Find
  <2>7. pc'[l] = "store" => num'[l] \in Numbers
    BY <1>1 DEF TypeOK, Find, Keyed, Nodes
  <2> QED BY <2>3, <2>4, <2>5, <2>6, <2>7 DEF InWork
<1>2. ASSUME NEW l \in Lines, ReadCounter(l) \/ Count(l) \/ Link(l) \/ Publish(l) \/ Store(l)
      PROVE  TypeOK' /\ InWork'
  <2>1. pc' \in [Lines -> Places] /\ cur' = cur
    BY <1>2 DEF TypeOK, ReadCounter, Count, Link, Publish, Store, Places
  <2>2. num' \in [Lines -> 0..MaxNumber] /\ counter' \in 0..MaxNumber
    BY <1>2 DEF TypeOK, ReadCounter, Count, Link, Publish, Store
  <2>3. list' \subseteq Nodes /\ seen' \in [Lines -> SUBSET Nodes]
    BY <1>2 DEF TypeOK, InWork, ReadCounter, Count, Link, Publish, Store, Nodes
  <2>4. rec' \in [Numbers -> Keys \cup {NoKey}]
    BY <1>2 DEF TypeOK, ReadCounter, Count, Link, Publish, Store
  <2>5. UNCHANGED <<emptied, left, pending, told, line, calm>>
    BY <1>2 DEF ReadCounter, Count, Link, Publish, Store
  <2>6. TypeOK'
    BY <2>1, <2>2, <2>3, <2>4, <2>5 DEF TypeOK
  <2>7. ASSUME NEW m \in Lines, m # l
        PROVE  UNCHANGED <<pc[m], num[m]>>
    BY <1>2, <2>7 DEF TypeOK, ReadCounter, Count, Link, Publish, Store
  <2>8. pc[l] # "idle"
    BY <1>2 DEF ReadCounter, Count, Link, Publish, Store
  <2>9. pc'[l] \in {"link", "publish", "store", "ack"} => num'[l] \in Numbers
    BY <1>2 DEF TypeOK, InWork, ReadCounter, Count, Link, Publish, Store, Numbers
  <2> QED BY <2>1, <2>5, <2>6, <2>7, <2>8, <2>9 DEF InWork
<1>3. ASSUME NEW l \in Lines, Ack(l)
      PROVE  TypeOK' /\ InWork'
  <2>1. pc' \in [Lines -> Places] /\ cur' \in [Lines -> Keys \cup {NoKey}]
        /\ num' \in [Lines -> 0..MaxNumber]
    BY <1>3 DEF TypeOK, Ack, Places
  <2>2. told' \in [Keys -> 0..MaxNumber] /\ pending' \subseteq Keys
    BY <1>3 DEF TypeOK, Ack
  <2>3. UNCHANGED <<list, counter, rec, emptied, seen, left, line, calm>>
    BY <1>3 DEF Ack
  <2>4. TypeOK'
    BY <2>1, <2>2, <2>3 DEF TypeOK
  <2>5. ASSUME NEW m \in Lines, m # l
        PROVE  UNCHANGED <<pc[m], cur[m], num[m]>>
    BY <1>3, <2>5 DEF TypeOK, Ack
  <2>6. pc'[l] = "idle"
    BY <1>3 DEF TypeOK, Ack
  <2> QED BY <2>3, <2>4, <2>5, <2>6 DEF InWork
<1>4. ASSUME NEW t \in Tasks, RegisterAll(t)
      PROVE  TypeOK' /\ InWork'
  <2>1. rec' \in [Numbers -> Keys \cup {NoKey}] /\ left' \in [Tasks -> SUBSET Boards]
    BY <1>4, ErasedType DEF TypeOK, RegisterAll
  <2>2. UNCHANGED <<list, counter, emptied, pc, cur, num, seen, pending, told, line, calm>>
    BY <1>4 DEF RegisterAll
  <2> QED BY <2>1, <2>2 DEF TypeOK, InWork
<1>5. ASSUME NEW t \in Tasks, NEW b \in Boards, Ask(t, b)
      PROVE  TypeOK' /\ InWork'
  <2>1. left' \in [Tasks -> SUBSET Boards] /\ pending' \subseteq Keys
    BY <1>5 DEF TypeOK, Ask
  <2>2. UNCHANGED <<list, counter, rec, emptied, pc, cur, num, seen, told, line, calm>>
    BY <1>5 DEF Ask
  <2> QED BY <2>1, <2>2 DEF TypeOK, InWork
<1>6. ASSUME NEW r \in [Numbers -> Keys \cup {NoKey}], NEW e \in BOOLEAN, Boot(r, e)
      PROVE  TypeOK' /\ InWork'
  <2>1. TypeOK'
    BY <1>6, BootType
  <2>2. \A l \in Lines : pc'[l] = "idle"
    BY <1>6 DEF Boot
  <2> QED BY <2>1, <2>2 DEF InWork
<1>7. CASE Restart
  <2>1. rec \in [Numbers -> Keys \cup {NoKey}]
    BY DEF TypeOK
  <2>2. PICK byButton \in BOOLEAN : Boot(rec, emptied /\ ~byButton)
    BY <1>7 DEF Restart
  <2> QED BY <1>6, <2>1, <2>2
<1>8. CASE Refresh
  <2>1. CASE emptied
    <3>1. emptied' \in BOOLEAN
      BY <1>8, <2>1 DEF Refresh
    <3>2. UNCHANGED <<list, counter, rec, pc, cur, num, seen, left, pending, told, line, calm>>
      BY <1>8, <2>1 DEF Refresh
    <3> QED BY <3>1, <3>2 DEF TypeOK, InWork
  <2>2. CASE ~emptied
    BY <1>6, <1>8, <2>2, ErasedType DEF Refresh
  <2> QED BY <2>1, <2>2
<1>9. CASE UNCHANGED vars
  BY <1>9 DEF TypeOK, InWork, vars
<1> QED BY <1>1, <1>2, <1>3, <1>4, <1>5, <1>7, <1>8, <1>9 DEF Next, Handle

LEMMA InitType == Init => TypeOK /\ InWork
<1> SUFFICES ASSUME Init PROVE TypeOK /\ InWork
  OBVIOUS
<1>1. list \subseteq Nodes /\ counter \in 0..MaxNumber /\ emptied \in BOOLEAN
  <2>1. list = {} /\ counter = Locals /\ emptied = FALSE
    BY DEF Init
  <2>2. Locals \in 0..MaxNumber
    <3>1. MAX_DEVICE >= 1 /\ MAX_DEVICE \in Int
      BY NumberAssumption
    <3> QED BY <3>1, NumberAssumption
  <2> QED BY <2>1, <2>2
<1>2. rec \in [Numbers -> Keys \cup {NoKey}]
  BY DEF Init
<1>3. pc \in [Lines -> Places] /\ cur \in [Lines -> Keys \cup {NoKey}]
  BY DEF Init, Places
<1>4. num \in [Lines -> 0..MaxNumber] /\ seen \in [Lines -> SUBSET Nodes]
  BY NumberAssumption DEF Init
<1>5. left \in [Tasks -> SUBSET Boards] /\ pending \subseteq Keys
  <2>1. left = [t \in Tasks |-> {}] /\ pending = {}
    BY DEF Init
  <2> QED BY <2>1
<1>8. told \in [Keys -> 0..MaxNumber]
  <2>1. told = [k \in Keys |-> 0] /\ 0 \in 0..MaxNumber
    BY NumberAssumption DEF Init
  <2> QED BY <2>1
<1>6. line \in [Boards -> Lines] /\ calm \in BOOLEAN
  BY DEF Init
<1>7. InWork
  BY DEF Init, InWork
<1> QED BY <1>1, <1>2, <1>3, <1>4, <1>5, <1>6, <1>7, <1>8 DEF TypeOK

\* The values of the registry keep their ranges, for any boards, functions,
\* transports and tasks.
THEOREM TypeCorrect == Spec => []TypeOK
<1>1. Spec => [](TypeOK /\ InWork)
  BY InitType, NextType, PTL DEF Spec
<1> QED BY <1>1, PTL

-----------------------------------------------------------------------------
(* One transport.  The handlers do not overlap, so what the handler at work *)
(* has read is still so when it uses it.                                    *)

Apart == \A x, y \in list : /\ x.key = y.key => x = y
                            /\ x.num = y.num => x = y

Counted == \A x \in list : x.num > Locals /\ x.num <= counter

\* what the handler l knows when it stands between two of its steps
Fresh(l) == /\ pc[l] \in {"read", "count", "link", "publish"} => \A x \in list : x.key # cur[l]
            /\ pc[l] = "count" => num[l] = counter
            /\ pc[l] \in {"link", "publish"} => /\ num[l] = counter /\ num[l] > Locals
                                               /\ \A x \in list : x.num < num[l]
            /\ pc[l] = "publish" => seen[l] = list

SerialInv == Serial => /\ counter \in Nat /\ counter >= Locals
                       /\ Apart /\ Counted
                       /\ \A l \in Lines : Fresh(l)

\* With one transport only one handler can be at work.
LEMMA OneAtWork ==
  ASSUME TypeOK, InWork, Serial, NEW l \in Lines, NEW m \in Lines, pc[l] # "idle", pc[m] # "idle"
  PROVE  l = m
  BY BoardAssumption DEF InWork, Serial

\* A step of a handler that leaves the others alone.
LEMMA OthersIdle ==
  ASSUME TypeOK, InWork, Serial, NEW l \in Lines, pc[l] # "idle",
         \A m \in Lines : m # l => pc'[m] = pc[m]
  PROVE  \A m \in Lines : m # l => Fresh(m)'
  BY OneAtWork DEF Fresh

LEMMA BootSerial ==
  ASSUME TypeOK, NEW r \in [Numbers -> Keys \cup {NoKey}], NEW e, Boot(r, e)
  PROVE  SerialInv'
<1> USE NumberAssumption
<1>1. \A l \in Lines : Fresh(l)'
  BY DEF Boot, Fresh
<1>2. CASE e
  <2>1. list' = {} /\ counter' = Locals
    BY <1>2 DEF Boot
  <2> QED BY <1>1, <2>1 DEF SerialInv, Apart, Counted
<1>3. CASE ~e
  <2>1. list' = Restored(r) /\ counter' = Locals + Cardinality(Kept(r))
    BY <1>3 DEF Boot
  <2>2. counter' \in Nat /\ counter' >= Locals
    BY <2>1, KeptCount
  <2>3. Apart'
    BY <2>1, RestoredApart DEF Apart
  <2>4. Counted'
    BY <2>1, RestoredRange DEF Counted
  <2> QED BY <1>1, <2>2, <2>3, <2>4 DEF SerialInv
<1> QED BY <1>2, <1>3

LEMMA NextSerial == TypeOK /\ InWork /\ SerialInv /\ [Next]_vars => SerialInv'
<1> SUFFICES ASSUME TypeOK, InWork, SerialInv, [Next]_vars PROVE SerialInv'
  OBVIOUS
<1> USE NumberAssumption
<1>1. ASSUME NEW l \in Lines, NEW k \in Keys, Find(l, k)
      PROVE  SerialInv'
  <2>1. UNCHANGED <<list, counter, seen, line>>
    BY <1>1 DEF Find
  <2>2. ASSUME NEW m \in Lines, m # l
        PROVE  UNCHANGED <<pc[m], cur[m], num[m]>>
    BY <1>1, <2>2 DEF TypeOK, Find
  <2>3. cur'[l] = k /\ (pc'[l] = "store" \/ (pc'[l] = "read" /\ Keyed(k) = {}))
    BY <1>1 DEF TypeOK, Find
  <2>4. Serial => Fresh(l)'
    BY <2>1, <2>3 DEF Fresh, Keyed
  <2>5. \A m \in Lines : m # l /\ Fresh(m) => Fresh(m)'
    BY <2>1, <2>2 DEF Fresh
  <2> QED BY <2>1, <2>4, <2>5 DEF SerialInv, Serial, Apart, Counted
<1>2. ASSUME NEW l \in Lines, ReadCounter(l) \/ Count(l) \/ Link(l), Serial, Serial'
      PROVE  SerialInv'
  <2>1. UNCHANGED <<list, cur>>
    BY <1>2 DEF ReadCounter, Count, Link
  <2>2. pc[l] # "idle" /\ \A m \in Lines : m # l => pc'[m] = pc[m]
    BY <1>2 DEF TypeOK, ReadCounter, Count, Link
  <2>3. \A m \in Lines : m # l => Fresh(m)'
    BY <1>2, <2>2, OthersIdle
  <2>4. CASE ReadCounter(l)
    <3>1. pc[l] = "read" /\ pc'[l] = "count" /\ num'[l] = counter /\ counter' = counter
      BY <2>4 DEF TypeOK, ReadCounter
    <3> QED BY <1>2, <2>1, <2>3, <3>1 DEF SerialInv, Fresh, Apart, Counted
  <2>5. CASE Count(l)
    <3>1. pc[l] = "count" /\ pc'[l] = "link" /\ counter' = num[l] + 1 /\ num'[l] = num[l] + 1
      BY <2>5 DEF TypeOK, Count
    <3>2. num[l] = counter /\ counter \in Nat
      BY <1>2, <3>1 DEF SerialInv, Fresh
    <3>3. \A x \in list : x.num \in Nat /\ x.num <= counter
      BY <1>2 DEF TypeOK, Nodes, Numbers, SerialInv, Counted
    <3>4. Fresh(l)'
      BY <1>2, <2>1, <3>1, <3>2, <3>3 DEF SerialInv, Fresh
    <3>5. Counted'
      BY <1>2, <2>1, <3>1, <3>2, <3>3 DEF SerialInv, Counted
    <3>6. counter' \in Nat /\ counter' >= Locals
      BY <1>2, <3>1, <3>2 DEF SerialInv
    <3> QED BY <1>2, <2>1, <2>3, <3>4, <3>5, <3>6 DEF SerialInv, Apart
  <2>6. CASE Link(l)
    <3>1. pc[l] = "link" /\ pc'[l] = "publish" /\ seen'[l] = list /\ UNCHANGED <<num, counter>>
      BY <2>6 DEF TypeOK, Link
    <3> QED BY <1>2, <2>1, <2>3, <3>1 DEF SerialInv, Fresh, Apart, Counted
  <2> QED BY <1>2, <2>4, <2>5, <2>6
<1>3. ASSUME NEW l \in Lines, Publish(l), Serial
      PROVE  SerialInv'
  <2> DEFINE x0 == [key |-> cur[l], num |-> num[l]]
  <2>1. /\ pc[l] = "publish" /\ pc'[l] = "store" /\ list' = seen[l] \cup {x0}
        /\ UNCHANGED <<counter, cur, num>>
    BY <1>3 DEF TypeOK, Publish
  <2>2. /\ list' = list \cup {x0} /\ num[l] = counter /\ counter \in Nat /\ counter >= Locals
        /\ \A x \in list : x.key # cur[l] /\ x.num < num[l]
        /\ Apart /\ Counted
    BY <1>3, <2>1 DEF SerialInv, Fresh
  <2>3. \A m \in Lines : m # l => Fresh(m)'
    <3>1. \A m \in Lines : m # l => pc'[m] = pc[m]
      BY <1>3 DEF TypeOK, Publish
    <3> QED BY <1>3, <2>1, <3>1, OthersIdle
  <2>4. Fresh(l)'
    BY <2>1 DEF Fresh
  <2>5. \A x \in list : x.num \in Nat
    BY DEF TypeOK, Nodes, Numbers
  <2>6. \A x \in list : x.key # x0.key /\ x.num # x0.num
    BY <2>2, <2>5
  <2>7. Apart'
    BY <2>2, <2>6 DEF Apart
  <2>8. counter > Locals
    BY <1>3, <2>1, <2>2 DEF SerialInv, Fresh
  <2>9. Counted'
    BY <2>1, <2>2, <2>8 DEF Counted
  <2> QED BY <2>1, <2>2, <2>3, <2>4, <2>7, <2>9 DEF SerialInv
<1>4. ASSUME NEW l \in Lines, Store(l) \/ Ack(l)
      PROVE  SerialInv'
  <2>1. UNCHANGED <<list, counter, seen, line>>
    BY <1>4 DEF Store, Ack
  <2>2. ASSUME NEW m \in Lines, m # l
        PROVE  UNCHANGED <<pc[m], cur[m], num[m]>>
    BY <1>4, <2>2 DEF TypeOK, Store, Ack
  <2>3. pc'[l] \in {"ack", "idle"}
    BY <1>4 DEF TypeOK, Store, Ack
  <2>4. Fresh(l)'
    BY <2>3 DEF Fresh
  <2>5. \A m \in Lines : m # l /\ Fresh(m) => Fresh(m)'
    BY <2>1, <2>2 DEF Fresh
  <2> QED BY <2>1, <2>4, <2>5 DEF SerialInv, Serial, Apart, Counted
<1>5. CASE (\E t \in Tasks : RegisterAll(t) \/ \E b \in Boards : Ask(t, b)) \/ UNCHANGED vars
  <2>1. UNCHANGED <<list, counter, pc, cur, num, seen, line>>
    BY <1>5 DEF RegisterAll, Ask, vars
  <2> QED BY <2>1 DEF SerialInv, Serial, Apart, Counted, Fresh
<1>6. CASE Restart
  <2>1. rec \in [Numbers -> Keys \cup {NoKey}]
    BY DEF TypeOK
  <2> QED BY <1>6, <2>1, BootSerial DEF Restart
<1>7. CASE Refresh
  <2>1. CASE emptied
    <3>1. UNCHANGED <<list, counter, pc, cur, num, seen, line>>
      BY <1>7, <2>1 DEF Refresh
    <3> QED BY <3>1 DEF SerialInv, Serial, Apart, Counted, Fresh
  <2>2. CASE ~emptied
    BY <1>7, <2>2, ErasedType, BootSerial DEF Refresh
  <2> QED BY <2>1, <2>2
<1>8. ASSUME NEW l \in Lines, ReadCounter(l) \/ Count(l) \/ Link(l) \/ Publish(l)
      PROVE  SerialInv'
  <2>1. line' = line
    BY <1>8 DEF ReadCounter, Count, Link, Publish
  <2>2. CASE Serial
    BY <1>2, <1>3, <1>8, <2>1, <2>2 DEF Serial
  <2>3. CASE ~Serial
    BY <2>1, <2>3 DEF SerialInv, Serial
  <2> QED BY <2>2, <2>3
<1> QED BY <1>1, <1>4, <1>5, <1>6, <1>7, <1>8 DEF Next, Handle

LEMMA InitSerial == Init => SerialInv
  BY NumberAssumption DEF Init, SerialInv, Apart, Counted, Fresh

LEMMA SerialHolds == Spec => []SerialInv
<1>1. Spec => [](TypeOK /\ InWork /\ SerialInv)
  <2>1. Init => TypeOK /\ InWork /\ SerialInv
    BY InitType, InitSerial
  <2>2. (TypeOK /\ InWork /\ SerialInv) /\ [Next]_vars => (TypeOK /\ InWork /\ SerialInv)'
    BY NextType, NextSerial
  <2> QED BY <2>1, <2>2, PTL DEF Spec
<1> QED BY <1>1, PTL

\* With one transport two functions never share a number, and none has that
\* of a local function: across every restart, with or without the file.
THEOREM NumbersDistinct == Spec => []DistinctNumbers
<1>1. SerialInv => DistinctNumbers
  BY DEF SerialInv, Apart, Counted, DistinctNumbers
<1> QED BY <1>1, SerialHolds, PTL

-----------------------------------------------------------------------------
(* Two transports.  Their handlers overlap, and what one publishes is the  *)
(* list it has read, so that a function the other listed meanwhile is lost. *)
(* Lost functions come back when the other publishes, but never while a    *)
(* handler is making a new entry for them: the only list a function may    *)
(* come back from is held by the handler of its own transport.             *)

TwoTransports == \A b, c, d \in Boards :
                    line[b] = line[c] \/ line[c] = line[d] \/ line[b] = line[d]

\* the entries of a list for functions of boards on transport l
Of(S, l) == {x \in S : line[BoardOf[x.key]] = l}

Once(S) == \A x, y \in S : x.key = y.key => x = y
Unlisted(S, k) == \A x \in S : x.key # k

\* Handler l makes an entry for a function there is none of.
NewTo(l) == /\ pc[l] \in {"read", "count", "link", "publish"} => Unlisted(list, cur[l])
            /\ pc[l] = "publish" => Once(seen[l]) /\ Unlisted(seen[l], cur[l])

\* Of the functions of its own transport handler l has read all there are in the list
\* or in what another handler has read; of those of other transports, none that the
\* list has lost.
ReadAll(l) == pc[l] = "publish" =>
    /\ Of(list, l) \subseteq seen[l]
    /\ \A m \in Lines \ {l} : /\ Of(seen[l], m) \subseteq list
                              /\ pc[m] = "publish" => Of(seen[l], m) \subseteq seen[m]

PairInv == TwoTransports => /\ Once(list)
                            /\ \A l \in Lines : NewTo(l) /\ ReadAll(l)

\* Where two handlers are at work there is no function of a third transport.
LEMMA NoThird ==
  ASSUME TypeOK, InWork, TwoTransports, NEW l \in Lines, NEW m \in Lines, NEW n \in Lines,
         l # m, pc[l] # "idle", pc[m] # "idle", n # l, n # m,
         NEW S \in SUBSET Nodes
  PROVE  Of(S, n) = {}
<1> SUFFICES ASSUME NEW x \in S, line[BoardOf[x.key]] = n PROVE FALSE
  BY DEF Of
<1>1. x.key \in Keys /\ cur[l] \in Keys /\ cur[m] \in Keys
  BY DEF Nodes, InWork
<1>2. BoardOf[x.key] \in Boards /\ BoardOf[cur[l]] \in Boards /\ BoardOf[cur[m]] \in Boards
  BY <1>1, BoardAssumption
<1>3. line[BoardOf[cur[l]]] = l /\ line[BoardOf[cur[m]]] = m
  BY DEF InWork
<1> QED BY <1>2, <1>3 DEF TwoTransports

\* A step that leaves the lists alone, and whose handler does not come to publish.
LEMMA SameLists ==
  ASSUME PairInv, UNCHANGED <<list, seen, line>>,
         \A l \in Lines : \/ UNCHANGED <<pc[l], cur[l]>>
                          \/ pc'[l] \in {"idle", "store", "ack"}
                          \/ pc'[l] \in {"read", "count", "link"} /\ Unlisted(list, cur'[l])
  PROVE  PairInv'
<1> SUFFICES ASSUME TwoTransports' PROVE Once(list)' /\ \A l \in Lines : NewTo(l)' /\ ReadAll(l)'
  BY DEF PairInv
<1>1. Once(list) /\ \A l \in Lines : NewTo(l) /\ ReadAll(l)
  BY DEF PairInv, TwoTransports
<1>2. Once(list)'
  BY <1>1 DEF Once
<1>3. ASSUME NEW l \in Lines PROVE NewTo(l)'
  BY <1>1 DEF NewTo, Once, Unlisted
<1>4. ASSUME NEW l \in Lines, pc'[l] = "publish" PROVE pc[l] = "publish"
  BY <1>4
<1>5. ASSUME NEW l \in Lines PROVE ReadAll(l)'
  BY <1>1, <1>4 DEF ReadAll, Of
<1> QED BY <1>2, <1>3, <1>5

LEMMA LinkPair ==
  ASSUME TypeOK, InWork, PairInv, NEW l \in Lines, Link(l)
  PROVE  PairInv'
<1> SUFFICES ASSUME TwoTransports' PROVE Once(list)' /\ \A m \in Lines : NewTo(m)' /\ ReadAll(m)'
  BY DEF PairInv
<1>1. /\ pc[l] = "link" /\ pc'[l] = "publish" /\ seen'[l] = list
      /\ UNCHANGED <<list, cur, line>>
      /\ \A m \in Lines \ {l} : pc'[m] = pc[m] /\ seen'[m] = seen[m]
  BY DEF TypeOK, Link
<1>2. Once(list) /\ \A m \in Lines : NewTo(m) /\ ReadAll(m)
  BY <1>1 DEF PairInv, TwoTransports
<1>3. Once(list)'
  BY <1>1, <1>2 DEF Once
<1>4. NewTo(l)'
  BY <1>1, <1>2 DEF NewTo, Once, Unlisted
<1>5. ASSUME NEW m \in Lines \ {l} PROVE NewTo(m)'
  BY <1>1, <1>2 DEF NewTo, Once, Unlisted
<1>6. ReadAll(l)'
  <2>1. Of(list, l)' \subseteq seen'[l]
    BY <1>1 DEF Of
  <2>2. ASSUME NEW m \in Lines \ {l} PROVE Of(seen[l], m)' \subseteq list'
    BY <1>1 DEF Of
  <2>3. ASSUME NEW m \in Lines \ {l}, pc'[m] = "publish" PROVE Of(seen[l], m)' \subseteq seen'[m]
    <3>1. pc[m] = "publish" /\ seen'[m] = seen[m]
      BY <1>1, <2>3
    <3>2. Of(list, m) \subseteq seen[m]
      BY <1>2, <3>1 DEF ReadAll
    <3> QED BY <1>1, <3>1, <3>2 DEF Of
  <2> QED BY <2>1, <2>2, <2>3 DEF ReadAll
<1>7. ASSUME NEW m \in Lines \ {l}, pc'[m] = "publish" PROVE ReadAll(m)'
  <2>1. /\ pc[m] = "publish" /\ seen'[m] = seen[m]
        /\ Of(list, m) \subseteq seen[m]
        /\ \A n \in Lines \ {m} : /\ Of(seen[m], n) \subseteq list
                                  /\ pc[n] = "publish" => Of(seen[m], n) \subseteq seen[n]
    BY <1>1, <1>2, <1>7 DEF ReadAll
  <2>2. Of(list, m)' \subseteq seen'[m]
    BY <1>1, <2>1 DEF Of
  <2>3. ASSUME NEW n \in Lines \ {m} PROVE Of(seen[m], n)' \subseteq list'
    BY <1>1, <2>1 DEF Of
  <2>4. ASSUME NEW n \in Lines \ {m}, pc'[n] = "publish" PROVE Of(seen[m], n)' \subseteq seen'[n]
    <3>1. CASE n = l
      BY <1>1, <2>1, <3>1 DEF Of
    <3>2. CASE n # l
      BY <1>1, <2>1, <2>4, <3>2 DEF Of
    <3> QED BY <3>1, <3>2
  <2> QED BY <2>2, <2>3, <2>4 DEF ReadAll
<1> QED BY <1>3, <1>4, <1>5, <1>6, <1>7 DEF ReadAll

LEMMA PublishPair ==
  ASSUME TypeOK, InWork, PairInv, NEW l \in Lines, Publish(l)
  PROVE  PairInv'
<1> SUFFICES ASSUME TwoTransports' PROVE Once(list)' /\ \A m \in Lines : NewTo(m)' /\ ReadAll(m)'
  BY DEF PairInv
<1> DEFINE new == [key |-> cur[l], num |-> num[l]]
<1>1. /\ pc[l] = "publish" /\ pc'[l] = "store" /\ list' = seen[l] \cup {new}
      /\ UNCHANGED <<cur, line>>
      /\ \A m \in Lines \ {l} : pc'[m] = pc[m] /\ seen'[m] = seen[m]
  BY DEF TypeOK, Publish
<1>2. new.key = cur[l] /\ line[BoardOf[new.key]] = l
  BY <1>1 DEF InWork
<1>3. TwoTransports /\ \A m \in Lines : NewTo(m) /\ ReadAll(m)
  BY <1>1 DEF PairInv, TwoTransports
<1> HIDE DEF new
<1>4. /\ Once(seen[l]) /\ Unlisted(seen[l], cur[l])
      /\ Of(list, l) \subseteq seen[l]
      /\ \A m \in Lines \ {l} : /\ Of(seen[l], m) \subseteq list
                                /\ pc[m] = "publish" => Of(seen[l], m) \subseteq seen[m]
  BY <1>1, <1>3 DEF NewTo, ReadAll
<1>5. Once(list)'
  BY <1>1, <1>2, <1>4 DEF Once, Unlisted
<1>6. NewTo(l)' /\ ReadAll(l)'
  BY <1>1 DEF NewTo, ReadAll
<1>7. ASSUME NEW m \in Lines \ {l} PROVE NewTo(m)'
  <2>1. ASSUME pc[m] \in {"read", "count", "link", "publish"}, NEW x \in list' PROVE x.key # cur[m]
    <3>1. line[BoardOf[cur[m]]] = m
      BY <2>1 DEF InWork
    <3>2. CASE x = new
      BY <1>2, <3>1, <3>2
    <3>3. CASE x \in seen[l]
      <4>1. x.key = cur[m] => x \in Of(seen[l], m)
        BY <3>1, <3>3 DEF Of
      <4>2. x.key = cur[m] => x \in list
        BY <1>4, <4>1
      <4>3. Unlisted(list, cur[m])
        BY <1>3, <2>1 DEF NewTo
      <4> QED BY <4>2, <4>3 DEF Unlisted
    <3> QED BY <1>1, <3>2, <3>3
  <2> QED BY <1>1, <1>3, <2>1 DEF NewTo, Once, Unlisted
<1>8. ASSUME NEW m \in Lines \ {l}, pc'[m] = "publish" PROVE ReadAll(m)'
  <2>1. /\ pc[m] = "publish" /\ seen'[m] = seen[m]
        /\ \A n \in Lines \ {m} : /\ Of(seen[m], n) \subseteq list
                                  /\ pc[n] = "publish" => Of(seen[m], n) \subseteq seen[n]
    BY <1>1, <1>3, <1>8 DEF ReadAll
  <2>2. Of(list, m)' \subseteq seen'[m]
    <3>1. Of(seen[l], m) \subseteq seen[m]
      BY <1>4, <2>1
    <3> QED BY <1>1, <1>2, <2>1, <3>1 DEF Of
  <2>3. ASSUME NEW n \in Lines \ {m} PROVE Of(seen[m], n)' \subseteq list'
    <3>1. CASE n = l
      <4>1. Of(seen[m], l) \subseteq seen[l]
        BY <1>1, <2>1, <3>1
      <4> QED BY <1>1, <2>1, <3>1, <4>1 DEF Of
    <3>2. CASE n # l
      <4>1. seen[m] \in SUBSET Nodes
        BY DEF TypeOK
      <4>2. Of(seen[m], n) = {}
        BY <1>1, <1>3, <2>1, <3>2, <4>1, NoThird
      <4> QED BY <1>1, <2>1, <4>2 DEF Of
    <3> QED BY <3>1, <3>2
  <2>4. ASSUME NEW n \in Lines \ {m}, pc'[n] = "publish" PROVE Of(seen[m], n)' \subseteq seen'[n]
    <3>1. n # l /\ pc[n] = "publish" /\ seen'[n] = seen[n]
      BY <1>1, <2>4
    <3> QED BY <1>1, <2>1, <3>1 DEF Of
  <2> QED BY <2>2, <2>3, <2>4 DEF ReadAll
<1> QED BY <1>5, <1>6, <1>7, <1>8 DEF ReadAll

LEMMA BootPair ==
  ASSUME NEW r, NEW e, Boot(r, e)
  PROVE  PairInv'
<1>1. \A l \in Lines : NewTo(l)' /\ ReadAll(l)'
  BY DEF Boot, NewTo, ReadAll
<1>2. Once(list)'
  BY RestoredApart DEF Boot, Once
<1> QED BY <1>1, <1>2 DEF PairInv

LEMMA NextPair == TypeOK /\ InWork /\ PairInv /\ [Next]_vars => PairInv'
<1> SUFFICES ASSUME TypeOK, InWork, PairInv, [Next]_vars PROVE PairInv'
  OBVIOUS
<1>1. ASSUME NEW l \in Lines, NEW k \in Keys, Find(l, k) PROVE PairInv'
  <2>1. UNCHANGED <<list, seen, line>>
    BY <1>1 DEF Find
  <2>2. \A m \in Lines \ {l} : UNCHANGED <<pc[m], cur[m]>>
    BY <1>1 DEF TypeOK, Find
  <2>3. cur'[l] = k /\ (pc'[l] = "store" \/ (pc'[l] = "read" /\ Keyed(k) = {}))
    BY <1>1 DEF TypeOK, Find
  <2>4. Keyed(k) = {} => Unlisted(list, k)
    BY DEF Keyed, Unlisted
  <2> QED BY <2>1, <2>2, <2>3, <2>4, SameLists
<1>2. ASSUME NEW l \in Lines, ReadCounter(l) \/ Count(l), TwoTransports PROVE PairInv'
  <2>1. UNCHANGED <<list, seen, line, cur>> /\ \A m \in Lines \ {l} : pc'[m] = pc[m]
    BY <1>2 DEF TypeOK, ReadCounter, Count
  <2>2. pc[l] \in {"read", "count"} /\ pc'[l] \in {"count", "link"}
    BY <1>2 DEF TypeOK, ReadCounter, Count
  <2>3. Unlisted(list, cur[l])
    BY <1>2, <2>2 DEF PairInv, NewTo
  <2> QED BY <2>1, <2>2, <2>3, SameLists
<1>3. ASSUME NEW l \in Lines, ReadCounter(l) \/ Count(l), ~TwoTransports PROVE PairInv'
  BY <1>3 DEF ReadCounter, Count, PairInv, TwoTransports
<1>4. ASSUME NEW l \in Lines, Store(l) \/ Ack(l) PROVE PairInv'
  <2>1. UNCHANGED <<list, seen, line>>
    BY <1>4 DEF Store, Ack
  <2>2. \A m \in Lines \ {l} : UNCHANGED <<pc[m], cur[m]>>
    BY <1>4 DEF TypeOK, Store, Ack
  <2>3. pc'[l] \in {"ack", "idle"}
    BY <1>4 DEF TypeOK, Store, Ack
  <2> QED BY <2>1, <2>2, <2>3, SameLists
<1>5. ASSUME UNCHANGED <<list, seen, line, pc, cur>> PROVE PairInv'
  BY <1>5, SameLists
<1>6. CASE (\E t \in Tasks : RegisterAll(t) \/ \E b \in Boards : Ask(t, b)) \/ UNCHANGED vars
  BY <1>5, <1>6 DEF RegisterAll, Ask, vars
<1>7. CASE Restart
  BY <1>7, BootPair DEF Restart
<1>8. CASE Refresh
  BY <1>5, <1>8, BootPair DEF Refresh
<1> QED BY <1>1, <1>2, <1>3, <1>4, <1>6, <1>7, <1>8, LinkPair, PublishPair DEF Next, Handle

LEMMA InitPair == Init => PairInv
  BY DEF Init, PairInv, Once, NewTo, ReadAll

\* With one transport, and with two whose handlers overlap at any of their steps, a
\* function is listed at most once, whatever is lost, repeated, erased or restarted,
\* and however many boards there are: find_register finds the only node there is.
THEOREM OneEntryEach == Spec => [](TwoTransports => OneEntryPerFunction)
<1>1. Init => TypeOK /\ InWork /\ PairInv
  BY InitType, InitPair
<1>2. (TypeOK /\ InWork /\ PairInv) /\ [Next]_vars => (TypeOK /\ InWork /\ PairInv)'
  BY NextType, NextPair
<1>3. PairInv => (TwoTransports => OneEntryPerFunction)
  BY DEF PairInv, Once, OneEntryPerFunction
<1> QED BY <1>1, <1>2, <1>3, PTL DEF Spec

-----------------------------------------------------------------------------
(* One transport and restarts only with the file up to date: a boot gives *)
(* every function the number it had, because the numbers have no gaps.    *)

InFlight(n) == \E l \in Lines : pc[l] \in {"link", "publish"} /\ num[l] = n

Gapless == \A n \in (Locals + 1)..counter : (\E x \in list : x.num = n) \/ InFlight(n)

FileListed == \A i \in Numbers :
    i < MAX_DEVICE /\ rec[i] # NoKey => [key |-> rec[i], num |-> i] \in list

ToldListed == \A k \in Keys :
    told[k] \in 1..(MAX_DEVICE - 1) => [key |-> k, num |-> told[k]] \in list

Answering == \A l \in Lines :
    pc[l] \in {"store", "ack"} => [key |-> cur[l], num |-> num[l]] \in list

CalmInv == Serial /\ calm => ~emptied /\ Gapless /\ FileListed /\ ToldListed /\ Answering

\* A boot lists again, under their numbers, the functions that fit in the file.
LEMMA BootKeeps ==
  ASSUME TypeOK, SerialInv, CalmInv, Serial, calm, Settled
  PROVE  /\ Restored(rec) = {x \in list : x.num < MAX_DEVICE}
         /\ \A n \in (Locals + 1)..(Locals + Cardinality(Kept(rec))) :
               \E x \in Restored(rec) : x.num = n
<1> USE NumberAssumption
<1> DEFINE K == Kept(rec)
<1>1. /\ Apart /\ Counted /\ counter \in Nat /\ \A l \in Lines : Fresh(l)
      /\ Gapless /\ FileListed
  BY DEF SerialInv, CalmInv
<1>2. \A x \in list : /\ x.num \in Numbers /\ x.key \in Keys /\ x = [key |-> x.key, num |-> x.num]
                      /\ x.num > Locals /\ x.num <= counter
  BY <1>1 DEF TypeOK, Nodes, Counted
<1>3. \A i \in Stored(rec) : i \in Numbers /\ i < MAX_DEVICE /\ [key |-> rec[i], num |-> i] \in list
  BY <1>1 DEF Stored, FileListed
<1>4. \A x \in list : x.num < MAX_DEVICE => x.num \in Stored(rec) /\ rec[x.num] = x.key
  BY <1>2, KeyAssumption DEF Settled, Stored
<1>5. K = Stored(rec)
  <2>1. ASSUME NEW i \in Stored(rec), NEW j \in Stored(rec), rec[i] = rec[j]
        PROVE  i = j
    BY <1>1, <1>3, <2>1 DEF Apart
  <2>2. \A i \in Stored(rec) : \A j \in Stored(rec) : j < i => rec[j] # rec[i]
    <3>1. \A i \in Stored(rec) : i \in Int
      BY DEF Stored, Numbers
    <3> QED BY <2>1, <3>1
  <2> QED BY <2>2 DEF Kept
<1> HIDE DEF K
<1>6. ASSUME NEW i \in K, NEW n \in (Locals + 1)..i
      PROVE  n \in K
  <2>1. PICK x \in list : x = [key |-> rec[i], num |-> i]
    BY <1>3, <1>5
  <2>2. x.num = i /\ i \in Numbers /\ i < MAX_DEVICE
    BY <2>1, <1>3, <1>5
  <2>3. n \in (Locals + 1)..counter /\ n < MAX_DEVICE /\ n \in Int
    BY <2>1, <2>2, <1>2, <1>1 DEF Numbers
  <2>4. ~InFlight(n)
    <3> SUFFICES ASSUME NEW l \in Lines, pc[l] \in {"link", "publish"}, num[l] = n
                 PROVE  FALSE
      BY DEF InFlight
    <3>1. x.num < num[l]
      BY <1>1 DEF Fresh
    <3> QED BY <3>1, <2>2, <2>3 DEF Numbers
  <2>5. PICK y \in list : y.num = n
    BY <1>1, <2>3, <2>4 DEF Gapless
  <2> QED BY <2>3, <2>5, <1>4, <1>5
<1>7. \A i \in K : i \in Nat /\ i > Locals
  <2>1. \A i \in K : \E x \in list : x.num = i
    BY <1>3, <1>5
  <2> QED BY <2>1, <1>2 DEF Numbers
<1>8. ASSUME NEW i \in K
      PROVE  Locals + Cardinality({j \in K : j <= i}) = i
  <2> DEFINE c == Cardinality({j \in K : j <= i})
  <2>1. {j \in K : j <= i} = (Locals + 1)..i
    BY <1>6, <1>7
  <2>2. Cardinality((Locals + 1)..i) = i - (Locals + 1) + 1
    <3>1. Locals + 1 \in Int /\ i \in Int /\ ~(Locals + 1 > i)
      BY <1>7
    <3> QED BY <3>1, FS_Interval
  <2>3. c = i - (Locals + 1) + 1 /\ i \in Nat
    BY <2>1, <2>2, <1>7
  <2> HIDE DEF c
  <2>4. Locals + c = i
    BY <2>3
  <2> QED BY <2>4 DEF c
<1>9. Restored(rec) = {[key |-> rec[i], num |-> i] : i \in K}
  BY <1>8 DEF Restored, K
<1>10. Restored(rec) = {x \in list : x.num < MAX_DEVICE}
  <2>1. \A i \in K : [key |-> rec[i], num |-> i] \in list /\ i < MAX_DEVICE
    BY <1>3, <1>5
  <2>2. \A x \in list : x.num < MAX_DEVICE => x.num \in K /\ x = [key |-> rec[x.num], num |-> x.num]
    BY <1>2, <1>4, <1>5
  <2> QED BY <1>9, <2>1, <2>2
<1>11. ASSUME NEW n \in (Locals + 1)..(Locals + Cardinality(K))
       PROVE  n \in K
  <2> SUFFICES ASSUME n \notin K PROVE FALSE
    OBVIOUS
  <2>1. Cardinality(K) \in Nat /\ n \in Int /\ n > Locals /\ n <= Locals + Cardinality(K)
    BY KeptCount DEF K
  <2>2. \A i \in K : i < n
    BY <1>6, <1>7, <2>1
  <2>3. K \subseteq (Locals + 1)..(n - 1)
    BY <1>7, <2>1, <2>2
  <2>4. /\ IsFiniteSet((Locals + 1)..(n - 1))
        /\ Cardinality((Locals + 1)..(n - 1)) = n - 1 - Locals
    <3>1. Locals + 1 \in Int /\ n - 1 \in Int
      BY <2>1
    <3>2. /\ IsFiniteSet((Locals + 1)..(n - 1))
          /\ Cardinality((Locals + 1)..(n - 1))
               = IF Locals + 1 > n - 1 THEN 0 ELSE (n - 1) - (Locals + 1) + 1
      BY <3>1, FS_Interval
    <3> QED BY <3>2, <2>1
  <2>5. Cardinality(K) <= n - 1 - Locals
    BY <2>3, <2>4, FS_Subset
  <2> QED BY <2>1, <2>5
<1>12. \A n \in (Locals + 1)..(Locals + Cardinality(K)) : \E x \in Restored(rec) : x.num = n
  <2> SUFFICES ASSUME NEW n \in (Locals + 1)..(Locals + Cardinality(K))
               PROVE  \E x \in Restored(rec) : x.num = n
    OBVIOUS
  <2>1. [key |-> rec[n], num |-> n] \in Restored(rec)
    BY <1>9, <1>11
  <2> QED BY <2>1
<1> QED BY <1>10, <1>12 DEF K

LEMMA RestartCalm ==
  ASSUME TypeOK, SerialInv, CalmInv, Serial, calm, Restart
  PROVE  CalmInv'
<1> USE NumberAssumption
<1>1. ~emptied /\ FileListed /\ ToldListed
  BY DEF CalmInv
<1>2. Settled /\ Boot(rec, FALSE)
  BY <1>1 DEF Restart
<1>3. /\ list' = {x \in list : x.num < MAX_DEVICE} /\ emptied' = FALSE
      /\ \A n \in (Locals + 1)..counter' : \E x \in list' : x.num = n
      /\ UNCHANGED <<rec, told>> /\ \A l \in Lines : pc'[l] = "idle"
  BY <1>2, BootKeeps DEF Boot
<1>4. Gapless' /\ Answering'
  BY <1>3 DEF Gapless, Answering
<1>5. FileListed'
  BY <1>1, <1>3 DEF FileListed
<1>6. ToldListed'
  BY <1>1, <1>3 DEF ToldListed
<1> QED BY <1>3, <1>4, <1>5, <1>6 DEF CalmInv

LEMMA NextCalm ==
  ASSUME TypeOK, InWork, SerialInv, CalmInv, Serial, calm, [Next]_vars
  PROVE  CalmInv'
<1> USE NumberAssumption
<1>1. ~emptied /\ Gapless /\ FileListed /\ ToldListed /\ Answering
  BY DEF CalmInv
<1>2. ASSUME NEW l \in Lines, NEW k \in Keys, Find(l, k)
      PROVE  CalmInv'
  <2>1. UNCHANGED <<list, counter, rec, emptied, told>> /\ pc[l] = "idle"
    BY <1>2 DEF Find
  <2>2. \A m \in Lines : m # l => UNCHANGED <<pc[m], cur[m], num[m]>>
    BY <1>2 DEF TypeOK, Find
  <2>3. pc'[l] \in {"store", "ack"} => [key |-> cur'[l], num |-> num'[l]] \in list
    <3> SUFFICES ASSUME pc'[l] \in {"store", "ack"} PROVE [key |-> cur'[l], num |-> num'[l]] \in list
      OBVIOUS
    <3>1. PICK x \in Keyed(k) : num' = [num EXCEPT ![l] = x.num]
      BY <1>2 DEF TypeOK, Find
    <3>2. x \in list /\ x.key = k /\ x = [key |-> x.key, num |-> x.num]
      BY DEF Keyed, TypeOK, Nodes
    <3>3. cur'[l] = k /\ num'[l] = x.num
      BY <1>2, <3>1 DEF TypeOK, Find
    <3> QED BY <3>2, <3>3
  <2>4. Answering'
    BY <1>1, <2>1, <2>2, <2>3 DEF Answering
  <2>5. \A n : InFlight(n) => InFlight(n)'
    BY <2>1, <2>2 DEF InFlight
  <2> QED BY <1>1, <2>1, <2>4, <2>5 DEF CalmInv, Gapless, FileListed, ToldListed
<1>3. ASSUME NEW l \in Lines, ReadCounter(l) \/ Link(l)
      PROVE  CalmInv'
  <2>1. UNCHANGED <<list, counter, rec, emptied, told, cur>>
    BY <1>3 DEF ReadCounter, Link
  <2>2. /\ \A m \in Lines : m # l => UNCHANGED <<pc[m], num[m]>>
        /\ pc'[l] \in {"count", "publish"}
        /\ pc[l] = "link" => pc'[l] = "publish" /\ num'[l] = num[l]
        /\ pc[l] \in {"read", "link"}
    BY <1>3 DEF TypeOK, ReadCounter, Link
  <2>3. Answering' /\ \A n : InFlight(n) => InFlight(n)'
    BY <1>1, <2>1, <2>2 DEF Answering, InFlight
  <2> QED BY <1>1, <2>1, <2>3 DEF CalmInv, Gapless, FileListed, ToldListed
<1>4. ASSUME NEW l \in Lines, Count(l)
      PROVE  CalmInv'
  <2>1. /\ UNCHANGED <<list, rec, emptied, told, cur>>
        /\ \A m \in Lines : m # l => UNCHANGED <<pc[m], num[m]>>
        /\ pc[l] = "count" /\ pc'[l] = "link" /\ counter' = num[l] + 1 /\ num'[l] = num[l] + 1
    BY <1>4 DEF TypeOK, Count
  <2>2. num[l] = counter /\ counter \in Nat
    BY <2>1 DEF SerialInv, Fresh
  <2>3. Answering' /\ \A n : InFlight(n) => InFlight(n)'
    BY <1>1, <2>1 DEF Answering, InFlight
  <2>4. InFlight(counter)'
    BY <2>1, <2>2 DEF InFlight
  <2>5. Gapless'
    <3> SUFFICES ASSUME NEW n \in (Locals + 1)..counter'
                 PROVE  (\E x \in list' : x.num = n) \/ InFlight(n)'
      BY DEF Gapless
    <3>1. n = counter' \/ n \in (Locals + 1)..counter
      BY <2>1, <2>2
    <3> QED BY <1>1, <2>1, <2>3, <2>4, <3>1 DEF Gapless
  <2> QED BY <1>1, <2>1, <2>3, <2>5 DEF CalmInv, FileListed, ToldListed
<1>5. ASSUME NEW l \in Lines, Publish(l)
      PROVE  CalmInv'
  <2> DEFINE new == [key |-> cur[l], num |-> num[l]]
  <2>1. /\ UNCHANGED <<counter, rec, emptied, told, cur, num>>
        /\ \A m \in Lines : m # l => UNCHANGED pc[m]
        /\ pc[l] = "publish" /\ pc'[l] = "store" /\ list' = seen[l] \cup {new}
    BY <1>5 DEF TypeOK, Publish
  <2>2. list' = list \cup {new}
    BY <2>1 DEF SerialInv, Fresh
  <2>3. Answering'
    BY <1>1, <2>1, <2>2 DEF Answering
  <2>4. \A n : InFlight(n) => InFlight(n)' \/ new.num = n
    BY <2>1 DEF InFlight
  <2>5. Gapless'
    BY <1>1, <2>1, <2>2, <2>4 DEF Gapless
  <2> QED BY <1>1, <2>1, <2>2, <2>3, <2>5 DEF CalmInv, FileListed, ToldListed
<1>6. ASSUME NEW l \in Lines, Store(l)
      PROVE  CalmInv'
  <2>1. /\ UNCHANGED <<list, counter, emptied, told, cur, num>>
        /\ \A m \in Lines : m # l => UNCHANGED pc[m]
        /\ pc[l] = "store" /\ pc'[l] = "ack" /\ rec' = [rec EXCEPT ![num[l]] = cur[l]]
    BY <1>6 DEF TypeOK, Store
  <2>2. Answering' /\ \A n : InFlight(n) => InFlight(n)'
    BY <1>1, <2>1 DEF Answering, InFlight
  <2>3. FileListed'
    <3>1. [key |-> cur[l], num |-> num[l]] \in list
      BY <1>1, <2>1 DEF Answering
    <3>2. \A i \in Numbers : rec'[i] = IF i = num[l] THEN cur[l] ELSE rec[i]
      BY <2>1 DEF TypeOK
    <3> QED BY <1>1, <2>1, <3>1, <3>2 DEF FileListed
  <2> QED BY <1>1, <2>1, <2>2, <2>3 DEF CalmInv, Gapless, ToldListed
<1>7. ASSUME NEW l \in Lines, Ack(l)
      PROVE  CalmInv'
  <2>1. /\ UNCHANGED <<list, counter, rec, emptied>> /\ pc[l] = "ack" /\ pc'[l] = "idle"
        /\ \A m \in Lines : m # l => UNCHANGED <<pc[m], cur[m], num[m]>>
        /\ told' = told \/ told' = [told EXCEPT ![cur[l]] = num[l]]
    BY <1>7 DEF TypeOK, Ack
  <2>2. Answering' /\ \A n : InFlight(n) => InFlight(n)'
    BY <1>1, <2>1 DEF Answering, InFlight
  <2>3. [key |-> cur[l], num |-> num[l]] \in list
    BY <1>1, <2>1 DEF Answering
  <2>4. ToldListed'
    <3>1. \A k \in Keys : told'[k] = told[k] \/ (k = cur[l] /\ told'[k] = num[l])
      BY <2>1 DEF TypeOK
    <3> QED BY <1>1, <2>1, <2>3, <3>1 DEF ToldListed
  <2> QED BY <1>1, <2>1, <2>2, <2>4 DEF CalmInv, Gapless, FileListed
<1>8. ASSUME NEW t \in Tasks, RegisterAll(t)
      PROVE  CalmInv'
  <2>1. UNCHANGED <<list, counter, emptied, pc, cur, num, told>> /\ rec' = Erased
    BY <1>8 DEF RegisterAll
  <2>2. FileListed'
    BY <1>1, <2>1 DEF FileListed, Erased
  <2> QED BY <1>1, <2>1, <2>2 DEF CalmInv, Gapless, InFlight, ToldListed, Answering
<1>9. CASE (\E t \in Tasks : \E b \in Boards : Ask(t, b)) \/ UNCHANGED vars
  <2>1. UNCHANGED <<list, counter, rec, emptied, pc, cur, num, told>>
    BY <1>9 DEF Ask, vars
  <2> QED BY <1>1, <2>1 DEF CalmInv, Gapless, InFlight, FileListed, ToldListed, Answering
<1>10. CASE Restart
  BY <1>10, RestartCalm
<1>11. ~Refresh
  BY DEF Refresh
<1> QED BY <1>2, <1>3, <1>4, <1>5, <1>6, <1>7, <1>8, <1>9, <1>10, <1>11 DEF Next, Handle

\* With one transport and no restart between the erasing of the file and the
\* registrations that fill it again, the number a board was told stays that
\* of its function: R_ACK is kept across every restart.
THEOREM AckIsKept == Spec => []AckedFunctionIsListed
<1>1. Init => CalmInv
  BY NumberAssumption DEF Init, CalmInv, Gapless, FileListed, ToldListed, Answering
<1>2. [Next]_vars => UNCHANGED <<line, calm>>
  BY DEF Next, vars, Handle, Find, ReadCounter, Count, Link, Publish, Store, Ack, RegisterAll, Ask,
         Restart, Refresh, Boot
<1>3. TypeOK /\ InWork /\ SerialInv /\ CalmInv /\ [Next]_vars => CalmInv'
  <2> SUFFICES ASSUME TypeOK, InWork, SerialInv, CalmInv, [Next]_vars PROVE CalmInv'
    OBVIOUS
  <2>1. CASE Serial /\ calm
    BY <2>1, NextCalm
  <2>2. CASE ~(Serial /\ calm)
    BY <2>2, <1>2 DEF CalmInv, Serial
  <2> QED BY <2>1, <2>2
<1>4. CalmInv => AckedFunctionIsListed
  BY DEF CalmInv, ToldListed, AckedFunctionIsListed
<1>5. Spec => [](TypeOK /\ InWork /\ SerialInv /\ CalmInv)
  <2>1. Init => TypeOK /\ InWork /\ SerialInv /\ CalmInv
    BY <1>1, InitType, InitSerial
  <2>2. (TypeOK /\ InWork /\ SerialInv /\ CalmInv) /\ [Next]_vars
          => (TypeOK /\ InWork /\ SerialInv /\ CalmInv)'
    BY <1>3, NextType, NextSerial
  <2> QED BY <2>1, <2>2, PTL DEF Spec
<1> QED BY <1>4, <1>5, PTL

\* Under the same conditions an event never reaches the function of another board: what
\* a board was told below MAX_DEVICE is the number of its own function, or of none.  So
\* only a restart with the file not yet filled again, or a number the file does not keep,
\* sends an event astray.
THEOREM EventsFindOwner ==
  Spec => [](calm /\ (\A k \in Keys : told[k] < MAX_DEVICE) => EventReachesOwner)
<1>1. TypeOK /\ DistinctNumbers /\ AckedFunctionIsListed
        => (calm /\ (\A k \in Keys : told[k] < MAX_DEVICE) => EventReachesOwner)
  <2> SUFFICES ASSUME TypeOK, DistinctNumbers, AckedFunctionIsListed, calm, Serial,
                      NEW k \in Keys, told[k] < MAX_DEVICE,
                      NEW x \in list, x.num = told[k]
               PROVE  x.key = k
    BY DEF EventReachesOwner
  <2>1. x.num > Locals /\ \A y \in list : x.num = y.num => x = y
    BY DEF DistinctNumbers
  <2>2. told[k] \in 1..(MAX_DEVICE - 1)
    BY <2>1, NumberAssumption DEF TypeOK
  <2>3. [key |-> k, num |-> told[k]] \in list
    BY <2>2 DEF AckedFunctionIsListed
  <2> QED BY <2>1, <2>3
<1> QED BY <1>1, TypeCorrect, NumbersDistinct, AckIsKept, PTL
=============================================================================
