------------------------------ MODULE SetupProofs ------------------------------
(***************************************************************************)
(* The credentials and the settings, proved for every set of SSIDs, every  *)
(* capacity of the list, every value a client may ask for and any number   *)
(* of requests, failed writes and power cuts: a credential that was added  *)
(* stays, what the controller works with is what the next boot will load,  *)
(* and a form answered with success has changed what it asked for.         *)
(***************************************************************************)
EXTENDS Setup, SequenceTheorems, WellFoundedInduction, TLAPS

(* Lists. *)

(* A set of numbers up to n has a largest. *)
LEMMA Largest ==
  ASSUME NEW n \in Nat, NEW D \in SUBSET (1 .. n), D # {}
  PROVE  \E i \in D : \A j \in D : j <= i
<1> DEFINE R == {p \in Nat \X Nat : p[1] < p[2]}
           T == {n - i : i \in D}
<1>1. IsWellFoundedOn(R, Nat)
  BY NatLessThanWellFounded DEF OpToRel
<1>2. T \subseteq Nat
  <2>1. \A i \in D : n - i \in Nat
    OBVIOUS
  <2> QED BY <2>1
<1>3. T # {}
  <2>1. PICK i \in D : TRUE
    OBVIOUS
  <2>2. n - i \in T
    OBVIOUS
  <2> QED BY <2>2
<1>4. PICK x \in T : \A y \in T : ~ (<<y, x>> \in R)
  <2> HIDE DEF R, T
  <2> QED BY <1>1, <1>2, <1>3, WFMin
<1>5. ASSUME NEW y \in T PROVE ~(y < x)
  <2>1. x \in Nat /\ y \in Nat /\ <<y, x>> \notin R
    BY <1>2, <1>4, <1>5
  <2> HIDE DEF T
  <2> QED BY <2>1
<1>6. PICK i \in D : x = n - i
  OBVIOUS
<1>7. ASSUME NEW j \in D PROVE j <= i
  <2>1. n - j \in T /\ ~(n - j < n - i)
    BY <1>5, <1>6
  <2>2. i \in Int /\ j \in Int
    OBVIOUS
  <2> QED BY <2>1, <2>2
<1> QED BY <1>7

(* What deleteCredentialWithSSID looks for is there. *)
LEMMA LastIndexType ==
  ASSUME NEW S, NEW s \in Seq(S), NEW e \in ToSet(s)
  PROVE  LastIndex(e, s) \in 1 .. Len(s) /\ s[LastIndex(e, s)] = e
<1> DEFINE D == {i \in DOMAIN s : s[i] = e}
<1>1. Len(s) \in Nat /\ DOMAIN s = 1 .. Len(s)
  OBVIOUS
<1>2. D \in SUBSET (1 .. Len(s)) /\ D # {}
  BY <1>1 DEF ToSet
<1>3. \E i \in D : \A j \in D : j <= i
  BY <1>1, <1>2, Largest
<1>4. \E i \in DOMAIN s : s[i] = e /\ \A j \in DOMAIN s : s[j] = e => j <= i
  BY <1>3
<1> QED BY <1>1, <1>4 DEF LastIndex

(* An element is taken out: the others stay. *)
LEMMA RemoveOne ==
  ASSUME NEW S, NEW s \in Seq(S), NEW i \in 1 .. Len(s)
  PROVE  /\ RemoveAt(s, i) \in Seq(S) /\ Len(RemoveAt(s, i)) = Len(s) - 1
         /\ ToSet(s) \ {s[i]} \subseteq ToSet(RemoveAt(s, i))
<1> DEFINE a == SubSeq(s, 1, i - 1)
           b == SubSeq(s, i + 1, Len(s))
<1>1. /\ Len(s) \in Nat /\ i \in Int /\ 1 <= i /\ i <= Len(s)
      /\ DOMAIN s = 1 .. Len(s) /\ \A j \in 1 .. Len(s) : s[j] \in S
  BY LenProperties
<1>2. /\ a \in Seq(S) /\ Len(a) = i - 1 /\ \A j \in 1 .. i - 1 : a[j] = s[j]
  <2>1. \A j \in 1 .. i - 1 : s[j] \in S
    BY <1>1
  <2> QED BY <1>1, <2>1, SubSeqProperties
<1>3. /\ b \in Seq(S) /\ Len(b) = Len(s) - i /\ \A j \in 1 .. Len(s) - i : b[j] = s[i + j]
  <2> DEFINE m == i + 1
             n == Len(s)
  <2>1. m \in Int /\ n \in Int /\ m = i + 1 /\ n = Len(s)
    BY <1>1
  <2>4. b = SubSeq(s, m, n)
    OBVIOUS
  <2> HIDE DEF m, n, b
  <2>2. \A j \in m .. n : s[j] \in S
    BY <1>1, <2>1
  <2>3. /\ SubSeq(s, m, n) \in Seq(S) /\ Len(SubSeq(s, m, n)) = IF m <= n THEN n - m + 1 ELSE 0
        /\ \A j \in 1 .. n - m + 1 : SubSeq(s, m, n)[j] = s[m + j - 1]
    BY <2>1, <2>2, SubSeqProperties
  <2>5. Len(b) = Len(s) - i
    <3>1. Len(b) = IF m <= n THEN n - m + 1 ELSE 0
      BY <2>3, <2>4
    <3>2. CASE m <= n
      <4>1. Len(b) = n - m + 1 /\ n - m + 1 = n - i
        BY <1>1, <2>1, <3>1, <3>2
      <4> QED BY <2>1, <4>1
    <3>3. CASE ~(m <= n)
      <4>1. Len(b) = 0
        BY <3>1, <3>3
      <4>2. i <= n /\ ~(i + 1 <= n) /\ i \in Int /\ n \in Int
        BY <1>1, <2>1, <3>3
      <4>3. i = n
        BY <4>2
      <4> QED BY <2>1, <4>1, <4>2, <4>3
    <3> QED BY <3>2, <3>3
  <2>6. ASSUME NEW j \in 1 .. Len(s) - i PROVE b[j] = s[i + j]
    <3>1. j \in 1 .. n - m + 1 /\ m + j - 1 = i + j
      BY <1>1, <2>1
    <3> QED BY <2>3, <2>4, <3>1
  <2> QED BY <2>3, <2>4, <2>5, <2>6
<1> HIDE DEF a, b
<1>4. RemoveAt(s, i) = a \o b
  BY DEF RemoveAt, a, b
<1>5. /\ a \o b \in Seq(S) /\ Len(a \o b) = Len(a) + Len(b)
      /\ \A j \in 1 .. Len(a) + Len(b) : (a \o b)[j] = IF j <= Len(a) THEN a[j] ELSE b[j - Len(a)]
  BY <1>2, <1>3, ConcatProperties, Zenon
<1>6. Len(a \o b) = Len(s) - 1 /\ DOMAIN (a \o b) = 1 .. Len(s) - 1
  <2>1. Len(a \o b) = Len(s) - 1
    BY <1>1, <1>2, <1>3, <1>5
  <2> QED BY <1>5, <2>1, LenProperties
<1>7. ASSUME NEW j \in 1 .. Len(s), j # i
      PROVE  s[j] \in ToSet(a \o b)
  <2>1. CASE j < i
    <3>1. j \in 1 .. Len(s) - 1 /\ j <= Len(a) /\ j \in 1 .. Len(a) + Len(b) /\ j \in 1 .. i - 1
      BY <1>1, <1>2, <1>3, <1>7, <2>1
    <3>2. (a \o b)[j] = s[j]
      BY <1>2, <1>5, <3>1
    <3> QED BY <1>6, <3>1, <3>2 DEF ToSet
  <2>2. CASE j > i
    <3>1. /\ j - 1 \in 1 .. Len(s) - 1 /\ ~(j - 1 <= Len(a)) /\ j - 1 \in 1 .. Len(a) + Len(b)
          /\ (j - 1) - Len(a) = j - i /\ j - i \in 1 .. Len(s) - i /\ i + (j - i) = j
      BY <1>1, <1>2, <1>3, <1>7, <2>2
    <3>2. (a \o b)[j - 1] = b[j - i]
      BY <1>5, <3>1
    <3>3. b[j - i] = s[j]
      BY <1>3, <3>1
    <3> QED BY <1>6, <3>1, <3>2, <3>3 DEF ToSet
  <2> QED BY <1>1, <1>7, <2>1, <2>2
<1>8. ASSUME NEW x \in ToSet(s) \ {s[i]} PROVE x \in ToSet(a \o b)
  <2>1. PICK j \in 1 .. Len(s) : x = s[j]
    BY <1>1, <1>8 DEF ToSet
  <2> QED BY <1>7, <1>8, <2>1
<1> QED BY <1>4, <1>5, <1>6, <1>8

LEMMA ToSetOfAppend ==
  ASSUME NEW S, NEW s \in Seq(S), NEW e \in S
  PROVE  /\ Append(s, e) \in Seq(S) /\ Len(Append(s, e)) = Len(s) + 1
         /\ ToSet(s) \subseteq ToSet(Append(s, e)) /\ e \in ToSet(Append(s, e))
<1>1. /\ Len(s) \in Nat /\ DOMAIN s = 1 .. Len(s)
      /\ Append(s, e) \in Seq(S) /\ Len(Append(s, e)) = Len(s) + 1
      /\ DOMAIN Append(s, e) = 1 .. Len(s) + 1
      /\ \A i \in 1 .. Len(s) : Append(s, e)[i] = s[i]
      /\ Append(s, e)[Len(s) + 1] = e
  BY AppendProperties, LenProperties
<1>2. ASSUME NEW x \in ToSet(s) PROVE x \in ToSet(Append(s, e))
  <2>1. PICK i \in 1 .. Len(s) : x = s[i]
    BY <1>1, <1>2 DEF ToSet
  <2>2. i \in DOMAIN Append(s, e) /\ Append(s, e)[i] = x
    BY <1>1, <2>1
  <2> QED BY <2>2 DEF ToSet
<1>3. Len(s) + 1 \in DOMAIN Append(s, e)
  BY <1>1
<1> QED BY <1>1, <1>2, <1>3 DEF ToSet

-----------------------------------------------------------------------------
(* The list of credentials. *)

Lists == {list \in Seq(Heap) : Len(list) <= MAX_CREDENTIAL_COUNT}
Ops == [doing : {"add", "delete"}, ssid : SSID, at : {"look", "load", "count", "blob"}, list : Lists]

StoreTyped ==
  /\ count \in 0 .. MAX_CREDENTIAL_COUNT
  /\ blob \in [there : BOOLEAN, list : Lists] /\ (~blob.there => blob.list = <<>>)
  /\ op \in [CredentialTask -> Ops \cup {NoOp}]
  /\ kept \subseteq SSID /\ spoiled \in BOOLEAN

(* A task that has loaded the list, and what it takes from it. *)
Writing(t) == Busy(t) /\ op[t].at \in {"count", "blob"}
Dropped(t) == IF op[t].doing = "delete" THEN {op[t].ssid} ELSE {}

(* What a task is about to write holds everything that is kept but what it *)
(* deletes; an addition never writes a shorter list than there is; between *)
(* the two writes the number is the list's.                                *)
Carried(t) ==
  /\ kept \ Dropped(t) \subseteq ToSet(op[t].list)
  /\ op[t].doing = "add" => (op[t].ssid \in ToSet(op[t].list) /\ Len(blob.list) <= Len(op[t].list))
  /\ op[t].at = "blob" => count = Len(op[t].list)

KeptInv == ~spoiled =>
  /\ kept \subseteq ToSet(blob.list)
  /\ (\A t \in CredentialTask : ~HalfDeleted(t)) => Fits
  /\ \A t \in CredentialTask : Writing(t) => Carried(t)

CredInv == StoreTyped /\ KeptInv

(* What a task reads fits the type, and has every credential when the      *)
(* array is no longer than the buffer.                                     *)
LEMMA BufferHolds ==
  ASSUME StoreTyped, NEW n \in Nat, NEW g \in Heap
  PROVE  /\ Buffer(n, g) \in Seq(Heap) /\ Len(Buffer(n, g)) = n
         /\ Len(blob.list) <= n => ToSet(blob.list) \subseteq ToSet(Buffer(n, g))
<1> DEFINE l == blob.list
           b == Buffer(n, g)
<1>1. l \in Seq(Heap) /\ Len(l) \in Nat /\ DOMAIN l = 1 .. Len(l) /\ \A i \in 1 .. Len(l) : l[i] \in Heap
  <2>1. l \in Seq(Heap)
    BY DEF StoreTyped, Lists
  <2> HIDE DEF l
  <2> QED BY <2>1, LenProperties, ElementOfSeq
<1>2. \A i \in 1 .. n : (IF i <= Len(l) THEN l[i] ELSE g) \in Heap
  BY <1>1
<1>3. b = [i \in 1 .. n |-> IF i <= Len(l) THEN l[i] ELSE g]
  BY DEF Buffer
<1> HIDE DEF b, l
<1>4. b \in [1 .. n -> Heap]
  BY <1>2, <1>3
<1>5. b \in Seq(Heap) /\ Len(b) = n /\ DOMAIN b = 1 .. n
  BY <1>4
<1>6. ASSUME Len(l) <= n, NEW x \in ToSet(l) PROVE x \in ToSet(b)
  <2>1. PICK i \in 1 .. Len(l) : x = l[i]
    BY <1>1, <1>6 DEF ToSet
  <2>2. i \in 1 .. n /\ i <= Len(l)
    BY <1>1, <1>6, <2>1
  <2>3. i \in DOMAIN b /\ b[i] = x
    BY <1>3, <1>5, <2>1, <2>2
  <2> QED BY <2>3 DEF ToSet
<1> QED BY <1>5, <1>6 DEF b, l

LEMMA InitCred == Init => CredInv
<1> SUFFICES ASSUME Init PROVE CredInv
  OBVIOUS
<1> USE DEF Init, CredInit
<1>1. <<>> \in Lists /\ 0 \in 0 .. MAX_CREDENTIAL_COUNT
  BY CredentialAssumption DEF Lists
<1>2. StoreTyped
  BY <1>1 DEF StoreTyped
<1>3. \A t \in CredentialTask : ~Busy(t)
  BY DEF Busy
<1>4. Len(blob.list) <= count
  OBVIOUS
<1> QED BY <1>2, <1>3, <1>4 DEF CredInv, KeptInv, Writing, Fits

(* A task goes from one statement to the next. *)
LEMMA Moved ==
  ASSUME StoreTyped, NEW t \in CredentialTask, Busy(t), NEW at, NEW list, Moves(t, at, list),
         at \in {"look", "load", "count", "blob"}, list \in Lists
  PROVE  /\ op' = [op EXCEPT ![t] = Op(op[t].doing, op[t].ssid, at, list)]
         /\ Op(op[t].doing, op[t].ssid, at, list) \in Ops
         /\ op' \in [CredentialTask -> Ops \cup {NoOp}]
         /\ \A u \in CredentialTask : op'[u] = IF u = t THEN Op(op[t].doing, op[t].ssid, at, list) ELSE op[u]
<1>1. op \in [CredentialTask -> Ops \cup {NoOp}] /\ op[t] \in Ops
  BY DEF StoreTyped, Busy
<1>3. Op(op[t].doing, op[t].ssid, at, list) \in Ops
  BY <1>1 DEF Ops, Op
<1>4. op' = [op EXCEPT ![t] = Op(op[t].doing, op[t].ssid, at, list)]
  BY <1>1 DEF Moves
<1> QED BY <1>1, <1>3, <1>4

LEMMA Ended ==
  ASSUME StoreTyped, NEW t \in CredentialTask, Ends(t)
  PROVE  /\ op' \in [CredentialTask -> Ops \cup {NoOp}]
         /\ \A u \in CredentialTask : op'[u] = IF u = t THEN NoOp ELSE op[u]
BY DEF StoreTyped, Ends

(* What only one task does to its own, before it has loaded the list. *)
LEMMA Starts ==
  ASSUME CredInv, NEW t \in CredentialTask, NEW s \in SSID,
         addCredential(t, s) \/ deleteCredentialWithSSID(t, s)
  PROVE  CredInv'
<1>1. PICK d \in {"add", "delete"} :
        /\ op' = [op EXCEPT ![t] = Op(d, s, "look", <<>>)]
        /\ kept' = IF d = "delete" THEN kept \ {s} ELSE kept
        /\ ~Busy(t) /\ UNCHANGED <<count, blob, spoiled>>
  <2>1. CASE addCredential(t, s)
    BY <2>1 DEF addCredential
  <2>2. CASE deleteCredentialWithSSID(t, s)
    BY <2>2 DEF deleteCredentialWithSSID
  <2> QED BY <2>1, <2>2
<1>2. <<>> \in Lists
  BY CredentialAssumption DEF Lists
<1>3. Op(d, s, "look", <<>>) \in Ops
  BY <1>2 DEF Op, Ops
<1>4. op' \in [CredentialTask -> Ops \cup {NoOp}]
      /\ \A u \in CredentialTask : op'[u] = IF u = t THEN Op(d, s, "look", <<>>) ELSE op[u]
  BY <1>1, <1>3 DEF CredInv, StoreTyped
<1>5. StoreTyped' /\ kept' \subseteq kept
  BY <1>1, <1>4 DEF CredInv, StoreTyped
<1>6. ~Writing(t)' /\ ~HalfDeleted(t)' /\ ~HalfDeleted(t)
  BY <1>1, <1>4 DEF Writing, HalfDeleted, Doing, Busy, Op
<1>7. \A u \in CredentialTask : u # t =>
        /\ (Writing(u)' <=> Writing(u)) /\ (HalfDeleted(u)' <=> HalfDeleted(u))
        /\ (Carried(u) => Carried(u)')
  BY <1>1, <1>4, <1>5 DEF Writing, HalfDeleted, Doing, Busy, Carried, Dropped
<1> QED BY <1>1, <1>5, <1>6, <1>7 DEF CredInv, KeptInv, Fits

(* A task that reads: what it has loaded must be carried. *)
LEMMA Reads ==
  ASSUME CredInv, NEW t \in CredentialTask, UNCHANGED <<count, blob, kept, spoiled>>,
         op' \in [CredentialTask -> Ops \cup {NoOp}],
         \A u \in CredentialTask : u # t => op'[u] = op[u],
         ~HalfDeleted(t),
         ~spoiled /\ Writing(t)' => Carried(t)'
  PROVE  CredInv'
<1>1. StoreTyped'
  BY DEF CredInv, StoreTyped
<1>2. \A u \in CredentialTask : u # t =>
        /\ (Writing(u)' <=> Writing(u)) /\ (HalfDeleted(u)' <=> HalfDeleted(u))
        /\ (Carried(u) => Carried(u)')
  BY DEF Writing, HalfDeleted, Doing, Busy, Carried, Dropped
<1> QED BY <1>1, <1>2 DEF CredInv, KeptInv, Fits

LEMMA LookStep ==
  ASSUME CredInv, NEW t \in CredentialTask, Look(t)
  PROVE  CredInv'
<1>1. /\ Busy(t) /\ op[t].at = "look" /\ ~HalfDeleted(t) /\ UNCHANGED <<count, blob, kept, spoiled>>
      /\ (Moves(t, "load", <<>>) \/ Ends(t)) /\ StoreTyped
  BY DEF Look, HalfDeleted, Doing, CredInv
<1>2. <<>> \in Lists
  BY CredentialAssumption DEF Lists
<1>3. CASE Moves(t, "load", <<>>)
  <2>1. /\ op' \in [CredentialTask -> Ops \cup {NoOp}]
        /\ \A u \in CredentialTask : op'[u] = IF u = t THEN Op(op[t].doing, op[t].ssid, "load", <<>>)
                                                       ELSE op[u]
    BY <1>1, <1>2, <1>3, Moved
  <2>2. ~Writing(t)'
    BY <2>1 DEF Writing, Op
  <2> QED BY <1>1, <2>1, <2>2, Reads
<1>4. CASE Ends(t)
  <2>1. /\ op' \in [CredentialTask -> Ops \cup {NoOp}]
        /\ \A u \in CredentialTask : op'[u] = IF u = t THEN NoOp ELSE op[u]
    BY <1>1, <1>4, Ended
  <2>2. ~Writing(t)'
    BY <2>1 DEF Writing, Busy
  <2> QED BY <1>1, <2>1, <2>2, Reads
<1> QED BY <1>1, <1>3, <1>4

(* The list that an addition will write. *)
LEMMA AddStep ==
  ASSUME CredInv, NEW t \in CredentialTask, LoadForAdd(t)
  PROVE  CredInv'
<1>1. /\ Busy(t) /\ op[t].at = "load" /\ op[t].doing = "add" /\ ~HalfDeleted(t)
      /\ UNCHANGED <<count, blob, kept, spoiled>> /\ StoreTyped
  BY DEF LoadForAdd, HalfDeleted, Doing, CredInv, Busy, NoOp
<1>2. CASE Ends(t)
  <2>1. /\ op' \in [CredentialTask -> Ops \cup {NoOp}]
        /\ \A u \in CredentialTask : op'[u] = IF u = t THEN NoOp ELSE op[u]
    BY <1>1, <1>2, Ended
  <2>2. ~Writing(t)'
    BY <2>1 DEF Writing, Busy
  <2> QED BY <1>1, <2>1, <2>2, Reads
<1>3. CASE HasRoom /\ (blob.there => Fits) /\ ~Ends(t)
  <2> DEFINE s == op[t].ssid
  <2>1. PICK g \in Heap : Moves(t, "count", Append(Buffer(count, g), s))
    BY <1>3 DEF LoadForAdd
  <2>2. count \in Nat /\ count < MAX_CREDENTIAL_COUNT /\ s \in SSID /\ s \in Heap
    BY <1>1, <1>3 DEF StoreTyped, HasRoom, Busy, Ops, Heap
  <2>3. Len(blob.list) <= count
    <3>1. CASE blob.there
      BY <1>3, <3>1 DEF Fits
    <3>2. CASE ~blob.there
      BY <1>1, <2>2, <3>2 DEF StoreTyped
    <3> QED BY <3>1, <3>2
  <2> DEFINE b == Buffer(count, g)
             l == Append(b, s)
  <2>4. b \in Seq(Heap) /\ Len(b) = count /\ ToSet(blob.list) \subseteq ToSet(b)
    BY <1>1, <2>2, <2>3, BufferHolds
  <2> HIDE DEF b
  <2>5. l \in Seq(Heap) /\ Len(l) = count + 1 /\ ToSet(b) \subseteq ToSet(l) /\ s \in ToSet(l)
    BY <2>2, <2>4, ToSetOfAppend
  <2>6. Moves(t, "count", l)
    BY <2>1 DEF b
  <2> HIDE DEF l
  <2>7. l \in Lists
    BY <2>2, <2>5, CredentialAssumption DEF Lists
  <2>8. /\ op' \in [CredentialTask -> Ops \cup {NoOp}]
        /\ \A u \in CredentialTask : op'[u] = IF u = t THEN Op("add", s, "count", l) ELSE op[u]
    BY <1>1, <2>6, <2>7, Moved
  <2>9. /\ op'[t].doing = "add" /\ op'[t].at = "count" /\ op'[t].ssid = s /\ op'[t].list = l
    BY <2>8 DEF Op
  <2>10. Len(blob.list) <= Len(l)
    BY <1>1, <2>2, <2>3, <2>5 DEF StoreTyped, Lists
  <2>11. ~spoiled => Carried(t)'
    <3>1. ASSUME ~spoiled PROVE kept \subseteq ToSet(l)
      BY <2>4, <2>5, <3>1 DEF CredInv, KeptInv
    <3> QED BY <1>1, <2>5, <2>9, <2>10, <3>1 DEF Carried, Dropped
  <2> QED BY <1>1, <2>8, <2>11, Reads
<1> QED BY <1>2, <1>3 DEF LoadForAdd

(* The list that a deletion will write. *)
LEMMA DeleteStep ==
  ASSUME CredInv, NEW t \in CredentialTask, LoadForDelete(t)
  PROVE  CredInv'
<1>1. /\ Busy(t) /\ op[t].at = "load" /\ op[t].doing = "delete" /\ ~HalfDeleted(t)
      /\ UNCHANGED <<count, blob, kept, spoiled>> /\ StoreTyped
  BY DEF LoadForDelete, HalfDeleted, Doing, CredInv, Busy, NoOp
<1>2. CASE Ends(t)
  <2>1. /\ op' \in [CredentialTask -> Ops \cup {NoOp}]
        /\ \A u \in CredentialTask : op'[u] = IF u = t THEN NoOp ELSE op[u]
    BY <1>1, <1>2, Ended
  <2>2. ~Writing(t)'
    BY <2>1 DEF Writing, Busy
  <2> QED BY <1>1, <2>1, <2>2, Reads
<1>3. CASE Fits /\ ~Ends(t)
  <2> DEFINE s == op[t].ssid
  <2>1. PICK g \in Heap : /\ s \in ToSet(Saved(g))
                          /\ Moves(t, "count", RemoveAt(Saved(g), LastIndex(s, Saved(g))))
    BY <1>3 DEF LoadForDelete
  <2> DEFINE b == Saved(g)
             l == RemoveAt(b, LastIndex(s, b))
  <2>2. count \in Nat /\ count <= MAX_CREDENTIAL_COUNT /\ s \in SSID
    BY <1>1 DEF StoreTyped, Busy, Ops
  <2>3. b = Buffer(count, g)
    <3>1. s \notin ToSet(<<>>)
      BY DEF ToSet
    <3> QED BY <2>1, <3>1 DEF Saved
  <2>4. b \in Seq(Heap) /\ Len(b) = count /\ ToSet(blob.list) \subseteq ToSet(b)
    BY <1>1, <1>3, <2>2, <2>3, BufferHolds DEF Fits
  <2>5. s \in ToSet(b) /\ Moves(t, "count", l)
    BY <2>1
  <2> HIDE DEF b
  <2>6. LastIndex(s, b) \in 1 .. Len(b) /\ b[LastIndex(s, b)] = s
    BY <2>4, <2>5, LastIndexType
  <2>7. l \in Seq(Heap) /\ Len(l) = count - 1 /\ ToSet(b) \ {s} \subseteq ToSet(l)
    BY <2>4, <2>6, RemoveOne
  <2> HIDE DEF l
  <2>8. l \in Lists
    BY <2>2, <2>7, CredentialAssumption DEF Lists
  <2>9. /\ op' \in [CredentialTask -> Ops \cup {NoOp}]
        /\ \A u \in CredentialTask : op'[u] = IF u = t THEN Op("delete", s, "count", l) ELSE op[u]
    BY <1>1, <2>5, <2>8, Moved
  <2>10. /\ op'[t].doing = "delete" /\ op'[t].at = "count" /\ op'[t].ssid = s /\ op'[t].list = l
    BY <2>9 DEF Op
  <2>11. ~spoiled => Carried(t)'
    <3>1. ASSUME ~spoiled PROVE kept \ {s} \subseteq ToSet(l)
      BY <2>4, <2>7, <3>1 DEF CredInv, KeptInv
    <3> QED BY <1>1, <2>10, <3>1 DEF Carried, Dropped
  <2> QED BY <1>1, <2>9, <2>11, Reads
<1> QED BY <1>2, <1>3 DEF LoadForDelete

(* While a task writes, no other is about to: else the store is spoiled.   *)
LEMMA Alone ==
  ASSUME NEW t \in CredentialTask, spoiled' = (spoiled \/ Crosses(t)), ~spoiled'
  PROVE  ~spoiled /\ \A u \in CredentialTask : u # t => ~Writing(u)
BY DEF Crosses, Writing

LEMMA CountStep ==
  ASSUME CredInv, NEW t \in CredentialTask, WriteCount(t)
  PROVE  CredInv'
<1> DEFINE s == op[t].ssid
           d == op[t].doing
           l == op[t].list
<1>1. /\ Busy(t) /\ op[t].at = "count" /\ count' = Len(l) /\ Moves(t, "blob", l)
      /\ spoiled' = (spoiled \/ Crosses(t)) /\ blob' = blob /\ kept' = kept /\ StoreTyped
  BY DEF WriteCount, CredInv
<1>2. l \in Lists /\ s \in SSID /\ d \in {"add", "delete"} /\ Len(l) \in 0 .. MAX_CREDENTIAL_COUNT
  <2>1. l \in Lists /\ s \in SSID /\ d \in {"add", "delete"}
    BY <1>1 DEF StoreTyped, Busy, Ops
  <2> HIDE DEF l
  <2> QED BY <2>1, LenProperties, CredentialAssumption DEF Lists
<1> HIDE DEF l
<1>3. /\ op' \in [CredentialTask -> Ops \cup {NoOp}]
      /\ \A u \in CredentialTask : op'[u] = IF u = t THEN Op(d, s, "blob", l) ELSE op[u]
  BY <1>1, <1>2, Moved
<1>4. op'[t].doing = d /\ op'[t].at = "blob" /\ op'[t].ssid = s /\ op'[t].list = l
  BY <1>3 DEF Op
<1>5. StoreTyped'
  BY <1>1, <1>2, <1>3 DEF StoreTyped
<1>6. ASSUME ~spoiled' PROVE KeptInv'
  <2>1. /\ ~spoiled /\ kept \subseteq ToSet(blob.list) /\ Carried(t)
        /\ \A u \in CredentialTask : u # t => ~Writing(u)
    <3>1. ~spoiled /\ \A u \in CredentialTask : u # t => ~Writing(u)
      BY <1>1, <1>6, Alone
    <3>2. Writing(t)
      BY <1>1 DEF Writing
    <3> QED BY <3>1, <3>2 DEF CredInv, KeptInv
  <2>2. \A u \in CredentialTask : u # t => ~Writing(u)'
    BY <1>3, <2>1 DEF Writing, Busy
  <2>3. Carried(t)'
    BY <1>1, <1>4, <2>1 DEF Carried, Dropped, l
  <2>4. ASSUME ~HalfDeleted(t)' PROVE Fits'
    <3>1. d = "add"
      BY <1>2, <1>3, <1>4, <2>4 DEF HalfDeleted, Doing, Busy, Op, NoOp
    <3> QED BY <1>1, <2>1, <3>1 DEF Carried, Fits, l
  <2> QED BY <1>1, <2>1, <2>2, <2>3, <2>4 DEF KeptInv
<1> QED BY <1>5, <1>6 DEF CredInv, KeptInv

LEMMA BlobStep ==
  ASSUME CredInv, NEW t \in CredentialTask, WriteBlob(t)
  PROVE  CredInv'
<1> DEFINE s == op[t].ssid
           d == op[t].doing
           l == op[t].list
<1>1. /\ Busy(t) /\ op[t].at = "blob" /\ blob' = [there |-> TRUE, list |-> l] /\ Ends(t)
      /\ kept' = (IF d = "add" THEN kept \cup {s} ELSE kept \ {s})
      /\ spoiled' = (spoiled \/ Crosses(t)) /\ count' = count /\ StoreTyped
  BY DEF WriteBlob, CredInv
<1>2. l \in Lists /\ s \in SSID /\ d \in {"add", "delete"} /\ Len(l) \in Nat
  <2>1. l \in Lists /\ s \in SSID /\ d \in {"add", "delete"}
    BY <1>1 DEF StoreTyped, Busy, Ops
  <2> HIDE DEF l
  <2> QED BY <2>1, LenProperties DEF Lists
<1> HIDE DEF l
<1>3. /\ op' \in [CredentialTask -> Ops \cup {NoOp}]
      /\ \A u \in CredentialTask : op'[u] = IF u = t THEN NoOp ELSE op[u]
  BY <1>1, Ended
<1>4. StoreTyped'
  BY <1>1, <1>2, <1>3 DEF StoreTyped
<1>5. ASSUME ~spoiled' PROVE KeptInv'
  <2>1. Carried(t) /\ \A u \in CredentialTask : u # t => ~Writing(u)
    <3>1. ~spoiled /\ \A u \in CredentialTask : u # t => ~Writing(u)
      BY <1>1, <1>5, Alone
    <3>2. Writing(t)
      BY <1>1 DEF Writing
    <3> QED BY <3>1, <3>2 DEF CredInv, KeptInv
  <2>2. \A u \in CredentialTask : ~Writing(u)'
    BY <1>3, <2>1 DEF Writing, Busy
  <2>3. kept' \subseteq ToSet(blob'.list)
    BY <1>1, <1>2, <2>1 DEF Carried, Dropped, l
  <2>4. Fits'
    <3>1. blob'.list = l /\ count' = Len(l)
      BY <1>1, <2>1 DEF Carried, l
    <3> QED BY <1>2, <3>1 DEF Fits
  <2> QED BY <2>2, <2>3, <2>4 DEF KeptInv
<1> QED BY <1>4, <1>5 DEF CredInv, KeptInv

LEMMA FailStep ==
  ASSUME CredInv, NEW t \in CredentialTask, WriteFails(t)
  PROVE  CredInv'
<1>1. /\ Ends(t) /\ StoreTyped /\ UNCHANGED <<count, blob, kept>>
      /\ spoiled' = (spoiled \/ HalfDeleted(t))
  BY DEF WriteFails, CredInv
<1>2. /\ op' \in [CredentialTask -> Ops \cup {NoOp}]
      /\ \A u \in CredentialTask : op'[u] = IF u = t THEN NoOp ELSE op[u]
  BY <1>1, Ended
<1>3. StoreTyped'
  BY <1>1, <1>2 DEF StoreTyped, HalfDeleted, Busy, Doing
<1>4. ASSUME ~spoiled' PROVE KeptInv'
  <2>1. ~spoiled /\ ~HalfDeleted(t)
    BY <1>1, <1>4
  <2>2. ~Writing(t)'
    BY <1>2 DEF Writing, Busy
  <2>3. \A u \in CredentialTask : u # t =>
          /\ (Writing(u)' <=> Writing(u)) /\ (HalfDeleted(u)' <=> HalfDeleted(u))
          /\ (Carried(u) => Carried(u)')
    BY <1>1, <1>2 DEF Writing, HalfDeleted, Doing, Busy, Carried, Dropped
  <2> QED BY <1>1, <2>1, <2>2, <2>3 DEF CredInv, KeptInv, Fits
<1> QED BY <1>3, <1>4 DEF CredInv, KeptInv

LEMMA BootCred == CredInv /\ CredRestart => CredInv'
<1> SUFFICES ASSUME CredInv, CredRestart PROVE CredInv'
  OBVIOUS
<1>1. StoreTyped'
  BY DEF CredInv, StoreTyped, CredRestart, HalfDeleted, Busy, Doing
<1>2. \A t \in CredentialTask : ~Writing(t)'
  BY DEF CredRestart, Writing, Busy
<1>3. ~spoiled' => ~spoiled /\ \A t \in CredentialTask : ~HalfDeleted(t)
  BY DEF CredRestart
<1>4. UNCHANGED <<count, blob, kept>>
  BY DEF CredRestart
<1> QED BY <1>1, <1>2, <1>3, <1>4 DEF CredInv, KeptInv, Fits

LEMMA SameCred == CredInv /\ UNCHANGED credVars => CredInv'
BY DEF credVars, CredInv, StoreTyped, KeptInv, Fits, Writing, HalfDeleted, Doing, Busy, Carried,
       Dropped

LEMMA NextCred == CredInv /\ [Next]_vars => CredInv'
<1> SUFFICES ASSUME CredInv, [Next]_vars PROVE CredInv'
  OBVIOUS
<1> "http" \in CredentialTask /\ "event" \in CredentialTask
  BY DEF CredentialTask
<1>1. CASE credentialsPost \/ credentialDelete \/ Refused
  BY <1>1, Starts DEF credentialsPost, credentialDelete, Refused
<1>2. CASE CredentialStep
  BY <1>2, LookStep, AddStep, DeleteStep, CountStep, BlobStep, FailStep DEF CredentialStep, CredStep
<1>3. CASE Restart \/ PowerCut \/ Crash
  BY <1>3, BootCred DEF Restart, PowerCut, Crash, Boots
<1>4. CASE UNCHANGED credVars
  BY <1>4, SameCred
<1> QED
  BY <1>1, <1>2, <1>3, <1>4 DEF Next, EnterConfigMode, pumpConfigPost, systemConfigPost,
     exitConfigMode, StopServer, MqttUpdate, SettingStep, vars

(* A credential that was added with success can be read until somebody     *)
(* deletes it, for every set of SSIDs, every capacity of the list and any  *)
(* number of requests, failed writes and power cuts, as long as no         *)
(* deletion was cut short and the tasks did not write over one another.    *)
THEOREM CredentialsStay == Spec => []CredentialsKept
<1>1. CredInv => CredentialsKept
  BY DEF CredInv, KeptInv, CredentialsKept
<1> QED BY <1>1, InitCred, NextCred, PTL DEF Spec

-----------------------------------------------------------------------------
(* The settings. *)

Items == [key : Key, value : Nat, refused : BOOLEAN, applied : BOOLEAN]
Forms == [at : {"none", "save", "apply", "answer"}, items : Seq(Items), done : Nat, ok : BOOLEAN]

(* A form has items left when it is between the save and the update of one. *)
FormInv ==
  /\ form \in [SettingsTask -> Forms]
  /\ \A t \in SettingsTask : form[t].at = "apply" => form[t].done < Len(form[t].items)

(* While a task is between the two, flash holds the value it is about to   *)
(* apply, and no other task is there with the same key.                    *)
LiveInv ==
  /\ nvs \in [Key -> Nat \cup {Unset}] /\ live \in [Key -> Nat]
  /\ SettingsLive
  /\ \A k \in Key \ (crossed \cup deferred), t \in SettingsTask : Between(t, k) =>
       /\ nvs[k] = Next1(t).value
       /\ \A u \in SettingsTask : Between(u, k) => u = t

Inv == FormInv /\ LiveInv

(* What a client sends names a key once, and a lockout that is not refused *)
(* is in range.                                                            *)
Distinct(items) == \A i, j \in DOMAIN items : items[i].key = items[j].key => i = j
Ranged(items) ==
  \A i \in DOMAIN items : items[i].key = "lockout" /\ ~items[i].refused => LockoutAllowed(items[i].value)
Proper == {items \in Seq(Items) : Distinct(items) /\ Ranged(items)}

InOrder(items) ==
  \A i, j \in DOMAIN items : items[i].key = "min" /\ items[j].key = "max" => items[i].value < items[j].value

Reached(f) == IF f.at = "apply" THEN f.done + 1 ELSE f.done

(* A form f that has met the keys m on its way to the flash n.             *)
Accounted(f, m, n) ==
  /\ f.items \in Proper /\ f.done <= Len(f.items)
  /\ f.at = "answer" => f.done = Len(f.items) /\ (f.ok => InOrder(f.items))
  /\ f.ok => \A i \in 1 .. Reached(f) : f.items[i].key \notin m => n[f.items[i].key] = f.items[i].value

StoredInv ==
  /\ nvs \in [Key -> Int] /\ (nvs["lockout"] = Unset \/ LockoutAllowed(nvs["lockout"]))
  /\ crossed \subseteq Key /\ deferred \subseteq Key /\ met \in [SettingsTask -> SUBSET Key]
  /\ server \in {"stopped", "running", "exiting", "ending"}
  /\ \A t \in SettingsTask : Accounted(form[t], met[t], nvs)

-----------------------------------------------------------------------------
(* What a client may send.                                                 *)

LEMMA Uint8Type == \A v \in Nat : Uint8(v) \in Nat
  BY DEF Uint8

LEMMA ToMillisType == \A m \in Nat : ToMillis(m) \in Nat
  BY DEF ToMillis

LEMMA ItemType ==
  ASSUME NEW k \in Key, NEW v \in Nat, NEW r \in BOOLEAN, NEW a \in BOOLEAN
  PROVE  Item(k, v, r, a) \in Items
  BY DEF Item, Items

LEMMA FormLevelType == \A k \in {"min", "max"}, v \in LEVEL : FormLevel(k, v) \in Items
<1> SUFFICES ASSUME NEW k \in {"min", "max"}, NEW v \in LEVEL PROVE FormLevel(k, v) \in Items
  OBVIOUS
<1>1. k \in Key /\ Uint8(v) \in Nat /\ (Uint8(v) > 100) \in BOOLEAN
  BY Uint8Type, SettingsAssumption DEF Key
<1> QED BY <1>1, ItemType DEF FormLevel

LEMMA FormLockoutType == \A ms \in MILLIS : FormLockout(ms) \in Items
  BY ItemType, SettingsAssumption DEF FormLockout, LockoutAllowed, Key

LEMMA ProperTyped == Proper \subseteq Seq(Items)
  BY DEF Proper

LEMMA MinutesAllowed == \A m \in 30 .. 300 : LockoutAllowed(ToMillis(m))
<1> SUFFICES ASSUME NEW m \in 30 .. 300 PROVE LockoutAllowed(ToMillis(m))
  OBVIOUS
<1>1. (m * 1875) % 134217728 = m * 1875
  OBVIOUS
<1>2. ToMillis(m) = 60000 * m
  BY <1>1 DEF ToMillis
<1>3. 60000 * m \in Int /\ 1800000 <= 60000 * m /\ 60000 * m <= 18000000
  OBVIOUS
<1>4. MANUAL_LOCKOUT_DURATION_MS_MIN = 1800000 /\ MANUAL_LOCKOUT_DURATION_MS_MAX = 18000000
  BY DEF MANUAL_LOCKOUT_DURATION_MS_MIN, MANUAL_LOCKOUT_DURATION_MS_MAX
<1>5. \A lo, hi, v \in Int : lo <= v /\ v <= hi => v \in lo .. hi
  OBVIOUS
<1>6. /\ MANUAL_LOCKOUT_DURATION_MS_MIN \in Int /\ MANUAL_LOCKOUT_DURATION_MS_MAX \in Int
      /\ ToMillis(m) \in Int /\ MANUAL_LOCKOUT_DURATION_MS_MIN <= ToMillis(m)
      /\ ToMillis(m) <= MANUAL_LOCKOUT_DURATION_MS_MAX
  BY <1>2, <1>3, <1>4
<1> QED BY <1>5, <1>6 DEF LockoutAllowed

LEMMA Single ==
  ASSUME NEW i \in Items, i.key = "lockout" /\ ~i.refused => LockoutAllowed(i.value)
  PROVE  <<i>> \in Proper /\ \A n \in DOMAIN <<i>> : <<i>>[n].key = i.key
<1>1. <<i>> \in Seq(Items) /\ DOMAIN <<i>> = {1} /\ <<i>>[1] = i
  OBVIOUS
<1> QED BY <1>1 DEF Proper, Distinct, Ranged

LEMMA Empty == <<>> \in Proper
  BY DEF Proper, Distinct, Ranged

(* Two lists that share no key make one. *)
LEMMA Joined ==
  ASSUME NEW a \in Proper, NEW b \in Proper,
         \A i \in DOMAIN a, j \in DOMAIN b : a[i].key # b[j].key
  PROVE  /\ a \o b \in Proper
         /\ \A n \in DOMAIN (a \o b) : \/ \E i \in DOMAIN a : (a \o b)[n].key = a[i].key
                                       \/ \E j \in DOMAIN b : (a \o b)[n].key = b[j].key
<1> DEFINE c == a \o b
<1>1. /\ a \in Seq(Items) /\ b \in Seq(Items) /\ Len(a) \in Nat /\ Len(b) \in Nat
      /\ DOMAIN a = 1 .. Len(a) /\ DOMAIN b = 1 .. Len(b)
  BY LenProperties DEF Proper
<1>2. /\ c \in Seq(Items) /\ Len(c) = Len(a) + Len(b)
      /\ \A n \in 1 .. Len(a) + Len(b) : c[n] = IF n <= Len(a) THEN a[n] ELSE b[n - Len(a)]
  BY <1>1, ConcatProperties, Zenon
<1>3. DOMAIN c = 1 .. Len(a) + Len(b)
  BY <1>2, LenProperties
<1> HIDE DEF c
<1>4. ASSUME NEW n \in DOMAIN c
      PROVE  \/ n \in DOMAIN a /\ c[n] = a[n]
             \/ n - Len(a) \in DOMAIN b /\ c[n] = b[n - Len(a)]
  <2>1. CASE n <= Len(a)
    BY <1>1, <1>2, <1>3, <1>4, <2>1
  <2>2. CASE ~(n <= Len(a))
    <3>1. n - Len(a) \in 1 .. Len(b)
      BY <1>1, <1>3, <1>4, <2>2
    <3> QED BY <1>1, <1>2, <1>3, <1>4, <2>2, <3>1
  <2> QED BY <2>1, <2>2
<1>5. ASSUME NEW n \in DOMAIN c, NEW k \in DOMAIN c, c[n].key = c[k].key
      PROVE  n = k
  <2>1. n \in Int /\ k \in Int
    BY <1>1, <1>3, <1>5
  <2>2. CASE n \in DOMAIN a /\ c[n] = a[n] /\ k \in DOMAIN a /\ c[k] = a[k]
    BY <1>5, <2>2 DEF Proper, Distinct
  <2>3. CASE n - Len(a) \in DOMAIN b /\ c[n] = b[n - Len(a)] /\ k - Len(a) \in DOMAIN b /\ c[k] = b[k - Len(a)]
    <3>1. n - Len(a) = k - Len(a)
      BY <1>5, <2>3 DEF Proper, Distinct
    <3> QED BY <1>1, <2>1, <3>1
  <2> QED BY <1>4, <1>5, <2>2, <2>3
<1>6. Distinct(c)
  BY <1>5 DEF Distinct
<1>7. Ranged(c)
  BY <1>4 DEF Ranged, Proper
<1>8. c \in Proper
  BY <1>2, <1>6, <1>7 DEF Proper
<1> QED BY <1>4, <1>8 DEF c

LEMMA PumpConfigProper == PumpConfig \subseteq Proper
<1> DEFINE Part(S) == {<<>>} \cup {<<i>> : i \in S}
           Keyed(a, k) == a \in Proper /\ \A n \in DOMAIN a : a[n].key = k
<1>1. ASSUME NEW k \in {"min", "max"}, NEW a \in Part({FormLevel(k, v) : v \in LEVEL})
      PROVE  Keyed(a, k)
  <2>1. CASE a = <<>>
    BY <2>1, Empty
  <2>2. CASE a # <<>>
    <3>1. PICK v \in LEVEL : a = <<FormLevel(k, v)>>
      BY <1>1, <2>2
    <3>2. FormLevel(k, v) \in Items /\ FormLevel(k, v).key = k
      BY FormLevelType DEF FormLevel, Item
    <3> QED BY <3>1, <3>2, Single
  <2> QED BY <2>1, <2>2
<1>2. ASSUME NEW a \in Part({FormLockout(ms) : ms \in MILLIS})
      PROVE  Keyed(a, "lockout")
  <2>1. CASE a = <<>>
    BY <2>1, Empty
  <2>2. CASE a # <<>>
    <3>1. PICK ms \in MILLIS : a = <<FormLockout(ms)>>
      BY <1>2, <2>2
    <3>2. /\ FormLockout(ms) \in Items /\ FormLockout(ms).key = "lockout"
          /\ ~FormLockout(ms).refused => LockoutAllowed(FormLockout(ms).value)
      BY FormLockoutType DEF FormLockout, Item
    <3> QED BY <3>1, <3>2, Single
  <2> QED BY <2>1, <2>2
<1> HIDE DEF Part
<1>3. ASSUME NEW items \in PumpConfig PROVE items \in Proper
  <2>1. PICK p \in Part({FormLevel("min", v) : v \in LEVEL}) \X
                   Part({FormLevel("max", v) : v \in LEVEL}) \X
                   Part({FormLockout(ms) : ms \in MILLIS}) : items = p[1] \o p[2] \o p[3]
    BY <1>3 DEF PumpConfig, Part
  <2>2. Keyed(p[1], "min") /\ Keyed(p[2], "max") /\ Keyed(p[3], "lockout")
    <3>1. /\ p[1] \in Part({FormLevel("min", v) : v \in LEVEL})
          /\ p[2] \in Part({FormLevel("max", v) : v \in LEVEL})
          /\ p[3] \in Part({FormLockout(ms) : ms \in MILLIS})
      OBVIOUS
    <3> HIDE DEF Keyed
    <3>2. "min" \in {"min", "max"} /\ "max" \in {"min", "max"}
      OBVIOUS
    <3> QED BY <1>1, <1>2, <3>1, <3>2
  <2>3. \A i \in DOMAIN p[1], j \in DOMAIN p[2] : p[1][i].key # p[2][j].key
    BY <2>2
  <2>4. /\ p[1] \o p[2] \in Proper
        /\ \A n \in DOMAIN (p[1] \o p[2]) : (p[1] \o p[2])[n].key \in {"min", "max"}
    BY <2>2, <2>3, Joined
  <2> DEFINE ab == p[1] \o p[2]
  <2>5. ab \in Proper /\ \A n \in DOMAIN ab : ab[n].key \in {"min", "max"}
    BY <2>4
  <2> HIDE DEF ab
  <2>6. \A i \in DOMAIN ab, j \in DOMAIN p[3] : ab[i].key # p[3][j].key
    BY <2>2, <2>5
  <2>7. ab \o p[3] \in Proper
    BY <2>2, <2>5, <2>6, Joined
  <2> QED BY <2>1, <2>7 DEF ab
<1> QED BY <1>3

LEMMA SystemConfigProper == SystemConfig \subseteq Proper
<1> SUFFICES ASSUME NEW m \in MINUTES
             PROVE  <<Item("lockout", ToMillis(m), m \notin 30 .. 300, FALSE)>> \in Proper
  BY DEF SystemConfig
<1> DEFINE i == Item("lockout", ToMillis(m), m \notin 30 .. 300, FALSE)
<1>1. i \in Items
  BY ToMillisType, ItemType, SettingsAssumption DEF Key
<1>2. ~i.refused => LockoutAllowed(i.value)
  BY MinutesAllowed DEF Item
<1> QED BY <1>1, <1>2, Single

LEMMA UpdateProper == Update \subseteq Proper
<1>1. ASSUME NEW k \in {"min", "max"}, NEW v \in LEVEL
      PROVE  <<Item(k, Uint8(v), FALSE, TRUE)>> \in Proper
  <2>1. Item(k, Uint8(v), FALSE, TRUE) \in Items /\ Item(k, Uint8(v), FALSE, TRUE).key = k
    BY Uint8Type, ItemType, SettingsAssumption DEF Key, Item
  <2> QED BY <2>1, Single
<1>2. ASSUME NEW m \in MINUTES
      PROVE  <<Item("lockout", ToMillis(m), ~LockoutAllowed(ToMillis(m)), TRUE)>> \in Proper
  <2> DEFINE i == Item("lockout", ToMillis(m), ~LockoutAllowed(ToMillis(m)), TRUE)
  <2>1. i \in Items
    BY ToMillisType, ItemType, SettingsAssumption DEF Key, LockoutAllowed
  <2>2. ~i.refused => LockoutAllowed(i.value)
    BY DEF Item
  <2> QED BY <2>1, <2>2, Single
<1> SUFFICES ASSUME NEW items \in Update PROVE items \in Proper
  OBVIOUS
<1>3. \/ \E k \in {"min", "max"}, v \in LEVEL : items = <<Item(k, Uint8(v), FALSE, TRUE)>>
      \/ \E m \in MINUTES :
           items = <<Item("lockout", ToMillis(m), ~LockoutAllowed(ToMillis(m)), TRUE)>>
  BY DEF Update
<1> QED BY <1>1, <1>2, <1>3

-----------------------------------------------------------------------------
LEMMA InitInv == Init => Inv
<1> SUFFICES ASSUME Init PROVE Inv
  OBVIOUS
<1> USE DEF Init, SettingsInit, NoForm
<1>1. NoForm \in Forms /\ NoForm.at = "none"
  BY DEF Forms
<1>2. FormInv
  BY <1>1 DEF FormInv
<1>3. Default \in [Key -> Nat] /\ nvs \in [Key -> Nat \cup {Unset}]
  BY DEF Default, Key, Unset
<1>4. LiveInv
  BY <1>3 DEF LiveInv, SettingsLive, Stored, Between, Default, Unset, Key
<1> QED BY <1>2, <1>4 DEF Inv

LEMMA BootInv == Inv /\ SettingsBoot => Inv'
<1> SUFFICES ASSUME Inv, SettingsBoot PROVE Inv'
  OBVIOUS
<1>1. NoForm \in Forms /\ NoForm.at = "none"
  BY DEF Forms, NoForm
<1>2. form' = [t \in SettingsTask |-> NoForm]
  BY DEF SettingsBoot
<1>3. FormInv'
  BY <1>1, <1>2 DEF FormInv
<1>4. \A k \in Key, t \in SettingsTask : ~Between(t, k)'
  BY <1>1, <1>2 DEF Between
<1>5. PICK given \in SUBSET { k \in {"min", "max"} : nvs[k] = Unset } :
        nvs' = [k \in Key |-> IF k \in given THEN Default[k] ELSE nvs[k]]
  BY DEF SettingsBoot, LoadInto
<1>6. nvs \in [Key -> Nat \cup {Unset}] /\ Default \in [Key -> Nat]
  BY DEF Inv, LiveInv, Default, Key
<1>7. /\ nvs' \in [Key -> Nat \cup {Unset}]
      /\ \A k \in Key : nvs'[k] = nvs[k] \/ (nvs[k] = Unset /\ nvs'[k] = Default[k])
  BY <1>5, <1>6
<1>l. live' = [k \in Key |-> IF nvs[k] = Unset THEN Default[k] ELSE nvs[k]]
  BY DEF SettingsBoot, LoadInto
<1>8. SettingsLive'
  BY <1>6, <1>7, <1>l DEF SettingsLive, Stored, Unset
<1>9. live' \in [Key -> Nat]
  BY <1>6, <1>l
<1> QED BY <1>3, <1>4, <1>7, <1>8, <1>9 DEF Inv, LiveInv

LEMMA StayInv == Inv /\ UNCHANGED setVars => Inv'
  BY DEF setVars, observed, Inv, FormInv, LiveInv, SettingsLive, Stored, Between, Next1

(* A task goes on with its form and touches no key: it is between the save *)
(* and the update of none before and after.                                *)
LEMMA QuietInv ==
  ASSUME Inv, NEW t \in SettingsTask, NEW f \in Forms, form[t].at # "apply", f.at # "apply",
         form' = [form EXCEPT ![t] = f], UNCHANGED <<nvs, live, crossed, deferred>>
  PROVE  Inv'
<1>1. FormInv'
  BY DEF Inv, FormInv
<1>2. \A u \in SettingsTask, k \in Key : Between(u, k)' <=> Between(u, k)
  BY DEF Inv, FormInv, Between, Next1
<1>3. \A u \in SettingsTask, k \in Key : Between(u, k) => Next1(u)' = Next1(u)
  BY DEF Inv, FormInv, Between, Next1
<1> QED BY <1>1, <1>2, <1>3 DEF Inv, LiveInv, SettingsLive, Stored

LEMMA SubmitInv ==
  ASSUME Inv, NEW t \in SettingsTask, NEW items \in Seq(Items), Submit(t, items)
  PROVE  Inv'
<1> DEFINE f == [at |-> "save", items |-> items, done |-> 0, ok |-> TRUE]
<1>1. f \in Forms /\ f.at = "save" /\ form' = [form EXCEPT ![t] = f]
  BY DEF Submit, Forms
<1>2. form[t].at = "none" /\ UNCHANGED <<nvs, live, crossed, deferred>>
  BY DEF Submit, NoForm, observed
<1> QED BY <1>1, <1>2, QuietInv

LEMMA DoneType ==
  ASSUME NEW r \in Forms, NEW n \in Nat
  PROVE  [r EXCEPT !.done = n] \in Forms /\ [r EXCEPT !.done = n].at = r.at
<1>1. [r EXCEPT !.done = n] \in Forms
  BY DEF Forms
<1>2. [r EXCEPT !.done = n].at = r.at
  BY DEF Forms
<1> QED BY <1>1, <1>2

LEMMA OkType ==
  ASSUME NEW r \in Forms, NEW b \in BOOLEAN
  PROVE  [r EXCEPT !.ok = b] \in Forms /\ [r EXCEPT !.ok = b].at = r.at
<1>1. [r EXCEPT !.ok = b] \in Forms
  BY DEF Forms
<1>2. [r EXCEPT !.ok = b].at = r.at
  BY DEF Forms
<1> QED BY <1>1, <1>2

LEMMA SkipType ==
  ASSUME NEW r \in Forms
  PROVE  /\ [r EXCEPT !.done = @ + 1, !.ok = FALSE] \in Forms
         /\ [r EXCEPT !.done = @ + 1, !.ok = FALSE].at = r.at
<1>1. r.done + 1 \in Nat
  BY DEF Forms
<1>2. [r EXCEPT !.done = @ + 1] \in Forms /\ [r EXCEPT !.done = @ + 1].at = r.at
  BY <1>1, DoneType
<1> QED BY <1>2, OkType

LEMMA PassInv ==
  ASSUME Inv, NEW t \in SettingsTask,
         Refuse(t) \/ SaveFails(t) \/ Answer(t) \/ Answered(t)
  PROVE  Inv'
<1>1. form \in [SettingsTask -> Forms] /\ form[t] \in Forms
  BY DEF Inv, FormInv
<1>2. form[t].at # "apply" /\ UNCHANGED <<nvs, live, crossed, deferred>>
  BY DEF Refuse, SaveFails, Answer, Answered, Filling, observed
<1>3. CASE Refuse(t) \/ SaveFails(t)
  <2> DEFINE f == [form[t] EXCEPT !.done = @ + 1, !.ok = FALSE]
  <2>1. f \in Forms /\ f.at # "apply"
    BY <1>1, <1>2, SkipType
  <2>2. form' = Skip(t)
    BY <1>3 DEF Refuse, SaveFails
  <2>3. Skip(t) = [form EXCEPT ![t] = f]
    BY <1>1 DEF Skip
  <2>4. form' = [form EXCEPT ![t] = f]
    BY <2>2, <2>3
  <2> HIDE DEF f
  <2> QED BY <1>2, <2>1, <2>4, QuietInv
<1>4. CASE Answer(t)
  <2> DEFINE f == [form[t] EXCEPT !.at = "answer", !.ok = @ /\ Ordered(t)]
  <2>1. f \in Forms /\ f.at # "apply"
    BY <1>1 DEF Forms
  <2>2. form' = [form EXCEPT ![t] = f]
    BY <1>1, <1>4 DEF Answer
  <2> QED BY <1>2, <2>1, <2>2, QuietInv
<1>5. CASE Answered(t)
  <2>1. NoForm \in Forms /\ NoForm.at # "apply"
    BY DEF NoForm, Forms
  <2>2. form' = [form EXCEPT ![t] = NoForm]
    BY <1>5 DEF Answered
  <2> QED BY <1>2, <2>1, <2>2, QuietInv
<1> QED BY <1>3, <1>4, <1>5

(* The item a form is at. *)
LEMMA NextItem ==
  ASSUME Inv, NEW t \in SettingsTask, form[t].at \in {"save", "apply"},
         form[t].done < Len(form[t].items)
  PROVE  /\ form \in [SettingsTask -> Forms] /\ form[t] \in Forms /\ Next1(t) \in Items
         /\ Next1(t).key \in Key /\ Next1(t).value \in Nat
<1>1. /\ form \in [SettingsTask -> Forms] /\ form[t] \in Forms
      /\ form[t].done \in Nat /\ form[t].items \in Seq(Items)
  BY DEF Inv, FormInv, Forms
<1>2. form[t].done + 1 \in 1 .. Len(form[t].items)
  BY <1>1
<1>3. Next1(t) \in Items
  BY <1>1, <1>2 DEF Next1
<1> QED BY <1>1, <1>3 DEF Items

(* The keys a task does not touch stay as they are. *)
LEMMA OtherKeys ==
  ASSUME Inv, NEW t \in SettingsTask, NEW K \in Key,
         \A u \in SettingsTask : u # t => form'[u] = form[u],
         NEW k \in Key \ (crossed' \cup deferred'), k # K,
         ~Between(t, k), ~Between(t, k)', nvs'[k] = nvs[k], live'[k] = live[k],
         crossed' \ {K} = crossed \ {K}, deferred' \ {K} = deferred \ {K}
  PROVE  /\ (\A u \in SettingsTask : ~Between(u, k)') => live'[k] = Stored(k)'
         /\ \A u \in SettingsTask : Between(u, k)' =>
              nvs'[k] = Next1(u)'.value /\ \A v \in SettingsTask : Between(v, k)' => v = u
<1>1. k \in Key \ (crossed \cup deferred)
  OBVIOUS
<1>2. \A u \in SettingsTask : Between(u, k)' <=> Between(u, k)
  BY DEF Between, Next1
<1>3. \A u \in SettingsTask : Between(u, k) => Next1(u)' = Next1(u)
  BY DEF Next1
<1> QED BY <1>1, <1>2, <1>3 DEF Inv, LiveInv, SettingsLive, Stored

LEMMA SaveInv == ASSUME Inv, NEW t \in SettingsTask, Save(t) PROVE Inv'
<1>1. form[t].at = "save" /\ form[t].done < Len(form[t].items)
  BY DEF Save, Filling
<1>2. /\ form \in [SettingsTask -> Forms] /\ form[t] \in Forms /\ Next1(t) \in Items
      /\ Next1(t).key \in Key /\ Next1(t).value \in Nat
  BY <1>1, NextItem
<1>3. PICK K \in Key, V \in Nat, A \in BOOLEAN :
        K = Next1(t).key /\ V = Next1(t).value /\ A = Next1(t).applied
  BY <1>2 DEF Items
<1>4. /\ nvs' = [nvs EXCEPT ![K] = V] /\ live' = live
      /\ form' = IF A THEN [form EXCEPT ![t].at = "apply"] ELSE [form EXCEPT ![t].done = @ + 1]
      /\ crossed' = IF \E u \in SettingsTask : Between(u, K) THEN crossed \cup {K}
                                                            ELSE crossed \ {K}
      /\ deferred' = IF A THEN deferred \ {K} ELSE deferred \cup {K}
  BY <1>3 DEF Save
<1> DEFINE f == IF A THEN [form[t] EXCEPT !.at = "apply"] ELSE [form[t] EXCEPT !.done = @ + 1]
<1>5. form' = [form EXCEPT ![t] = f]
  <2>1. CASE A
    BY <1>2, <1>4, <2>1
  <2>2. CASE ~A
    BY <1>2, <1>4, <2>2
  <2> QED BY <2>1, <2>2
<1>6. /\ f \in Forms /\ (f.at = "apply" => f.done < Len(f.items))
      /\ f.at = (IF A THEN "apply" ELSE "save")
      /\ A => f.items = form[t].items /\ f.done = form[t].done
  BY <1>1, <1>2 DEF Forms
<1> HIDE DEF f
<1>7. FormInv'
  BY <1>5, <1>6 DEF Inv, FormInv
<1>8. \A u \in SettingsTask : u # t => form'[u] = form[u]
  BY <1>2, <1>5
<1>9. \A k \in Key : ~Between(t, k)
  BY <1>1 DEF Between
<1>10. form'[t] = f
  BY <1>2, <1>5
<1>11. A => Next1(t)' = Next1(t)
  BY <1>6, <1>10 DEF Next1
<1>12. \A k \in Key : Between(t, k)' <=> A /\ k = K
  <2>1. CASE A
    BY <1>3, <1>6, <1>10, <1>11, <2>1 DEF Between
  <2>2. CASE ~A
    BY <1>6, <1>10, <2>2 DEF Between
  <2> QED BY <2>1, <2>2
<1>13. nvs' \in [Key -> Nat \cup {Unset}] /\ live' \in [Key -> Nat] /\ nvs'[K] = V
  BY <1>4 DEF Inv, LiveInv
<1>14. /\ \A k \in Key \ {K} : nvs'[k] = nvs[k] /\ live'[k] = live[k]
       /\ crossed' \ {K} = crossed \ {K} /\ deferred' \ {K} = deferred \ {K}
  <2>1. \A k \in Key \ {K} : nvs'[k] = nvs[k] /\ live'[k] = live[k]
    BY <1>4 DEF Inv, LiveInv
  <2>2. crossed' \ {K} = crossed \ {K}
    BY <1>4
  <2>3. deferred' \ {K} = deferred \ {K}
    BY <1>4
  <2> QED BY <2>1, <2>2, <2>3
<1>15. ASSUME K \notin crossed' \cup deferred'
       PROVE  A /\ \A u \in SettingsTask : Between(u, K)' <=> u = t
  <2>1. A
    BY <1>4, <1>15
  <2>2. \A u \in SettingsTask : ~Between(u, K)
    BY <1>4, <1>15
  <2>3. \A u \in SettingsTask \ {t} : ~Between(u, K)'
    BY <1>8, <2>2 DEF Between, Next1
  <2> QED BY <1>12, <2>1, <2>3
<1>16. ASSUME NEW k \in Key \ (crossed' \cup deferred')
       PROVE  /\ (\A u \in SettingsTask : ~Between(u, k)') => live'[k] = Stored(k)'
              /\ \A u \in SettingsTask : Between(u, k)' =>
                   nvs'[k] = Next1(u)'.value /\ \A v \in SettingsTask : Between(v, k)' => v = u
  <2>1. CASE k # K
    <3>1. /\ nvs'[k] = nvs[k] /\ live'[k] = live[k]
          /\ crossed' \ {K} = crossed \ {K} /\ deferred' \ {K} = deferred \ {K}
      BY <1>14, <1>16, <2>1
    <3>2. ~Between(t, k) /\ ~Between(t, k)'
      BY <1>9, <1>12, <1>16, <2>1
    <3> QED BY <1>8, <1>16, <2>1, <3>1, <3>2, OtherKeys
  <2>2. CASE k = K
    BY <1>3, <1>11, <1>13, <1>15, <1>16, <2>2
  <2> QED BY <2>1, <2>2
<1>17. LiveInv'
  BY <1>13, <1>16 DEF LiveInv, SettingsLive
<1> QED BY <1>7, <1>17 DEF Inv

LEMMA ApplyInv == ASSUME Inv, NEW t \in SettingsTask, Apply(t) PROVE Inv'
<1>1. form[t].at = "apply" /\ form[t].done < Len(form[t].items)
  BY DEF Apply, Inv, FormInv
<1>2. /\ form \in [SettingsTask -> Forms] /\ form[t] \in Forms /\ Next1(t) \in Items
      /\ Next1(t).key \in Key /\ Next1(t).value \in Nat
  BY <1>1, NextItem
<1>3. PICK K \in Key, V \in Nat : K = Next1(t).key /\ V = Next1(t).value
  BY <1>2
<1>4. /\ live' = [live EXCEPT ![K] = V] /\ UNCHANGED <<nvs, crossed, deferred>>
      /\ form' = [form EXCEPT ![t].at = "save", ![t].done = @ + 1]
  BY <1>3 DEF Apply, observed
<1> DEFINE f == [at |-> "save", items |-> form[t].items, done |-> form[t].done + 1,
                 ok |-> form[t].ok]
<1>5. form' = [form EXCEPT ![t] = f]
  BY <1>2, <1>4 DEF Forms
<1>6. f \in Forms /\ f.at = "save"
  BY <1>1, <1>2 DEF Forms
<1>7. FormInv'
  BY <1>5, <1>6 DEF Inv, FormInv
<1>8. \A u \in SettingsTask : u # t => form'[u] = form[u]
  BY <1>2, <1>5
<1>9. form'[t] = f
  BY <1>2, <1>5
<1>10. \A k \in Key : (Between(t, k) <=> k = K) /\ ~Between(t, k)'
  BY <1>1, <1>3, <1>6, <1>9 DEF Between
<1>11. /\ nvs' \in [Key -> Nat \cup {Unset}] /\ live' \in [Key -> Nat] /\ live'[K] = V
       /\ \A k \in Key \ {K} : live'[k] = live[k]
  BY <1>4 DEF Inv, LiveInv
<1>12. ASSUME K \notin crossed' \cup deferred'
       PROVE  live'[K] = Stored(K)' /\ \A u \in SettingsTask : ~Between(u, K)'
  <2>1. nvs[K] = V /\ \A u \in SettingsTask : Between(u, K) => u = t
    BY <1>3, <1>4, <1>10, <1>12 DEF Inv, LiveInv
  <2>2. \A u \in SettingsTask : ~Between(u, K)'
    BY <1>8, <1>10, <2>1 DEF Between, Next1
  <2> QED BY <1>4, <1>11, <2>1, <2>2 DEF Stored, Unset
<1>13. ASSUME NEW k \in Key \ (crossed' \cup deferred')
       PROVE  /\ (\A u \in SettingsTask : ~Between(u, k)') => live'[k] = Stored(k)'
              /\ \A u \in SettingsTask : Between(u, k)' =>
                   nvs'[k] = Next1(u)'.value /\ \A v \in SettingsTask : Between(v, k)' => v = u
  <2>1. CASE k # K
    <3>1. /\ nvs'[k] = nvs[k] /\ live'[k] = live[k]
          /\ crossed' \ {K} = crossed \ {K} /\ deferred' \ {K} = deferred \ {K}
      BY <1>4, <1>11, <1>13, <2>1
    <3>2. ~Between(t, k) /\ ~Between(t, k)'
      BY <1>10, <1>13, <2>1
    <3> QED BY <1>8, <1>13, <2>1, <3>1, <3>2, OtherKeys
  <2>2. CASE k = K
    BY <1>12, <1>13, <2>2
  <2> QED BY <2>1, <2>2
<1>14. LiveInv'
  BY <1>11, <1>13 DEF LiveInv, SettingsLive
<1> QED BY <1>7, <1>14 DEF Inv

LEMMA NextInv == Inv /\ [Next]_vars => Inv'
<1> SUFFICES ASSUME Inv, [Next]_vars PROVE Inv'
  OBVIOUS
<1> "http" \in SettingsTask /\ "mqtt" \in SettingsTask
  BY DEF SettingsTask
<1>1. CASE pumpConfigPost \/ systemConfigPost \/ MqttUpdate
  BY <1>1, SubmitInv, ProperTyped, PumpConfigProper, SystemConfigProper, UpdateProper
  DEF pumpConfigPost, systemConfigPost, MqttUpdate
<1>2. CASE SettingStep
  BY <1>2, PassInv, SaveInv, ApplyInv DEF SettingStep
<1>3. CASE Restart \/ PowerCut \/ Crash
  BY <1>3, BootInv DEF Restart, PowerCut, Crash, Boots
<1>4. CASE UNCHANGED setVars
  BY <1>4, StayInv
<1> QED
  BY <1>1, <1>2, <1>3, <1>4 DEF Next, EnterConfigMode, credentialsPost, credentialDelete,
     exitConfigMode, StopServer, Refused, CredentialStep, vars

(* What the controller works with is what the next boot will load, for     *)
(* every value that a client may ask for, unless the two tasks were        *)
(* changing one key at once or the lockout was meant for the next boot.    *)
THEOREM SettingsAreLive == Spec => []SettingsLive
<1>1. Inv => SettingsLive
  BY DEF Inv, LiveInv
<1> QED BY <1>1, InitInv, NextInv, PTL DEF Spec

-----------------------------------------------------------------------------
(* What was accepted is stored. *)

LEMMA OrderedForm == \A t \in SettingsTask : Ordered(t) <=> InOrder(form[t].items)
  BY DEF Ordered, Asked, InOrder

LEMMA NoFormAccounted == \A n : Accounted(NoForm, {}, n)
  BY Empty DEF Accounted, NoForm, Reached, Proper

LEMMA InitStored == Init => StoredInv
<1> SUFFICES ASSUME Init PROVE StoredInv
  OBVIOUS
<1>1. nvs \in [Key -> Int] /\ nvs["lockout"] = Unset
  BY DEF Init, SettingsInit, Key, Unset, Default
<1>2. \A t \in SettingsTask : form[t] = NoForm /\ met[t] = {}
  BY DEF Init, SettingsInit
<1> QED BY <1>1, <1>2, NoFormAccounted DEF Init, SettingsInit, StoredInv

LEMMA BootStored ==
  ASSUME StoredInv, SettingsBoot, server' \in {"stopped", "running", "exiting", "ending"}
  PROVE  StoredInv'
<1>0. PICK given \in SUBSET { k \in {"min", "max"} : nvs[k] = Unset } :
        nvs' = [k \in Key |-> IF k \in given THEN Default[k] ELSE nvs[k]]
  BY DEF SettingsBoot, LoadInto
<1>1. nvs'["lockout"] = nvs["lockout"]
  BY <1>0 DEF Key
<1>2. nvs' \in [Key -> Int]
  BY <1>0 DEF StoredInv, Default
<1>3. /\ \A t \in SettingsTask : form'[t] = NoForm /\ met'[t] = {}
      /\ crossed' = {} /\ deferred' = {} /\ met' \in [SettingsTask -> SUBSET Key]
  BY DEF SettingsBoot
<1>4. nvs'["lockout"] = Unset \/ LockoutAllowed(nvs'["lockout"])
  BY <1>1 DEF StoredInv
<1>5. \A t \in SettingsTask : Accounted(form'[t], met'[t], nvs')
  BY <1>3, NoFormAccounted
<1> QED BY <1>2, <1>3, <1>4, <1>5 DEF StoredInv

(* A task goes on with its form and flash stays as it is. *)
LEMMA FormStored ==
  ASSUME StoredInv, NEW t \in SettingsTask, NEW f, NEW m \in SUBSET Key, Inv,
         form' = [form EXCEPT ![t] = f], met' = [met EXCEPT ![t] = m], Accounted(f, m, nvs),
         UNCHANGED <<nvs, crossed, deferred, server>>
  PROVE  StoredInv'
<1>1. \A u \in SettingsTask : /\ form'[u] = (IF u = t THEN f ELSE form[u])
                              /\ met'[u] = (IF u = t THEN m ELSE met[u])
  BY DEF StoredInv, Inv, FormInv
<1>2. \A u \in SettingsTask : Accounted(form'[u], met'[u], nvs')
  BY <1>1 DEF StoredInv
<1>3. met' \in [SettingsTask -> SUBSET Key]
  BY DEF StoredInv
<1> QED BY <1>2, <1>3 DEF StoredInv

LEMMA PassStored ==
  ASSUME Inv, StoredInv, NEW t \in SettingsTask, UNCHANGED server,
         Refuse(t) \/ SaveFails(t) \/ Apply(t) \/ Answer(t) \/ Answered(t)
  PROVE  StoredInv'
<1>1. /\ form \in [SettingsTask -> Forms] /\ form[t] \in Forms /\ Accounted(form[t], met[t], nvs)
      /\ met \in [SettingsTask -> SUBSET Key] /\ met[t] \in SUBSET Key
      /\ form[t].done \in Nat /\ Len(form[t].items) \in Nat /\ form[t].ok \in BOOLEAN
  BY DEF Inv, FormInv, StoredInv, Forms
<1>2. met = [met EXCEPT ![t] = met[t]]
  BY <1>1
<1>3. UNCHANGED <<nvs, crossed, deferred, server>>
  BY DEF Refuse, SaveFails, Apply, Answer, Answered, observed
<1>4. CASE Refuse(t) \/ SaveFails(t)
  <2> DEFINE f == [form[t] EXCEPT !.done = @ + 1, !.ok = FALSE]
  <2>1. form[t].at = "save" /\ form[t].done < Len(form[t].items) /\ met' = met
    BY <1>4 DEF Refuse, SaveFails, Filling, observed
  <2>2. f.at = "save" /\ f.items = form[t].items /\ f.done = form[t].done + 1 /\ f.ok = FALSE
    BY <1>1, <2>1 DEF Forms
  <2>3. form' = [form EXCEPT ![t] = f]
    BY <1>1, <1>4 DEF Refuse, SaveFails, Skip
  <2> HIDE DEF f
  <2>4. Accounted(f, met[t], nvs)
    BY <1>1, <2>1, <2>2 DEF Accounted
  <2> QED BY <1>1, <1>2, <1>3, <2>1, <2>3, <2>4, FormStored
<1>5. CASE Apply(t)
  <2> DEFINE f == [at |-> "save", items |-> form[t].items, done |-> form[t].done + 1,
                   ok |-> form[t].ok]
  <2>1. form[t].at = "apply" /\ form[t].done < Len(form[t].items) /\ met' = met
    BY <1>5 DEF Apply, Inv, FormInv, observed
  <2>2. form' = [form EXCEPT ![t] = f]
    <3>1. form' = [form EXCEPT ![t].at = "save", ![t].done = @ + 1]
      BY <1>5 DEF Apply
    <3>2. form \in [SettingsTask -> Forms] /\ form[t] \in Forms
      BY <1>1
    <3> QED BY <3>1, <3>2, SMTT(30) DEF Forms
  <2>3. Accounted(f, met[t], nvs)
    BY <1>1, <2>1 DEF Accounted, Reached
  <2> QED BY <1>1, <1>2, <1>3, <2>1, <2>2, <2>3, FormStored
<1>6. CASE Answer(t)
  <2> DEFINE f == [form[t] EXCEPT !.at = "answer", !.ok = @ /\ Ordered(t)]
  <2>1. form[t].at = "save" /\ form[t].done = Len(form[t].items) /\ met' = met
    BY <1>6 DEF Answer, observed
  <2>2. f.at = "answer" /\ f.items = form[t].items /\ f.done = form[t].done
        /\ f.ok = (form[t].ok /\ Ordered(t))
    BY <1>1 DEF Forms
  <2>3. form' = [form EXCEPT ![t] = f]
    BY <1>1, <1>6 DEF Answer
  <2> HIDE DEF f
  <2>4. Accounted(f, met[t], nvs)
    BY <1>1, <2>1, <2>2, OrderedForm DEF Accounted, Reached
  <2> QED BY <1>1, <1>2, <1>3, <2>1, <2>3, <2>4, FormStored
<1>7. CASE Answered(t)
  BY <1>3, <1>7, NoFormAccounted, FormStored DEF Answered
<1> QED BY <1>4, <1>5, <1>6, <1>7

LEMMA SubmitStored ==
  ASSUME Inv, StoredInv, NEW t \in SettingsTask, NEW items \in Proper, Submit(t, items),
         UNCHANGED server
  PROVE  StoredInv'
<1> DEFINE f == [at |-> "save", items |-> items, done |-> 0, ok |-> TRUE]
<1>1. form' = [form EXCEPT ![t] = f] /\ met' = met /\ UNCHANGED <<nvs, crossed, deferred, server>>
  BY DEF Submit, observed
<1>2. Len(items) \in Nat
  BY LenProperties DEF Proper
<1>3. Accounted(f, met[t], nvs)
  BY <1>2 DEF Accounted, Reached
<1>4. met = [met EXCEPT ![t] = met[t]] /\ met[t] \in SUBSET Key
  BY DEF StoredInv
<1> QED BY <1>1, <1>3, <1>4, FormStored

(* The item is in flash: no other of the form has its key, and the other   *)
(* task's form has met it.                                                 *)
LEMMA SaveStored ==
  ASSUME Inv, StoredInv, NEW t \in SettingsTask, Save(t), UNCHANGED server
  PROVE  StoredInv'
<1>1. /\ form \in [SettingsTask -> Forms] /\ form[t] \in Forms /\ Accounted(form[t], met[t], nvs)
      /\ form[t].at = "save" /\ form[t].done \in Nat /\ form[t].done < Len(form[t].items)
      /\ form[t].items \in Proper /\ Next1(t) \in Items /\ ~Next1(t).refused
  BY NextItem DEF Save, Filling, Inv, FormInv, StoredInv, Accounted, Forms
<1>2. PICK K \in Key, V \in Nat, A \in BOOLEAN :
        K = Next1(t).key /\ V = Next1(t).value /\ A = Next1(t).applied
  BY <1>1 DEF Items
<1>3. /\ nvs' = [nvs EXCEPT ![K] = V]
      /\ form' = IF A THEN [form EXCEPT ![t].at = "apply"] ELSE [form EXCEPT ![t].done = @ + 1]
      /\ crossed' \subseteq crossed \cup {K} /\ deferred' \subseteq deferred \cup {K}
      /\ met' = [u \in SettingsTask |-> IF u # t /\ form[u] # NoForm THEN met[u] \cup {K} ELSE met[u]]
  BY <1>2 DEF Save
<1>4. /\ DOMAIN form[t].items = 1 .. Len(form[t].items) /\ Len(form[t].items) \in Nat
      /\ form[t].done + 1 \in DOMAIN form[t].items
      /\ \A i \in 1 .. form[t].done : i \in DOMAIN form[t].items /\ i # form[t].done + 1
  <2>1. DOMAIN form[t].items = 1 .. Len(form[t].items) /\ Len(form[t].items) \in Nat
    BY <1>1, LenProperties DEF Proper
  <2> QED BY <1>1, <2>1
<1>5. /\ \A i \in 1 .. form[t].done : form[t].items[i].key # K
      /\ form[t].items[form[t].done + 1].key = K /\ form[t].items[form[t].done + 1].value = V
      /\ K = "lockout" => LockoutAllowed(V)
  BY <1>1, <1>2, <1>4 DEF Proper, Distinct, Ranged, Next1
<1>6. /\ nvs' \in [Key -> Int] /\ nvs'[K] = V /\ \A k \in Key \ {K} : nvs'[k] = nvs[k]
      /\ (nvs'["lockout"] = Unset \/ LockoutAllowed(nvs'["lockout"]))
  <2>1. nvs' \in [Key -> Int] /\ nvs'[K] = V /\ \A k \in Key \ {K} : nvs'[k] = nvs[k]
    BY <1>3 DEF StoredInv
  <2>2. "lockout" \in Key
    BY DEF Key
  <2> QED BY <1>5, <2>1, <2>2 DEF StoredInv
<1>7. met' \in [SettingsTask -> SUBSET Key] /\ crossed' \subseteq Key /\ deferred' \subseteq Key
  BY <1>3 DEF StoredInv
<1> DEFINE f == IF A THEN [form[t] EXCEPT !.at = "apply"] ELSE [form[t] EXCEPT !.done = @ + 1]
<1>8. \A u \in SettingsTask : form'[u] = IF u = t THEN f ELSE form[u]
  BY <1>1, <1>3
<1>9. /\ f.items = form[t].items /\ f.ok = form[t].ok /\ f.at \in {"save", "apply"}
      /\ f.done <= Len(form[t].items) /\ Reached(f) = form[t].done + 1
  <2>1. CASE A
    BY <1>1, <1>4, <2>1 DEF Forms, Reached
  <2>2. CASE ~A
    BY <1>1, <1>4, <2>2 DEF Forms, Reached
  <2> QED BY <2>1, <2>2
<1> HIDE DEF f
<1>10. ASSUME f.ok, NEW i \in 1 .. Reached(f), f.items[i].key \notin met[t]
       PROVE  nvs'[f.items[i].key] = f.items[i].value
  <2>1. CASE i = form[t].done + 1
    BY <1>5, <1>6, <1>9, <2>1
  <2>2. CASE i # form[t].done + 1
    <3>1. i \in 1 .. form[t].done
      BY <1>1, <1>9, <1>10, <2>2
    <3>2. form[t].items[i].key \in Key \ {K}
      <4>1. form[t].items[i] \in Items
        BY <1>1, <1>4, <3>1 DEF Proper
      <4> QED BY <1>5, <3>1, <4>1 DEF Items
    <3>3. nvs[form[t].items[i].key] = form[t].items[i].value
      BY <1>1, <1>9, <1>10, <3>1 DEF Accounted, Reached
    <3> QED BY <1>6, <1>9, <3>2, <3>3
  <2> QED BY <2>1, <2>2
<1>11. Accounted(form'[t], met'[t], nvs')
  <2>1. form'[t] = f /\ met'[t] = met[t]
    BY <1>3, <1>8
  <2> QED BY <1>1, <1>9, <1>10, <2>1 DEF Accounted
<1>12. ASSUME NEW u \in SettingsTask, u # t PROVE Accounted(form'[u], met'[u], nvs')
  <2>1. form'[u] = form[u] /\ Accounted(form[u], met[u], nvs) /\ form[u] \in Forms
    BY <1>1, <1>8, <1>12 DEF StoredInv
  <2>2. CASE form[u] = NoForm
    BY <2>1, <2>2, Empty DEF Accounted, NoForm, Reached
  <2>3. CASE form[u] # NoForm
    <3>1. met'[u] = met[u] \cup {K}
      BY <1>3, <1>12, <2>3
    <3>2. ASSUME form[u].ok, NEW i \in 1 .. Reached(form[u]), form[u].items[i].key \notin met'[u]
          PROVE  nvs'[form[u].items[i].key] = form[u].items[i].value
      <4>1. i \in DOMAIN form[u].items
        <5>1. Len(form[u].items) \in Nat /\ DOMAIN form[u].items = 1 .. Len(form[u].items)
          BY <2>1, LenProperties DEF Forms
        <5>2. form[u].at = "apply" => form[u].done < Len(form[u].items)
          BY DEF Inv, FormInv
        <5>3. form[u].done \in Nat /\ form[u].done <= Len(form[u].items)
          BY <2>1 DEF Forms, Accounted
        <5> QED BY <3>2, <5>1, <5>2, <5>3 DEF Reached
      <4>2. form[u].items[i].key \in Key \ {K}
        <5>1. form[u].items[i] \in Items
          BY <2>1, <4>1, ElementOfSeq, LenProperties DEF Forms
        <5> QED BY <3>1, <3>2, <5>1 DEF Items
      <4>3. nvs[form[u].items[i].key] = form[u].items[i].value
        BY <2>1, <3>1, <3>2 DEF Accounted
      <4> QED BY <1>6, <4>2, <4>3
    <3> QED BY <2>1, <3>2 DEF Accounted
  <2> QED BY <2>2, <2>3
<1> QED BY <1>6, <1>7, <1>11, <1>12 DEF StoredInv

LEMMA SameStored ==
  ASSUME StoredInv, UNCHANGED setVars, server' \in {"stopped", "running", "exiting", "ending"}
  PROVE  StoredInv'
BY DEF StoredInv, setVars, observed

LEMMA NextStored == Inv /\ StoredInv /\ [Next]_vars => StoredInv'
<1> SUFFICES ASSUME Inv, StoredInv, [Next]_vars PROVE StoredInv'
  OBVIOUS
<1> "http" \in SettingsTask /\ "mqtt" \in SettingsTask
  BY DEF SettingsTask
<1>1. CASE pumpConfigPost \/ systemConfigPost \/ MqttUpdate
  BY <1>1, SubmitStored, PumpConfigProper, SystemConfigProper, UpdateProper
  DEF pumpConfigPost, systemConfigPost, MqttUpdate
<1>2. CASE SettingStep
  BY <1>2, PassStored, SaveStored DEF SettingStep
<1>3. CASE Restart \/ PowerCut \/ Crash
  BY <1>3, BootStored DEF Restart, PowerCut, Crash, Boots
<1>4. CASE EnterConfigMode \/ exitConfigMode \/ StopServer
  BY <1>4, SameStored DEF EnterConfigMode, exitConfigMode, StopServer
<1>5. CASE credentialsPost \/ credentialDelete \/ Refused \/ CredentialStep \/ UNCHANGED vars
  BY <1>5, SameStored DEF credentialsPost, credentialDelete, Refused, CredentialStep, vars, StoredInv
<1> QED BY <1>1, <1>2, <1>3, <1>4, <1>5 DEF Next

LEMMA StoredAccepted == Inv /\ StoredInv => SettingsTypeOK /\ AcceptedStored /\ AcceptedOrdered
<1> SUFFICES ASSUME Inv, StoredInv PROVE SettingsTypeOK /\ AcceptedStored /\ AcceptedOrdered
  OBVIOUS
<1>1. SettingsTypeOK
  BY DEF SettingsTypeOK, StoredInv, Inv, FormInv, LiveInv, Forms
<1>2. ASSUME NEW t \in SettingsTask, form[t].at = "answer", form[t].ok,
             NEW n \in DOMAIN form[t].items, form[t].items[n].key \notin met[t]
      PROVE  nvs[form[t].items[n].key] = form[t].items[n].value
  <2>1. Accounted(form[t], met[t], nvs) /\ DOMAIN form[t].items = 1 .. Len(form[t].items)
    BY LenProperties DEF StoredInv, Accounted, Proper
  <2> QED BY <1>2, <2>1 DEF Accounted, Reached
<1>3. AcceptedStored
  BY <1>2 DEF AcceptedStored
<1>4. AcceptedOrdered
  <2> SUFFICES ASSUME form["http"].at = "answer", form["http"].ok,
                      Asked("http", "min") # {}, Asked("http", "max") # {},
                      met["http"] \cap {"min", "max"} = {}
               PROVE  nvs["min"] < nvs["max"]
    BY DEF AcceptedOrdered
  <2>1. "http" \in SettingsTask
    BY DEF SettingsTask
  <2>2. PICK i, j \in DOMAIN form["http"].items :
          form["http"].items[i].key = "min" /\ form["http"].items[j].key = "max"
    BY DEF Asked
  <2>3. form["http"].items[i].value < form["http"].items[j].value
    BY <2>1, <2>2 DEF StoredInv, Accounted, InOrder
  <2>4. "min" \notin met["http"] /\ "max" \notin met["http"]
    OBVIOUS
  <2> QED BY <1>2, <2>1, <2>2, <2>3, <2>4
<1> QED BY <1>1, <1>3, <1>4

(* The types, and the answers of the configuration mode: a form that was   *)
(* answered with success has changed in flash everything it asked for,     *)
(* save what the other task has changed since, and levels it gave together *)
(* are in order.                                                           *)
THEOREM AcceptedIsStored == Spec => []AcceptedInv
<1>1. Init => Inv /\ CredInv /\ StoredInv
  BY InitInv, InitCred, InitStored
<1>2. (Inv /\ CredInv /\ StoredInv) /\ [Next]_vars => (Inv /\ CredInv /\ StoredInv)'
  BY NextInv, NextCred, NextStored
<1>3. Inv /\ CredInv /\ StoredInv => AcceptedInv
  <2>1. CredInv => CredTypeOK
    <3> SUFFICES ASSUME CredInv PROVE CredTypeOK
      OBVIOUS
    <3>1. blob.list \in Lists /\ blob.there \in BOOLEAN
      BY DEF CredInv, StoreTyped
    <3>2. ToSet(blob.list) \subseteq Heap
      BY <3>1, LenProperties, ElementOfSeq DEF ToSet, Lists
    <3> QED BY <3>1, <3>2 DEF CredInv, StoreTyped, CredTypeOK, Lists
  <2> QED BY <2>1, StoredAccepted DEF AcceptedInv, TypeOK, StoredInv
<1> QED BY <1>1, <1>2, <1>3, PTL DEF Spec
=============================================================================
