---------------------------- MODULE RigConfigProofs ----------------------------
(***************************************************************************)
(* What RigConfig shows, stores and sends, for any rigs, addresses and     *)
(* bounds.                                                                 *)
(***************************************************************************)
EXTENDS RigConfig, FiniteSetTheorems, SequenceTheorems, WellFoundedInduction, TLAPS

\* The types without the list of names, which is only read to be shown.
Shape ==
  /\ prefs \in Config /\ disk \in Config /\ uiConfig \in Config
  /\ selected \in Names

\* What is checked is what is sent only because the copies agree.
CheckedInv == Shape /\ RigsAgree /\ SentValid

\* The name is on the list once at most.
Once(x, s) == \A i, j \in DOMAIN s : s[i] = x /\ s[j] = x => i = j

\* A rig that was not added again is on the list once at most: only then does
\* removing it leave none of its name.
ListInv ==
  /\ available \in Seq(Names)
  /\ RigsListed /\ SelectedListed
  /\ \A r \in Rigs \ doubled : Once(r, available)

-----------------------------------------------------------------------------
(* Configs                                                                 *)

LEMMA RigMapWith ==
  ASSUME NEW rigs \in RigMaps, NEW r \in Names, NEW a \in Entered
  PROVE  With(rigs, r, a) \in RigMaps
<1>1. PICK R \in SUBSET Names : IsFiniteSet(R) /\ rigs \in [R -> Entered]
  BY DEF RigMaps
<1>2. With(rigs, r, a) \in [R \cup {r} -> Entered]
  BY <1>1 DEF With
<1>3. R \cup {r} \in SUBSET Names /\ IsFiniteSet(R \cup {r})
  BY <1>1, FS_AddElement
<1> QED
  BY <1>2, <1>3 DEF RigMaps

LEMMA RigMapWithout ==
  ASSUME NEW rigs \in RigMaps, NEW r \in Names
  PROVE  Without(rigs, r) \in RigMaps
<1>1. PICK R \in SUBSET Names : IsFiniteSet(R) /\ rigs \in [R -> Entered]
  BY DEF RigMaps
<1>2. Without(rigs, r) \in [R \ {r} -> Entered]
  BY <1>1 DEF Without
<1>3. R \ {r} \in SUBSET Names /\ IsFiniteSet(R \ {r})
  BY <1>1, FS_RemoveElement
<1> QED
  BY <1>2, <1>3 DEF RigMaps

LEMMA DefaultConfigType == DefaultConfig \in Config
<1>1. NoRigs \in [{} -> Entered]
  BY DEF NoRigs
<1>2. NoRigs \in RigMaps
  BY <1>1, FS_EmptySet DEF RigMaps
<1> QED
  BY <1>2, EmptySeq DEF DefaultConfig, Config, Entered

\* One field of a config is written, the others stay.
LEMMA FieldWritten ==
  ASSUME NEW c \in Config
  PROVE  /\ \A en \in BOOLEAN :
              LET d == [c EXCEPT !.enabled = en] IN
              /\ d \in Config /\ d.enabled = en /\ d.rigs = c.rigs
              /\ d.subaddress = c.subaddress /\ d.pool = c.pool
         /\ \A a \in Entered :
              LET d == [c EXCEPT !.subaddress = a] IN
              /\ d \in Config /\ d.subaddress = a /\ d.rigs = c.rigs
              /\ d.enabled = c.enabled /\ d.pool = c.pool
         /\ \A rigs \in RigMaps :
              LET d == [c EXCEPT !.rigs = rigs] IN
              /\ d \in Config /\ d.rigs = rigs /\ d.enabled = c.enabled
              /\ d.subaddress = c.subaddress /\ d.pool = c.pool
         /\ \A pool \in BOOLEAN :
              LET d == [c EXCEPT !.pool = pool] IN
              /\ d \in Config /\ d.rigs = c.rigs /\ d.enabled = c.enabled
              /\ d.subaddress = c.subaddress
         /\ \A a \in Entered :
              LET d == [c EXCEPT !.wallet = a] IN
              /\ d \in Config /\ d.rigs = c.rigs /\ d.enabled = c.enabled
              /\ d.subaddress = c.subaddress /\ d.pool = c.pool
  BY DEF Config

-----------------------------------------------------------------------------
(* The operations                                                          *)

\* What leaves the counter and the last START alone leaves SentValid alone.
LEMMA NothingSent ==
  ASSUME SentValid, UNCHANGED <<starts, sent>>
  PROVE  SentValid'
  BY DEF SentValid

\* What is loaded is shown as it is.
LEMMA Loaded ==
  ASSUME CheckedInv, NEW c \in Config, prefs' = c, LoadSavedConfig(c),
         disk' = disk, UNCHANGED <<starts, sent>>
  PROVE  CheckedInv'
<1>1. Shape'
  BY DEF CheckedInv, Shape, LoadSavedConfig, Names
<1>2. RigsAgree'
  BY DEF LoadSavedConfig, RigsAgree
<1> QED
  BY <1>1, <1>2, NothingSent DEF CheckedInv

LEMMA WorkerNameType ==
  ASSUME Shape
  PROVE  WorkerName \in Seq(Rigs)
<1>1. prefs.worker \in Seq(Rigs)
  BY DEF Shape, Config
<1>2. CASE selected = Default
  BY <1>1, <1>2 DEF WorkerName
<1>3. CASE selected # Default
  BY <1>1, <1>3, AppendProperties DEF WorkerName, Shape, Names
<1> QED
  BY <1>2, <1>3

\* The address is checked where it is read; the pool is checked in the other
\* copy, which shows the same pool unless it was typed over.
LEMMA StartChecked ==
  ASSUME CheckedInv, StartMining
  PROVE  CheckedInv'
<1> DEFINE c == [prefs EXCEPT !.wallet = ActiveAddress, !.worker = WorkerName]
           shown == [uiConfig EXCEPT !.wallet = c.wallet, !.worker = c.worker]
<1>1. prefs \in Config /\ uiConfig \in Config /\ WorkerName \in Seq(Rigs)
  BY WorkerNameType DEF CheckedInv, Shape
<1>2. ActiveAddress \in Valid /\ ActiveAddress \in Addresses /\ uiConfig.pool
  BY ConfigAssumption DEF StartMining, AddressValid, PoolValid
<1>3. /\ c \in Config /\ c.wallet = ActiveAddress /\ c.worker = WorkerName
      /\ c.rigs = prefs.rigs /\ c.enabled = prefs.enabled
      /\ c.subaddress = prefs.subaddress /\ c.pool = prefs.pool
  BY <1>1, <1>2 DEF Config, Entered
<1>4. /\ shown \in Config /\ shown.rigs = uiConfig.rigs /\ shown.enabled = uiConfig.enabled
      /\ shown.subaddress = uiConfig.subaddress /\ shown.pool = uiConfig.pool
  BY <1>1, <1>2, <1>3 DEF Config
<1>5. /\ prefs' = c /\ uiConfig' = shown /\ disk' = disk /\ selected' = selected
      /\ typed' = typed
      /\ sent' = [wallet |-> c.wallet, unusable |-> ~c.pool /\ ~typed]
  BY DEF StartMining, history
<1> HIDE DEF c, shown
<1>6. Shape'
  BY <1>3, <1>4, <1>5 DEF CheckedInv, Shape
<1>7. RigsAgree'
  BY <1>3, <1>4, <1>5 DEF CheckedInv, RigsAgree
<1>8. ~typed => c.pool
  BY <1>2, <1>3 DEF CheckedInv, RigsAgree
<1>9. sent'.wallet \in Valid /\ ~sent'.unusable
  BY <1>2, <1>3, <1>5, <1>8
<1>10. SentValid'
  BY <1>9 DEF SentValid
<1> QED
  BY <1>6, <1>7, <1>10 DEF CheckedInv

\* The edits that write both copies, or the shown one alone.
LEMMA EditKeeps ==
  ASSUME CheckedInv,
         \/ \E b \in BOOLEAN : ToggleSubaddress(b) \/ UpdatePool(b)
         \/ \E a \in Entered : UpdateMiningSubaddress(a) \/ UpdateWallet(a)
  PROVE  CheckedInv'
<1>1. /\ prefs \in Config /\ uiConfig \in Config /\ disk \in Config
      /\ selected \in Names
  BY DEF CheckedInv, Shape
<1> USE DEF store, history
<1>2. ASSUME NEW en \in BOOLEAN, ToggleSubaddress(en) PROVE Shape' /\ RigsAgree'
  BY <1>1, <1>2, FieldWritten DEF ToggleSubaddress, CheckedInv, Shape, RigsAgree
<1>3. ASSUME NEW a \in Entered, UpdateMiningSubaddress(a)
      PROVE  Shape' /\ RigsAgree'
  BY <1>1, <1>3, FieldWritten DEF UpdateMiningSubaddress, CheckedInv, Shape, RigsAgree
<1>4. ASSUME NEW pool \in BOOLEAN, UpdatePool(pool) PROVE Shape' /\ RigsAgree'
  BY <1>1, <1>4, FieldWritten DEF UpdatePool, CheckedInv, Shape, RigsAgree
<1>5. ASSUME NEW a \in Entered, UpdateWallet(a) PROVE Shape' /\ RigsAgree'
  BY <1>1, <1>5, FieldWritten DEF UpdateWallet, CheckedInv, Shape, RigsAgree
<1>6. Shape' /\ RigsAgree'
  BY <1>2, <1>3, <1>4, <1>5
<1>7. SentValid'
  BY NothingSent DEF ToggleSubaddress, UpdatePool, UpdateMiningSubaddress, UpdateWallet,
                     CheckedInv
<1> QED
  BY <1>6, <1>7 DEF CheckedInv

\* The map of rigs of the shown copy is written to both.
LEMMA RigsKeep ==
  ASSUME CheckedInv, NEW r \in Names,
         RemoveRig(r) \/ \E a \in Entered : AddRig(r, a)
  PROVE  CheckedInv'
<1>1. /\ prefs \in Config /\ uiConfig \in Config /\ disk \in Config
      /\ selected \in Names /\ uiConfig.rigs \in RigMaps
  BY DEF CheckedInv, Shape, Config
<1>2. PICK rigs \in RigMaps :
        /\ uiConfig' = [uiConfig EXCEPT !.rigs = rigs]
        /\ prefs' = [prefs EXCEPT !.rigs = rigs]
  <2> DEFINE Written(rigs) == /\ uiConfig' = [uiConfig EXCEPT !.rigs = rigs]
                              /\ prefs' = [prefs EXCEPT !.rigs = rigs]
  <2>1. CASE RemoveRig(r)
    <3>1. Written(Without(uiConfig.rigs, r))
      BY <2>1 DEF RemoveRig
    <3>2. Without(uiConfig.rigs, r) \in RigMaps
      BY <1>1, RigMapWithout
    <3> HIDE DEF Written
    <3>3. \E rigs \in RigMaps : Written(rigs)
      BY <3>1, <3>2
    <3> QED
      BY <3>3 DEF Written
  <2>2. CASE \E a \in Entered : AddRig(r, a)
    <3>1. PICK a \in Entered : AddRig(r, a)
      BY <2>2
    <3>2. Written(With(uiConfig.rigs, r, a))
      BY <3>1 DEF AddRig
    <3>3. With(uiConfig.rigs, r, a) \in RigMaps
      BY <1>1, RigMapWith
    <3> HIDE DEF Written
    <3>4. \E rigs \in RigMaps : Written(rigs)
      BY <3>2, <3>3
    <3> QED
      BY <3>4 DEF Written
  <2> QED
    BY <2>1, <2>2
<1>3. /\ disk' = disk /\ typed' = typed /\ UNCHANGED <<starts, sent>>
      /\ selected' \in Names
  BY <1>1 DEF AddRig, RemoveRig, SelectedAfterRemove, history, Names
<1>4. Shape' /\ RigsAgree'
  BY <1>1, <1>2, <1>3, FieldWritten DEF CheckedInv, Shape, RigsAgree
<1> QED
  BY <1>3, <1>4, NothingSent DEF CheckedInv

\* What touches neither copy.
LEMMA OthersKeep ==
  ASSUME CheckedInv,
         \/ \E r \in Names : SelectRig(r)
         \/ StopMining \/ Flush \/ \E m \in Monitors : MonitorWakes(m)
         \/ UNCHANGED vars
  PROVE  CheckedInv'
<1> USE DEF store, ui, history, vars
<1>1. /\ UNCHANGED <<prefs, uiConfig, typed, starts, sent>>
      /\ disk' \in {disk, prefs} /\ selected' \in Names
  BY DEF SelectRig, StopMining, Flush, MonitorWakes, CheckedInv, Shape
<1>2. Shape' /\ RigsAgree'
  BY <1>1 DEF CheckedInv, Shape, RigsAgree
<1> QED
  BY <1>1, <1>2, NothingSent DEF CheckedInv

-----------------------------------------------------------------------------
(* Lists of names                                                          *)

LEMMA SmallestOf ==
  ASSUME NEW S, S \subseteq Nat, S # {}
  PROVE  \E x \in S : \A y \in S : x <= y
<1> DEFINE Below == {0 .. x : x \in S}
<1>1. Below # {}
  OBVIOUS
<1>2. Below \subseteq FiniteSubsetsOf(Nat)
  <2>1. ASSUME NEW x \in S PROVE 0 .. x \in FiniteSubsetsOf(Nat)
    <3>1. IsFiniteSet(0 .. x)
      BY FS_Interval
    <3> QED
      BY <3>1 DEF FiniteSubsetsOf
  <2> QED
    BY <2>1
<1> HIDE DEF Below
<1>3. PICK B \in Below : \A D \in Below : ~(<<D, B>> \in StrictSubsetOrdering(Nat))
  BY <1>1, <1>2, FS_StrictSubsetOrderingWellFounded, WFMin
<1>4. PICK x \in S : B = 0 .. x
  BY <1>3 DEF Below
<1>5. ASSUME NEW y \in S PROVE x <= y
  <2>1. 0 .. y \in Below
    BY DEF Below
  <2>2. ~(<<0 .. y, 0 .. x>> \in StrictSubsetOrdering(Nat))
    BY <1>3, <1>4, <2>1
  <2>3. ~(0 .. y \subseteq 0 .. x /\ 0 .. x # 0 .. y)
    BY <2>2 DEF StrictSubsetOrdering
  <2> SUFFICES ASSUME y < x PROVE FALSE
    BY <1>4
  <2>4. 0 .. y \subseteq 0 .. x /\ x \in 0 .. x /\ x \notin 0 .. y
    BY <1>4
  <2> QED
    BY <2>3, <2>4
<1> QED
  BY <1>5

\* The list of a finite set names each of its elements once.
LEMMA ListOfSet ==
  ASSUME NEW S, IsFiniteSet(S)
  PROVE  /\ SetToSeq(S) \in Seq(S)
         /\ ToSet(SetToSeq(S)) = S
         /\ IsInjective(SetToSeq(S))
<1> DEFINE n == Cardinality(S)
           s == SetToSeq(S)
<1>1. n \in Nat /\ ExistsBijection(1 .. n, S)
  BY FS_CardinalityType
<1>2. \E f \in [1 .. n -> S] : IsInjective(f)
  BY <1>1 DEF ExistsBijection, Bijection, Injection
<1>3. s \in [1 .. n -> S] /\ IsInjective(s)
  BY <1>2 DEF SetToSeq
<1>4. s \in Injection(1 .. n, S)
  BY <1>3 DEF Injection
<1>5. IsFiniteSet(1 .. n) /\ Cardinality(1 .. n) = n
  BY <1>1, FS_Interval
<1>6. s \in Surjection(1 .. n, S)
  BY <1>4, <1>5, FS_Injection
<1> HIDE DEF s, n
<1>7. ToSet(s) = S
  BY <1>3, <1>6 DEF ToSet, Surjection
<1>8. s \in Seq(S)
  BY <1>1, <1>3, SeqDef
<1> QED
  BY <1>3, <1>7, <1>8 DEF s

LEMMA ListAppended ==
  ASSUME NEW S, NEW s \in Seq(S), NEW e \in S
  PROVE  /\ Append(s, e) \in Seq(S)
         /\ ToSet(Append(s, e)) = ToSet(s) \cup {e}
         /\ \A x : Once(x, s) /\ (x = e => e \notin ToSet(s)) => Once(x, Append(s, e))
<1> DEFINE t == Append(s, e)
<1>1. PICK n \in Nat : n = Len(s)
  BY LenProperties
<1>2. /\ t \in Seq(S) /\ Len(t) = n + 1
      /\ \A i \in 1 .. n : t[i] = s[i]
      /\ t[n + 1] = e
  BY <1>1, AppendProperties
<1> HIDE DEF t
<1>3. DOMAIN t = 1 .. n + 1 /\ DOMAIN s = 1 .. n
  BY <1>1, <1>2, LenProperties
<1>4. 1 .. n + 1 = (1 .. n) \cup {n + 1}
  BY <1>1
<1>5. ToSet(t) = ToSet(s) \cup {e}
  BY <1>2, <1>3, <1>4 DEF ToSet
<1>6. ASSUME NEW x, Once(x, s), x = e => e \notin ToSet(s) PROVE Once(x, t)
  BY <1>2, <1>3, <1>4, <1>6 DEF ToSet, Once
<1> QED
  BY <1>2, <1>5, <1>6 DEF t

LEMMA ListConcatenated ==
  ASSUME NEW S, NEW x \in S, NEW s \in Seq(S)
  PROVE  /\ <<x>> \o s \in Seq(S)
         /\ ToSet(<<x>> \o s) = {x} \cup ToSet(s)
         /\ IsInjective(s) => \A y : y # x => Once(y, <<x>> \o s)
<1> DEFINE u == <<x>>
           t == u \o s
<1>1. PICK n \in Nat : n = Len(s)
  BY LenProperties
<1>2. u \in Seq(S) /\ Len(u) = 1 /\ u[1] = x
  OBVIOUS
<1> HIDE DEF u
<1>3. /\ t \in Seq(S) /\ Len(t) = 1 + n
      /\ \A i \in 1 .. 1 + n : t[i] = IF i <= 1 THEN u[i] ELSE s[i - 1]
  <2>1. /\ u \o s \in Seq(S) /\ Len(u \o s) = Len(u) + Len(s)
        /\ \A i \in 1 .. Len(u) + Len(s) :
             (u \o s)[i] = IF i <= Len(u) THEN u[i] ELSE s[i - Len(u)]
    BY <1>2, ConcatProperties, Zenon
  <2> QED
    BY <1>1, <1>2, <2>1, Zenon
<1> HIDE DEF t
<1>4. DOMAIN t = 1 .. 1 + n /\ DOMAIN s = 1 .. n
  BY <1>1, <1>3, LenProperties
<1>5. t[1] = x /\ \A i \in 1 .. n : t[i + 1] = s[i]
  BY <1>1, <1>2, <1>3
<1>6. \A i \in 1 .. 1 + n : i = 1 \/ (i - 1 \in 1 .. n /\ i = (i - 1) + 1)
  BY <1>1
<1>7. \A i \in 1 .. n : i + 1 \in 1 .. 1 + n
  BY <1>1
<1>8. ToSet(t) = {x} \cup ToSet(s)
  <2>1. ASSUME NEW y \in ToSet(t) PROVE y = x \/ y \in ToSet(s)
    <3>1. PICK i \in 1 .. 1 + n : y = t[i]
      BY <1>4, <2>1 DEF ToSet
    <3>2. CASE i = 1
      BY <1>5, <3>1, <3>2
    <3>3. CASE i # 1
      <4>1. PICK j \in 1 .. n : i = j + 1
        BY <1>6, <3>3
      <4> QED
        BY <1>4, <1>5, <3>1, <4>1 DEF ToSet
    <3> QED
      BY <3>2, <3>3
  <2>2. x \in ToSet(t)
    BY <1>1, <1>4, <1>5 DEF ToSet
  <2>3. ToSet(s) \subseteq ToSet(t)
    BY <1>4, <1>5, <1>7 DEF ToSet
  <2> QED
    BY <2>1, <2>2, <2>3
<1>9. ASSUME IsInjective(s), NEW y, y # x PROVE Once(y, t)
  <2> SUFFICES ASSUME NEW i \in 1 .. 1 + n, NEW j \in 1 .. 1 + n, t[i] = y, t[j] = y
               PROVE  i = j
    BY <1>4 DEF Once
  <2>1. i # 1 /\ j # 1
    BY <1>5, <1>9
  <2>2. PICK k \in 1 .. n, l \in 1 .. n : i = k + 1 /\ j = l + 1
    BY <1>6, <2>1
  <2>3. s[k] = s[l]
    BY <1>5, <2>2
  <2> QED
    BY <1>4, <1>9, <2>2, <2>3 DEF IsInjective
<1> QED
  BY <1>3, <1>8, <1>9 DEF t, u

\* What is left of a list when the first r in it is taken out.
LEMMA ListReduced ==
  ASSUME NEW S, NEW s \in Seq(S), NEW r
  PROVE  /\ RemoveFirst(s, r) \in Seq(S)
         /\ ToSet(RemoveFirst(s, r)) \subseteq ToSet(s)
         /\ ToSet(s) \ {r} \subseteq ToSet(RemoveFirst(s, r))
         /\ \A x : Once(x, s) => Once(x, RemoveFirst(s, r))
         /\ Once(r, s) => r \notin ToSet(RemoveFirst(s, r))
<1> DEFINE t == RemoveFirst(s, r)
           places == {i \in 1 .. Len(s) : s[i] = r}
<1>1. PICK n \in Nat : n = Len(s)
  BY LenProperties
<1>2. DOMAIN s = 1 .. n
  BY <1>1, LenProperties
<1>3. CASE places = {}
  <2>1. t = s
    BY <1>3 DEF RemoveFirst
  <2>2. r \notin ToSet(s)
    BY <1>1, <1>2, <1>3 DEF ToSet
  <2> QED
    BY <2>1, <2>2
<1>4. CASE places # {}
  <2>1. t = RemoveAt(s, SelectInSeq(s, LAMBDA v : v = r))
    BY <1>4 DEF RemoveFirst
  <2>2. SelectInSeq(s, LAMBDA v : v = r) = Min(places)
    BY <1>4 DEF SelectInSeq
  <2>3. Min(places) \in places
    <3> HIDE DEF places
    <3>1. \E x \in places : \A y \in places : x <= y
      <4>1. places \subseteq Nat
        BY <1>1 DEF places
      <4> QED
        BY <1>4, <4>1, SmallestOf
    <3> QED
      BY <3>1 DEF Min
  <2>4. PICK i \in 1 .. n : s[i] = r /\ t = RemoveAt(s, i)
    BY <1>1, <2>1, <2>2, <2>3
  <2> DEFINE a == SubSeq(s, 1, i - 1)
             b == SubSeq(s, i + 1, n)
  <2>5. t = a \o b
    BY <1>1, <2>4 DEF RemoveAt
  <2>6. \A k \in 1 .. n : s[k] \in S
    BY <1>1, ElementOfSeq
  <2>7. /\ a \in Seq(S) /\ Len(a) = i - 1
        /\ \A k \in 1 .. i - 1 : a[k] = s[k]
    <3>1. \A k \in 1 .. i - 1 : s[k] \in S
      BY <1>1, <2>6
    <3>2. /\ a \in Seq(S) /\ Len(a) = IF 1 <= i - 1 THEN (i - 1) - 1 + 1 ELSE 0
          /\ \A k \in 1 .. (i - 1) - 1 + 1 : a[k] = s[1 + k - 1]
      BY <3>1, SubSeqProperties
    <3> HIDE DEF a
    <3>3. (i - 1) - 1 + 1 = i - 1 /\ \A k \in 1 .. i - 1 : 1 + k - 1 = k
      OBVIOUS
    <3> QED
      BY <3>2, <3>3
  <2>8. /\ b \in Seq(S) /\ Len(b) = n - i
        /\ \A k \in 1 .. n - i : b[k] = s[i + k]
    <3>1. \A k \in i + 1 .. n : s[k] \in S
      BY <1>1, <2>6
    <3>2. /\ b \in Seq(S) /\ Len(b) = IF i + 1 <= n THEN n - (i + 1) + 1 ELSE 0
          /\ \A k \in 1 .. n - (i + 1) + 1 : b[k] = s[(i + 1) + k - 1]
      BY <3>1, SubSeqProperties
    <3> HIDE DEF b
    <3>3. /\ n - (i + 1) + 1 = n - i
          /\ \A k \in 1 .. n - i : (i + 1) + k - 1 = i + k
      OBVIOUS
    <3> QED
      BY <1>1, <3>2, <3>3
  <2> HIDE DEF t, a, b
  <2>9. /\ t \in Seq(S) /\ Len(t) = (i - 1) + (n - i)
        /\ \A k \in 1 .. (i - 1) + (n - i) : t[k] = IF k <= i - 1 THEN a[k] ELSE b[k - (i - 1)]
    <3>1. /\ a \o b \in Seq(S) /\ Len(a \o b) = Len(a) + Len(b)
          /\ \A k \in 1 .. Len(a) + Len(b) :
               (a \o b)[k] = IF k <= Len(a) THEN a[k] ELSE b[k - Len(a)]
      BY <2>7, <2>8, ConcatProperties, Zenon
    <3> QED
      BY <2>5, <2>7, <2>8, <3>1, Zenon
  <2>10. /\ DOMAIN t = 1 .. n - 1
         /\ \A k \in 1 .. n - 1 : t[k] = IF k < i THEN s[k] ELSE s[k + 1]
    <3>1. (i - 1) + (n - i) = n - 1
      BY <1>1
    <3>2. ASSUME NEW k \in 1 .. n - 1, k < i PROVE t[k] = s[k]
      <4>1. /\ k \in 1 .. (i - 1) + (n - i) /\ k <= i - 1
            /\ k \in 1 .. i - 1
        BY <1>1, <3>1, <3>2
      <4>2. t[k] = a[k]
        BY <2>9, <4>1, Zenon
      <4> QED
        BY <2>7, <4>1, <4>2
    <3>3. ASSUME NEW k \in 1 .. n - 1, ~(k < i) PROVE t[k] = s[k + 1]
      <4>1. k - (i - 1) \in 1 .. n - i /\ i + (k - (i - 1)) = k + 1
        BY <1>1, <3>3
      <4>2. k \in 1 .. (i - 1) + (n - i) /\ ~(k <= i - 1)
        BY <1>1, <3>1, <3>3
      <4>3. t[k] = b[k - (i - 1)]
        BY <2>9, <4>2, Zenon
      <4> QED
        BY <2>8, <4>1, <4>3
    <3>4. DOMAIN t = 1 .. n - 1
      BY <2>9, <3>1, LenProperties
    <3> QED
      BY <3>2, <3>3, <3>4
  <2>11. ToSet(t) \subseteq ToSet(s)
    BY <1>1, <1>2, <2>10 DEF ToSet
  <2>12. ToSet(s) \ {r} \subseteq ToSet(t)
    <3> SUFFICES ASSUME NEW y \in ToSet(s), y # r PROVE y \in ToSet(t)
      OBVIOUS
    <3>1. PICK k \in 1 .. n : y = s[k] /\ k # i
      BY <1>2, <2>4 DEF ToSet
    <3>2. CASE k < i
      <4>1. k \in 1 .. n - 1 /\ t[k] = y
        BY <1>1, <2>10, <3>1, <3>2
      <4> QED
        BY <2>10, <4>1 DEF ToSet
    <3>3. CASE k > i
      <4>1. k - 1 \in 1 .. n - 1 /\ ~(k - 1 < i) /\ (k - 1) + 1 = k
        BY <1>1, <3>3
      <4>2. t[k - 1] = y
        BY <2>10, <3>1, <4>1
      <4> QED
        BY <2>10, <4>1, <4>2 DEF ToSet
    <3> QED
      BY <1>1, <3>1, <3>2, <3>3
  <2> DEFINE From(k) == IF k < i THEN k ELSE k + 1
  <2>13. \A k \in 1 .. n - 1 : From(k) \in 1 .. n /\ From(k) # i /\ t[k] = s[From(k)]
    BY <1>1, <2>10
  <2>14. \A k, l \in 1 .. n - 1 : From(k) = From(l) => k = l
    OBVIOUS
  <2> HIDE DEF From
  <2>15. ASSUME NEW x, Once(x, s) PROVE Once(x, t)
    <3>1. ASSUME NEW k \in 1 .. n - 1, NEW l \in 1 .. n - 1, t[k] = x, t[l] = x
          PROVE  k = l
      <4>1. /\ From(k) \in DOMAIN s /\ From(l) \in DOMAIN s
            /\ s[From(k)] = x /\ s[From(l)] = x
        BY <1>2, <2>13, <3>1, Zenon
      <4>2. From(k) = From(l)
        BY <2>15, <4>1, Zenon DEF Once
      <4> QED
        BY <2>14, <4>2, Zenon
    <3> QED
      BY <2>10, <3>1, Zenon DEF Once
  <2>16. ASSUME Once(r, s) PROVE r \notin ToSet(t)
    <3>1. i \in DOMAIN s /\ s[i] = r
      BY <1>2, <2>4
    <3>2. ASSUME NEW k \in 1 .. n - 1 PROVE t[k] # r
      <4>1. From(k) \in DOMAIN s /\ From(k) # i /\ t[k] = s[From(k)]
        BY <1>2, <2>13, Zenon
      <4> QED
        BY <2>16, <3>1, <4>1, Zenon DEF Once
    <3> QED
      BY <2>10, <3>2 DEF ToSet
  <2> QED
    BY <2>9, <2>11, <2>12, <2>15, <2>16 DEF t
<1> QED
  BY <1>3, <1>4

-----------------------------------------------------------------------------
(* The list and the map                                                    *)

LEMMA NamesOfConfig ==
  ASSUME NEW c \in Config
  PROVE  /\ GetRigNames(c) \in Seq(Names)
         /\ ToSet(GetRigNames(c)) = {Default} \cup DOMAIN c.rigs
         /\ \A r \in Rigs : Once(r, GetRigNames(c))
<1> DEFINE names == SetToSeq(DOMAIN c.rigs)
<1>1. DOMAIN c.rigs \in SUBSET Names /\ IsFiniteSet(DOMAIN c.rigs)
  <2>1. PICK R \in SUBSET Names : IsFiniteSet(R) /\ c.rigs \in [R -> Entered]
    BY DEF Config, RigMaps
  <2> QED
    BY <2>1
<1>2. /\ names \in Seq(DOMAIN c.rigs) /\ ToSet(names) = DOMAIN c.rigs
      /\ IsInjective(names)
  BY <1>1, ListOfSet
<1> HIDE DEF names
<1>3. names \in Seq(Names) /\ Default \in Names
  BY <1>1, <1>2, SeqMonotonic DEF Names
<1>4. /\ <<Default>> \o names \in Seq(Names)
      /\ ToSet(<<Default>> \o names) = {Default} \cup ToSet(names)
      /\ \A y : y # Default => Once(y, <<Default>> \o names)
  <2> SUFFICES ASSUME NEW S, NEW d \in S, NEW s \in Seq(S), IsInjective(s)
               PROVE  /\ <<d>> \o s \in Seq(S)
                      /\ ToSet(<<d>> \o s) = {d} \cup ToSet(s)
                      /\ \A y : y # d => Once(y, <<d>> \o s)
    BY <1>2, <1>3
  <2> QED
    BY ListConcatenated
<1>5. \A r \in Rigs : r # Default
  BY DefaultAssumption
<1>6. GetRigNames(c) = <<Default>> \o names
  BY DEF GetRigNames, names
<1> QED
  BY <1>2, <1>4, <1>5, <1>6, Zenon

LEMMA ListLoaded ==
  ASSUME NEW c \in Config, prefs' = c, LoadSavedConfig(c)
  PROVE  ListInv'
<1>1. PICK names : names = GetRigNames(c)
  OBVIOUS
<1>2. /\ names \in Seq(Names) /\ \A r \in Rigs : Once(r, names)
      /\ ToSet(names) = {Default} \cup DOMAIN c.rigs
  BY <1>1, NamesOfConfig
<1>3. available' = names /\ selected' = Default
  BY <1>1 DEF LoadSavedConfig
<1> QED
  BY <1>2, <1>3 DEF ListInv, RigsListed, SelectedListed, Listed

LEMMA ListGrows ==
  ASSUME CheckedInv, ListInv, NEW r \in Names, NEW a \in Entered, AddRig(r, a)
  PROVE  ListInv'
<1>1. PICK old, new, rigs :
        old = available /\ new = Append(available, r) /\ rigs = DOMAIN prefs.rigs
  OBVIOUS
<1>2. old \in Seq(Names) /\ \A x \in Rigs \ doubled : Once(x, old)
  BY <1>1 DEF ListInv
<1>3. /\ new \in Seq(Names) /\ ToSet(new) = ToSet(old) \cup {r}
      /\ \A x : Once(x, old) /\ (x = r => r \notin ToSet(old)) => Once(x, new)
  BY <1>1, <1>2, ListAppended
<1>4. /\ available' = new /\ selected' = selected /\ dropped' = dropped
      /\ prefs' = [prefs EXCEPT !.rigs = With(uiConfig.rigs, r, a)]
  BY <1>1 DEF AddRig
<1>5. doubled \subseteq doubled' /\ (r \in ToSet(old) => r \in doubled')
  BY <1>1 DEF AddRig
<1>6. DOMAIN prefs'.rigs = rigs \cup {r}
  <2>1. prefs \in Config /\ uiConfig.rigs = prefs.rigs
    BY DEF CheckedInv, Shape, RigsAgree
  <2>2. prefs'.rigs = With(uiConfig.rigs, r, a)
    BY <1>4, <2>1 DEF Config
  <2> QED
    BY <1>1, <2>1, <2>2 DEF With
<1>7. /\ rigs \subseteq ToSet(old)
      /\ ~dropped => Default \in ToSet(old)
      /\ \A x \in ToSet(old) : x = Default \/ x \in rigs \/ x \in doubled
      /\ selected \in ToSet(old) \/ (selected = Default /\ dropped)
  BY <1>1 DEF ListInv, RigsListed, SelectedListed, Listed
<1>8. \A x \in Rigs \ doubled' : Once(x, new)
  BY <1>2, <1>3, <1>5, Zenon
<1> QED
  BY <1>3, <1>4, <1>5, <1>6, <1>7, <1>8 DEF ListInv, RigsListed, SelectedListed, Listed

LEMMA ListShrinks ==
  ASSUME CheckedInv, ListInv, NEW r \in Names, RemoveRig(r)
  PROVE  ListInv'
<1>1. PICK old, new, rigs :
        old = available /\ new = RemoveFirst(available, r) /\ rigs = DOMAIN prefs.rigs
  OBVIOUS
<1>2. old \in Seq(Names) /\ \A x \in Rigs \ doubled : Once(x, old)
  BY <1>1 DEF ListInv
<1>3. /\ new \in Seq(Names) /\ ToSet(new) \subseteq ToSet(old)
      /\ ToSet(old) \ {r} \subseteq ToSet(new)
      /\ \A x : Once(x, old) => Once(x, new)
      /\ Once(r, old) => r \notin ToSet(new)
  BY <1>1, <1>2, ListReduced
<1>4. /\ available' = new /\ doubled' = doubled /\ dropped' = (dropped \/ r = Default)
      /\ selected' = IF selected = r THEN Default ELSE selected
      /\ prefs' = [prefs EXCEPT !.rigs = Without(uiConfig.rigs, r)]
  BY <1>1 DEF RemoveRig, AvailableAfterRemove, SelectedAfterRemove
<1>5. DOMAIN prefs'.rigs = rigs \ {r}
  <2>1. prefs \in Config /\ uiConfig.rigs = prefs.rigs
    BY DEF CheckedInv, Shape, RigsAgree
  <2>2. prefs'.rigs = Without(uiConfig.rigs, r)
    BY <1>4, <2>1 DEF Config
  <2> QED
    BY <1>1, <2>1, <2>2 DEF Without
<1>6. /\ rigs \subseteq ToSet(old)
      /\ ~dropped => Default \in ToSet(old)
      /\ \A x \in ToSet(old) : x = Default \/ x \in rigs \/ x \in doubled
      /\ selected \in ToSet(old) \/ (selected = Default /\ dropped)
  BY <1>1 DEF ListInv, RigsListed, SelectedListed, Listed
<1>7. r = Default \/ r \in doubled \/ r \notin ToSet(new)
  BY <1>2, <1>3 DEF Names
<1>8. RigsListed'
  BY <1>3, <1>4, <1>5, <1>6, <1>7 DEF RigsListed, Listed
<1>9. SelectedListed'
  BY <1>3, <1>4, <1>6 DEF SelectedListed, Listed
<1>10. \A x \in Rigs \ doubled' : Once(x, new)
  BY <1>2, <1>3, <1>4, Zenon
<1> QED
  BY <1>3, <1>4, <1>8, <1>9, <1>10 DEF ListInv

\* The edits of another field, and all that edits nothing.
LEMMA ListKept ==
  ASSUME ListInv, UNCHANGED <<available, doubled, dropped>>,
         DOMAIN prefs'.rigs = DOMAIN prefs.rigs,
         selected' = selected \/ selected' \in Listed
  PROVE  ListInv'
  BY DEF ListInv, RigsListed, SelectedListed, Listed

LEMMA ListStep ==
  ASSUME CheckedInv, ListInv, [Next]_vars
  PROVE  ListInv'
<1> USE DEF store, ui, history
<1>0. prefs \in Config /\ disk \in Config
  BY DEF CheckedInv, Shape
<1>1. CASE Import
  <2>1. PICK c \in Imported : prefs' = c /\ LoadSavedConfig(c)
    BY <1>1 DEF Import
  <2> QED
    BY <2>1, ImportAssumption, ListLoaded
<1>2. CASE ImportGarbage
  BY <1>0, <1>2, ListLoaded DEF ImportGarbage
<1>3. CASE Reopen
  BY <1>0, <1>3, ListLoaded DEF Reopen
<1>4. ASSUME NEW r \in Names, SelectRig(r) PROVE ListInv'
  BY <1>4, ListKept DEF SelectRig, Listed
<1>5. ASSUME NEW b \in BOOLEAN, ToggleSubaddress(b) \/ UpdatePool(b) PROVE ListInv'
  <2>1. CASE ToggleSubaddress(b)
    <3>1. prefs'.rigs = prefs.rigs
      BY <1>0, <2>1, FieldWritten DEF ToggleSubaddress
    <3> QED
      BY <2>1, <3>1, ListKept DEF ToggleSubaddress
  <2>2. CASE UpdatePool(b)
    BY <2>2, ListKept DEF UpdatePool
  <2> QED
    BY <1>5, <2>1, <2>2
<1>6. ASSUME NEW a \in Entered, UpdateMiningSubaddress(a) PROVE ListInv'
  <2>1. prefs'.rigs = prefs.rigs
    BY <1>0, <1>6, FieldWritten DEF UpdateMiningSubaddress
  <2> QED
    BY <1>6, <2>1, ListKept DEF UpdateMiningSubaddress
<1>7. ASSUME NEW a \in Entered, UpdateWallet(a) PROVE ListInv'
  BY <1>7, ListKept DEF UpdateWallet
<1>8. CASE StartMining
  <2>1. prefs'.rigs = prefs.rigs
    BY <1>0, <1>8 DEF StartMining, Config
  <2> QED
    BY <1>8, <2>1, ListKept DEF StartMining
<1>9. CASE StopMining \/ Flush \/ \E m \in Monitors : MonitorWakes(m)
  BY <1>9, ListKept DEF StopMining, Flush, MonitorWakes
<1>10. CASE UNCHANGED vars
  BY <1>10, ListKept DEF vars
<1> QED
  BY <1>1, <1>2, <1>3, <1>4, <1>5, <1>6, <1>7, <1>8, <1>9, <1>10, ListGrows, ListShrinks
     DEF Next

-----------------------------------------------------------------------------
(* The remaining types                                                     *)

BooleansOK == /\ isMining \in BOOLEAN /\ dropped \in BOOLEAN
              /\ sent.unusable \in BOOLEAN /\ typed \in BOOLEAN

PlacesOK ==
  /\ status \in {"Stopped", "Starting", "Mining"}
  /\ monitor \in [Monitors -> {"none", "delay", "over"}]
  /\ starts \in 0 .. MaxStarts /\ edits \in 0 .. MaxEdits
  /\ sent.wallet \in Entered
  /\ mainWallet \in Entered
  /\ doubled \subseteq Names

LEMMA BooleansStep ==
  ASSUME BooleansOK, [Next]_vars
  PROVE  BooleansOK'
<1> USE DEF BooleansOK, store, ui, history, LoadSavedConfig
<1>1. CASE Import \/ ImportGarbage \/ Reopen
  BY <1>1, Zenon DEF Import, ImportGarbage, Reopen
<1>2. ASSUME NEW r \in Names, SelectRig(r) PROVE BooleansOK'
  BY <1>2, Zenon DEF SelectRig
<1>3. ASSUME NEW b \in BOOLEAN, ToggleSubaddress(b) \/ UpdatePool(b) PROVE BooleansOK'
  BY <1>3, Zenon DEF ToggleSubaddress, UpdatePool
<1>4. ASSUME NEW a \in Entered, UpdateMiningSubaddress(a) PROVE BooleansOK'
  BY <1>4, Zenon DEF UpdateMiningSubaddress
<1>5. ASSUME NEW a \in Entered, UpdateWallet(a) PROVE BooleansOK'
  BY <1>5, Zenon DEF UpdateWallet
<1>6. ASSUME NEW a \in Entered, NEW r \in Names, AddRig(r, a) PROVE BooleansOK'
  BY <1>6, Zenon DEF AddRig
<1>7. ASSUME NEW r \in Names, RemoveRig(r) PROVE BooleansOK'
  BY <1>7, Zenon DEF RemoveRig
<1>8. CASE StartMining
  <2> DEFINE c == [prefs EXCEPT !.wallet = ActiveAddress, !.worker = WorkerName]
  <2>0. PICK w, u : w = c.wallet /\ u = (~c.pool /\ ~typed)
    OBVIOUS
  <2>1. u \in BOOLEAN /\ sent' = [wallet |-> w, unusable |-> u]
    BY <1>8, <2>0, Zenon DEF StartMining
  <2>2. isMining' = TRUE /\ dropped' = dropped /\ typed' = typed
    BY <1>8 DEF StartMining
  <2> QED
    BY <2>1, <2>2
<1>9. CASE StopMining \/ Flush
  BY <1>9, Zenon DEF StopMining, Flush
<1>10. ASSUME NEW m \in Monitors, MonitorWakes(m) PROVE BooleansOK'
  BY <1>10, Zenon DEF MonitorWakes
<1>11. CASE UNCHANGED vars
  BY <1>11, Zenon DEF vars
<1> QED
  BY <1>1, <1>2, <1>3, <1>4, <1>5, <1>6, <1>7, <1>8, <1>9, <1>10, <1>11 DEF Next

LEMMA PlacesStep ==
  ASSUME prefs \in Config, PlacesOK, [Next]_vars
  PROVE  PlacesOK'
<1> USE ConfigAssumption DEF PlacesOK, store, ui, history, Edit, Entered, LoadSavedConfig
<1>1. CASE Import
  <2>1. PICK c \in Imported : mainWallet' = c.wallet
    BY <1>1 DEF Import
  <2>2. mainWallet' \in Entered
    BY <2>1, ImportAssumption DEF Config
  <2> QED
    BY <1>1, <2>2 DEF Import
<1>2. CASE ImportGarbage
  BY <1>2 DEF ImportGarbage
<1>3. ASSUME NEW r \in Names, SelectRig(r) PROVE PlacesOK'
  BY <1>3 DEF SelectRig
<1>4. ASSUME NEW b \in BOOLEAN, ToggleSubaddress(b) \/ UpdatePool(b) PROVE PlacesOK'
  BY <1>4 DEF ToggleSubaddress, UpdatePool
<1>5. ASSUME NEW a \in Entered, UpdateMiningSubaddress(a) PROVE PlacesOK'
  BY <1>5 DEF UpdateMiningSubaddress
<1>6. ASSUME NEW a \in Entered, UpdateWallet(a) PROVE PlacesOK'
  BY <1>6 DEF UpdateWallet
<1>7. ASSUME NEW a \in Entered, NEW r \in Names, AddRig(r, a) PROVE PlacesOK'
  BY <1>7 DEF AddRig
<1>8. ASSUME NEW r \in Names, RemoveRig(r) PROVE PlacesOK'
  BY <1>8 DEF RemoveRig
<1>9. CASE StartMining
  <2>1. PICK w : w = ActiveAddress
    OBVIOUS
  <2>2. w \in Addresses
    BY <1>9, <2>1 DEF StartMining, AddressValid
  <2>3. sent'.wallet = [prefs EXCEPT !.wallet = w, !.worker = WorkerName].wallet
    BY <1>9, <2>1 DEF StartMining
  <2>4. [prefs EXCEPT !.wallet = w, !.worker = WorkerName].wallet = w
    BY DEF Config
  <2>5. /\ starts + 1 \in 1 .. MaxStarts /\ starts' = starts + 1 /\ status' = "Starting"
        /\ monitor' = [monitor EXCEPT ![starts + 1] = "delay"]
        /\ UNCHANGED <<mainWallet, doubled, edits>>
    BY <1>9 DEF StartMining
  <2>6. monitor' \in [Monitors -> {"none", "delay", "over"}]
    BY <2>5 DEF Monitors
  <2>7. starts' \in 0 .. MaxStarts
    BY <2>5
  <2> QED
    BY <2>2, <2>3, <2>4, <2>5, <2>6, <2>7
<1>10. CASE StopMining \/ Flush
  BY <1>10 DEF StopMining, Flush
<1>11. ASSUME NEW m \in Monitors, MonitorWakes(m) PROVE PlacesOK'
  BY <1>11 DEF MonitorWakes
<1>12. CASE Reopen
  BY <1>12 DEF Reopen
<1>13. CASE UNCHANGED vars
  BY <1>13 DEF vars
<1> QED
  BY <1>1, <1>2, <1>3, <1>4, <1>5, <1>6, <1>7, <1>8, <1>9, <1>10, <1>11, <1>12, <1>13 DEF Next

-----------------------------------------------------------------------------
(* The specification                                                       *)

LEMMA CheckedInit == Init => CheckedInv
  BY DefaultConfigType DEF Init, CheckedInv, Shape, RigsAgree, SentValid, Names

LEMMA CheckedNext == CheckedInv /\ [Next]_vars => CheckedInv'
<1> SUFFICES ASSUME CheckedInv, [Next]_vars PROVE CheckedInv'
  OBVIOUS
<1>1. CASE Import
  <2>1. PICK c \in Imported : prefs' = c /\ LoadSavedConfig(c)
    BY <1>1 DEF Import
  <2>2. c \in Config /\ disk' = disk /\ UNCHANGED <<starts, sent>>
    BY <2>1, <1>1, ImportAssumption DEF Import
  <2> QED
    BY <2>1, <2>2, Loaded
<1>2. CASE ImportGarbage
  BY <1>2, Loaded DEF ImportGarbage, store, CheckedInv, Shape
<1>3. CASE Reopen
  BY <1>3, Loaded DEF Reopen, CheckedInv, Shape
<1>4. CASE StartMining
  BY <1>4, StartChecked
<1>5. CASE \/ \E b \in BOOLEAN : ToggleSubaddress(b) \/ UpdatePool(b)
           \/ \E a \in Entered : UpdateMiningSubaddress(a) \/ UpdateWallet(a)
  BY <1>5, EditKeeps
<1>6. CASE \/ \E r \in Names, a \in Entered : AddRig(r, a)
           \/ \E r \in Names : RemoveRig(r)
  BY <1>6, RigsKeep
<1>7. CASE \/ \E r \in Names : SelectRig(r)
           \/ StopMining \/ Flush \/ \E m \in Monitors : MonitorWakes(m)
           \/ UNCHANGED vars
  BY <1>7, OthersKeep
<1> QED
  BY <1>1, <1>2, <1>3, <1>4, <1>5, <1>6, <1>7 DEF Next

\* The service only gets an address that passed the check, and a pool that did
\* unless another was typed over it.
THEOREM SentIsValid == Spec => []SentValid
<1>1. CheckedInv => SentValid
  BY DEF CheckedInv
<1> QED
  BY <1>1, CheckedInit, CheckedNext, PTL DEF Spec

\* The settings that are shown and the stored ones never drift apart.
THEOREM CopiesAgree == Spec => []RigsAgree
<1>1. CheckedInv => RigsAgree
  BY DEF CheckedInv
<1> QED
  BY <1>1, CheckedInit, CheckedNext, PTL DEF Spec

RigInv == CheckedInv /\ ListInv /\ BooleansOK /\ PlacesOK

LEMMA RigInit == Init => RigInv
<1> SUFFICES ASSUME Init PROVE RigInv
  OBVIOUS
<1>1. PICK names : names = GetRigNames(DefaultConfig)
  OBVIOUS
<1>2. /\ names \in Seq(Names) /\ \A r \in Rigs : Once(r, names)
      /\ ToSet(names) = {Default} \cup DOMAIN DefaultConfig.rigs
  BY <1>1, DefaultConfigType, NamesOfConfig
<1>3. available = names /\ selected = Default /\ prefs = DefaultConfig
  BY <1>1 DEF Init
<1>4. ListInv
  BY <1>2, <1>3 DEF ListInv, RigsListed, SelectedListed, Listed
<1>5. BooleansOK
  BY Zenon DEF Init, BooleansOK, NoStart
<1>6. PlacesOK
  BY ConfigAssumption DEF Init, PlacesOK, NoStart, Entered
<1> QED
  BY <1>4, <1>5, <1>6, CheckedInit DEF RigInv

LEMMA AlwaysRigInv == Spec => []RigInv
<1>1. RigInv /\ [Next]_vars => RigInv'
  BY CheckedNext, ListStep, BooleansStep, PlacesStep DEF RigInv, CheckedInv, Shape
<1> QED
  BY <1>1, RigInit, PTL DEF Spec

\* Every config, name and address is one the user can have entered, however
\* lists, maps and the selection are edited.
THEOREM TypeCorrect == Spec => []TypeOK
<1>1. ASSUME RigInv PROVE TypeOK
  <2>1. /\ prefs \in Config /\ disk \in Config /\ uiConfig \in Config
        /\ selected \in Names /\ available \in Seq(Names)
    BY <1>1 DEF RigInv, CheckedInv, Shape, ListInv
  <2>2. {isMining, dropped} \subseteq BOOLEAN /\ {sent.unusable, typed} \subseteq BOOLEAN
    BY <1>1, Zenon DEF RigInv, BooleansOK
  <2> QED
    BY <1>1, <2>1, <2>2 DEF RigInv, PlacesOK, TypeOK
<1> QED
  BY <1>1, AlwaysRigInv, PTL

\* The list, the selection, the shown settings and the stored ones remain one
\* account of who is paid for which rig, for any names, "default" included: but
\* for a "default" that was removed and the names that were doubled.
THEOREM RigsAreConsistent == Spec => []RigsConsistent
<1>1. RigInv => RigsConsistent
  BY DEF RigInv, CheckedInv, ListInv, RigsConsistent
<1> QED
  BY <1>1, AlwaysRigInv, PTL

=============================================================================
