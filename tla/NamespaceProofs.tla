-------------------------- MODULE NamespaceProofs --------------------------
(***************************************************************************)
(* Proofs about the names of phantoms and the ShadowWorkloads of one       *)
(* namespace, for every set of names and every hash.                       *)
(***************************************************************************)
EXTENDS Namespace, SequenceTheorems, TLAPS

(***************************************************************************)
(* Shortened names.                                                        *)
(***************************************************************************)
LEMMA Sizes ==
  ASSUME NEW n \in Names
  PROVE  /\ Prefix \in Seq(Chars) /\ n \in Seq(Chars) /\ Hash[n] \in Seq(Letters)
         /\ Len(Prefix) \in Nat /\ Len(n) \in Nat /\ Len(Hash[n]) \in Nat
         /\ Len(Full(n)) = Len(Prefix) + Len(n)
         /\ keep(n) \in Nat /\ MaxPodNameLength \in Nat
<1>1. Prefix \in Seq(Chars) /\ n \in Seq(Chars) /\ Hash[n] \in Seq(Letters)
  BY PrefixAssumption, NamesAssumption, HashAssumption
<1>2. Len(Prefix) \in Nat /\ Len(n) \in Nat /\ Len(Hash[n]) \in Nat
  BY <1>1, LenProperties
<1>3. Len(Full(n)) = Len(Prefix) + Len(n)
  BY <1>1, ConcatProperties DEF Full
<1>4. keep(n) \in Nat /\ MaxPodNameLength \in Nat
  BY <1>2, HashAssumption, LimitsAssumption DEF keep
<1> QED
  BY <1>1, <1>2, <1>3, <1>4

(* Length and elements of a concatenation.                                 *)
LEMMA Concat ==
  ASSUME NEW S, NEW u \in Seq(S), NEW v \in Seq(S), NEW p \in Nat, NEW q \in Nat,
         p = Len(u), q = Len(v), NEW w, w = u \o v
  PROVE  /\ w \in Seq(S) /\ Len(w) = p + q
         /\ \A i \in 1 .. p : w[i] = u[i]
         /\ \A i \in 1 .. q : w[p + i] = v[i]
<1>1. /\ u \o v \in Seq(S) /\ Len(u \o v) = Len(u) + Len(v)
      /\ \A i \in 1 .. Len(u) + Len(v) :
           (u \o v)[i] = IF i <= Len(u) THEN u[i] ELSE v[i - Len(u)]
  BY ConcatProperties
<1>2. w \in Seq(S) /\ Len(w) = p + q
  BY <1>1, Zenon
<1>3. \A i \in 1 .. p + q : w[i] = IF i <= p THEN u[i] ELSE v[i - p]
  BY <1>1, Zenon
<1>4. ASSUME NEW i \in 1 .. p
      PROVE  w[i] = u[i]
  <2>1. i \in 1 .. p + q /\ i <= p
    OBVIOUS
  <2> QED
    BY <1>3, <2>1, Zenon
<1>5. ASSUME NEW i \in 1 .. q
      PROVE  w[p + i] = v[i]
  <2>1. PICK j \in 1 .. p + q : j = p + i /\ ~(j <= p) /\ j - p = i
    <3>1. p + i \in 1 .. p + q /\ ~(p + i <= p) /\ p + i - p = i
      OBVIOUS
    <3> QED
      BY <3>1
  <2>2. w[j] = v[j - p]
    BY <1>3, <2>1, Zenon
  <2> QED
    BY <2>1, <2>2
<1> QED
  BY <1>2, <1>4, <1>5

(* A shortened name has exactly the greatest length, its last hyphen       *)
(* stands before the hash, and the hash is its end.                        *)
LEMMA CutShape ==
  ASSUME NEW n \in Names, TooLong(n)
  PROVE  LET dash == MaxPodNameLength - Len(Hash[n])
         IN  /\ Len(Cut(n)) = MaxPodNameLength
             /\ dash \in Nat /\ Cut(n)[dash] = "-"
             /\ \A i \in 1 .. Len(Hash[n]) : Cut(n)[dash + i] = Hash[n][i]
<1>1. PICK p \in Nat, h \in Nat, k \in Nat, l \in Nat :
        /\ p = Len(Prefix) /\ h = Len(Hash[n]) /\ k = keep(n) /\ l = Len(n)
        /\ Len(Full(n)) = p + l
  BY Sizes
<1>2. MaxPodNameLength \in Nat /\ k = MaxPodNameLength - p - h - 1
  BY <1>1, Sizes DEF keep
<1>2a. p + l > MaxPodNameLength
  BY <1>1 DEF TooLong
<1>3. k <= l /\ MaxPodNameLength - h = p + k + 1
  BY <1>2, <1>2a
<1>4. PICK kept \in Seq(Chars) : kept = SubSeq(n, 1, k) /\ Len(kept) = k
  <2>1. \A i \in 1 .. k : n[i] \in Chars
    BY <1>1, <1>3, Sizes, ElementOfSeq
  <2>2. /\ SubSeq(n, 1, k) \in Seq(Chars)
        /\ Len(SubSeq(n, 1, k)) = IF 1 <= k THEN k - 1 + 1 ELSE 0
    BY <2>1, SubSeqProperties
  <2>3. (IF 1 <= k THEN k - 1 + 1 ELSE 0) = k
    OBVIOUS
  <2> QED
    BY <2>2, <2>3, Zenon
<1>5. Prefix \in Seq(Chars) /\ "-" \in Chars
  BY Sizes DEF Chars
<1>6. Hash[n] \in Seq(Chars)
  BY Sizes, SeqMonotonic DEF Chars
<1>7. Cut(n) = Prefix \o kept \o <<"-">> \o Hash[n]
  BY <1>1, <1>4 DEF Cut
<1>8. /\ Len(Cut(n)) = p + k + 1 + h
      /\ Cut(n)[p + k + 1] = "-"
      /\ \A i \in 1 .. h : Cut(n)[p + k + 1 + i] = Hash[n][i]
  <2>1. PICK a : a = Prefix \o kept
    OBVIOUS
  <2>2. a \in Seq(Chars) /\ Len(a) = p + k /\ p + k \in Nat
    BY <1>1, <1>4, <1>5, <2>1, Concat
  <2>3. <<"-">> \in Seq(Chars) /\ Len(<<"-">>) = 1 /\ <<"-">>[1] = "-"
    BY <1>5
  <2>4. PICK b : b = a \o <<"-">>
    OBVIOUS
  <2>5. /\ b \in Seq(Chars) /\ Len(b) = p + k + 1
        /\ \A i \in 1 .. 1 : b[p + k + i] = <<"-">>[i]
    BY <2>2, <2>3, <2>4, Concat
  <2>6. b[p + k + 1] = "-"
    BY <2>3, <2>5
  <2>7. Cut(n) = b \o Hash[n]
    BY <1>7, <2>1, <2>4
  <2>8. PICK d \in Nat : d = p + k + 1 /\ d \in 1 .. d
    OBVIOUS
  <2>9. /\ Len(Cut(n)) = d + h
        /\ \A i \in 1 .. d : Cut(n)[i] = b[i]
        /\ \A i \in 1 .. h : Cut(n)[d + i] = Hash[n][i]
    <3>1. d = Len(b) /\ b \in Seq(Chars)
      BY <2>5, <2>8
    <3>2. h = Len(Hash[n]) /\ Hash[n] \in Seq(Chars)
      BY <1>1, <1>6
    <3> QED
      BY <2>7, <3>1, <3>2, Concat
  <2> QED
    BY <2>6, <2>8, <2>9, Zenon
<1>9. p + k + 1 + h = MaxPodNameLength /\ MaxPodNameLength - h \in Nat
  BY <1>2, <1>3
<1> QED
  BY <1>1, <1>3, <1>8, <1>9, Zenon

(* No phantom name is longer than the limit, whatever the name and hash.   *)
(* (phantom.go:70-82)                                                      *)
THEOREM PhantomNameFits ==
  \A n \in Names : Len(PhantomName(n)) <= MaxPodNameLength
<1> SUFFICES ASSUME NEW n \in Names PROVE Len(PhantomName(n)) <= MaxPodNameLength
  OBVIOUS
<1>1. CASE TooLong(n)
  BY <1>1, CutShape, Sizes DEF PhantomName
<1>2. CASE ~TooLong(n)
  BY <1>2, Sizes DEF PhantomName, TooLong
<1> QED
  BY <1>1, <1>2

(* The hash of a shortened name can be read off it: a letter never meets   *)
(* the hyphen of a shorter hash.                                           *)
LEMMA CutInjective ==
  ASSUME NEW m \in Names, NEW n \in Names, TooLong(m), TooLong(n), Cut(m) = Cut(n)
  PROVE  Hash[m] = Hash[n]
<1>1. /\ Len(Hash[m]) \in Nat /\ Len(Hash[n]) \in Nat
      /\ Hash[m] \in Seq(Letters) /\ Hash[n] \in Seq(Letters)
  BY Sizes
<1>2. ASSUME NEW a \in Names, NEW b \in Names, TooLong(a), TooLong(b), Cut(a) = Cut(b),
             Len(Hash[a]) < Len(Hash[b])
      PROVE  FALSE
  <2>1. PICK x \in Nat, y \in Nat, l \in Nat :
          x = Len(Hash[a]) /\ y = Len(Hash[b]) /\ l = MaxPodNameLength
    BY Sizes, LimitsAssumption
  <2>2. x < y
    BY <1>2, <2>1
  <2>3. PICK i \in 1 .. y : l - y + i = l - x
    <3>1. y - x \in 1 .. y /\ l - y + (y - x) = l - x
      BY <2>2
    <3> QED
      BY <3>1
  <2>4. Cut(a)[l - x] = "-"
    BY <1>2, <2>1, CutShape
  <2>5. Cut(b)[l - y + i] = Hash[b][i]
    BY <1>2, <2>1, CutShape
  <2>6. Hash[b][i] \in Letters
    BY <2>1, Sizes, ElementOfSeq
  <2> QED
    BY <1>2, <2>3, <2>4, <2>5, <2>6, LettersAssumption
<1>3. Len(Hash[m]) = Len(Hash[n])
  BY <1>1, <1>2
<1>4. \A i \in 1 .. Len(Hash[m]) : Hash[m][i] = Hash[n][i]
  BY <1>3, CutShape
<1> QED
  BY <1>1, <1>3, <1>4, SeqEqual

(* Names of one phantom either collide in the hash, or one of them is the  *)
(* shortened form of the other, or they are the same.                      *)
LEMMA SharedName ==
  ASSUME NEW m \in Names, NEW n \in Names, m # n, PhantomName(m) = PhantomName(n)
  PROVE  \/ TooLong(m) /\ TooLong(n) /\ Hash[m] = Hash[n]
         \/ TooLong(m) /\ Full(n) = Cut(m)
         \/ TooLong(n) /\ Full(m) = Cut(n)
<1>1. CASE TooLong(m) /\ TooLong(n)
  BY <1>1, CutInjective DEF PhantomName
<1>2. CASE TooLong(m) /\ ~TooLong(n)
  BY <1>2 DEF PhantomName
<1>3. CASE ~TooLong(m) /\ TooLong(n)
  BY <1>3 DEF PhantomName
<1>4. CASE ~TooLong(m) /\ ~TooLong(n)
  <2>1. Prefix \o m = Prefix \o n
    BY <1>4 DEF PhantomName, Full
  <2>2. Prefix \in Seq(Chars) /\ m \in Seq(Chars) /\ n \in Seq(Chars)
    BY Sizes
  <2>3. \A r, t, v \in Seq(Chars) : r \o t = r \o v => t = v
    BY ConcatSimplifications
  <2>4. m = n
    BY <2>1, <2>2, <2>3
  <2> QED
    BY <2>4
<1> QED
  BY <1>1, <1>2, <1>3, <1>4

(* Two ShadowWorkloads of one namespace meet in one phantom only through a *)
(* collision of hashes or a name that spells the other's shortened form.   *)
THEOREM NamesApartAlways == Spec => []NamesApart
<1>1. NamesApart
  BY SharedName DEF NamesApart, Rivals
<1> QED
  BY <1>1, PTL

(***************************************************************************)
(* One reservation for one ShadowWorkload.                                 *)
(***************************************************************************)
UniqueUids ==
  \A m, n \in Names : m # n /\ sws[m] # 0 => sws[m] # sws[n]

(* A Ready report is backed by the phantom of the present object, unless   *)
(* that has been deleted since.                                            *)
ReadyHolds ==
  \A n \in Names : reports[n] = "Ready" => sws[n] # 0 /\ (ownedBySw(n) \/ n \in lost)

NamespaceInv == NamespaceTypeOK /\ UniqueUids /\ ReadyHolds

(* The invariant holds before anything is created.                         *)
LEMMA NamespaceInit == Init => NamespaceInv
  BY UidsAssumption
     DEF Init, NamespaceInv, NamespaceTypeOK, UniqueUids, ReadyHolds, Reports, Pods

(* Every name has a phantom name, and no pod no owner.                     *)
LEMMA PhantomNameIn ==
  /\ \A n \in Names : PhantomName(n) \in PhantomNames
  /\ NoPod.owner = 0 /\ NoPod \in Pods
  /\ \A u \in Uids : Phantom(u).owner = u /\ Phantom(u) \in Pods
BY DEF PhantomNames, NoPod, Pods, Phantom

(* What a Put does to the pods under each name.                            *)
LEMMA PutPods ==
  ASSUME NamespaceTypeOK, NEW n \in Names, NEW pod \in Pods, Put(n, pod)
  PROVE  /\ pods' \in [PhantomNames -> Pods]
         /\ \A q \in PhantomNames : pods'[q] = IF q = PhantomName(n) THEN pod ELSE pods[q]
BY PhantomNameIn DEF Put, NamespaceTypeOK

(* A branch of a pass that leaves the pod of its ShadowWorkload, or puts   *)
(* one where none was, takes no phantom from another.                      *)
LEMMA OthersKeep ==
  ASSUME NamespaceInv, NEW n \in Names, sws[n] # 0, UNCHANGED sws,
         Create(n) \/ Repin(n) \/ UNCHANGED pods,
         NEW m \in Names, sws[m] # 0, ownedBySw(m), m # n \/ Create(n) \/ UNCHANGED pods
  PROVE  ownedBySw(m)'
<1> USE DEF NamespaceInv
<1>1. PhantomName(m) \in PhantomNames /\ PhantomName(n) \in PhantomNames
  BY PhantomNameIn
<1>2. CASE UNCHANGED pods
  BY <1>2 DEF ownedBySw, Holder
<1>3. CASE Create(n)
  <2>1. PhantomName(m) # PhantomName(n)
    BY <1>3, PhantomNameIn DEF Create, ownedBySw, Holder
  <2>2. sws[n] \in Uids /\ Put(n, Phantom(sws[n]))
    BY <1>3 DEF Create, NamespaceTypeOK
  <2>3. pods'[PhantomName(m)] = pods[PhantomName(m)]
    BY <1>1, <2>1, <2>2, PhantomNameIn, PutPods
  <2> QED
    BY <2>3 DEF ownedBySw, Holder
<1>4. CASE Repin(n) /\ m # n
  <2>1. PhantomName(m) # PhantomName(n)
    BY <1>4 DEF Repin, Observed, ownedBySw, Holder, UniqueUids
  <2>2. pods'[PhantomName(m)] = pods[PhantomName(m)]
    BY <1>1, <1>4, <2>1, PhantomNameIn, PutPods DEF Repin
  <2> QED
    BY <2>2 DEF ownedBySw, Holder
<1> QED
  BY <1>2, <1>3, <1>4

(* Every branch leaves pods.                                               *)
LEMMA PodsType ==
  ASSUME NamespaceTypeOK, NEW n \in Names, sws[n] # 0,
         Create(n) \/ Repin(n) \/ Recover(n) \/ UNCHANGED pods
  PROVE  pods' \in [PhantomNames -> Pods]
<1>1. sws[n] \in Uids
  BY DEF NamespaceTypeOK
<1>2. CASE Create(n) \/ Repin(n) \/ Recover(n)
  BY <1>1, <1>2, PhantomNameIn, PutPods DEF Create, Repin, Recover
<1> QED
  BY <1>2 DEF NamespaceTypeOK

(* A pass that reports, reports Ready only while it holds the phantom.     *)
LEMMA ReportStep ==
  ASSUME NamespaceInv, NEW n \in Names, sws[n] # 0, UNCHANGED <<sws, calm>>,
         NEW r \in Reports, Report(n, r),
         Create(n) \/ Repin(n) \/ UNCHANGED pods,
         r = "Ready" => Create(n) \/ (Observed(n) /\ UNCHANGED pods)
  PROVE  NamespaceInv'
<1> USE DEF NamespaceInv
<1>1. \A m \in Names : reports'[m] = IF m = n THEN r ELSE reports[m]
  BY DEF NamespaceTypeOK, Report
<1>2. NamespaceTypeOK'
  BY PodsType DEF NamespaceTypeOK, Report
<1>3. UniqueUids'
  BY DEF UniqueUids
<1>4. ASSUME NEW m \in Names, reports'[m] = "Ready"
      PROVE  sws'[m] # 0 /\ (ownedBySw(m)' \/ m \in lost')
  <2>1. CASE m # n
    <3>1. sws[m] # 0 /\ (ownedBySw(m) \/ m \in lost)
      BY <1>1, <1>4, <2>1 DEF ReadyHolds
    <3>2. m \in lost => m \in lost'
      BY <2>1 DEF Report
    <3>3. ownedBySw(m) => ownedBySw(m)'
      BY <2>1, <3>1, OthersKeep
    <3> QED
      BY <3>1, <3>2, <3>3
  <2>2. CASE m = n
    <3>1. CASE Create(n)
      <4>1. sws[n] \in Uids /\ Put(n, Phantom(sws[n]))
        BY <3>1 DEF Create, NamespaceTypeOK
      <4>2. pods'[PhantomName(n)] = Phantom(sws[n])
        BY <4>1, PhantomNameIn, PutPods
      <4> QED
        BY <2>2, <4>1, <4>2, PhantomNameIn DEF ownedBySw, Holder
    <3>2. CASE Observed(n) /\ UNCHANGED pods
      BY <2>2, <3>2 DEF Observed, ownedBySw, Holder
    <3> QED
      BY <1>1, <1>4, <2>2, <3>1, <3>2
  <2> QED
    BY <2>1, <2>2
<1> QED
  BY <1>2, <1>3, <1>4 DEF ReadyHolds

(* A pass without a report leaves behind whoever lost the phantom by it.   *)
LEMMA UnreportedStep ==
  ASSUME NamespaceInv, NEW n \in Names, sws[n] # 0, UNCHANGED <<sws, calm>>,
         Unreported(n), Create(n) \/ Repin(n) \/ Recover(n)
  PROVE  NamespaceInv'
<1> USE DEF NamespaceInv
<1>1. NamespaceTypeOK'
  BY PodsType DEF NamespaceTypeOK, Unreported, Bereft
<1>2. UniqueUids'
  BY DEF UniqueUids
<1>3. ASSUME NEW m \in Names, reports'[m] = "Ready"
      PROVE  sws'[m] # 0 /\ (ownedBySw(m)' \/ m \in lost')
  <2>1. reports[m] = "Ready" /\ sws[m] # 0 /\ (ownedBySw(m) \/ m \in lost)
    BY <1>3 DEF Unreported, ReadyHolds
  <2>2. m \in lost => m \in lost'
    BY DEF Unreported
  <2>3. ASSUME ownedBySw(m)
        PROVE  ownedBySw(m)' \/ m \in lost'
    <3>1. CASE Create(n)
      BY <2>1, <2>3, <3>1, OthersKeep
    <3>2. CASE Repin(n) \/ Recover(n)
      <4>1. Put(n, NoPod)
        BY <3>2 DEF Repin, Recover
      <4>2. \A q \in PhantomNames : pods'[q] = IF q = PhantomName(n) THEN NoPod ELSE pods[q]
        BY <4>1, PhantomNameIn, PutPods
      <4>3. CASE PhantomName(m) = PhantomName(n)
        BY <2>1, <2>3, <4>2, <4>3, PhantomNameIn DEF Unreported, Bereft, ownedBySw, Holder
      <4>4. CASE PhantomName(m) # PhantomName(n)
        BY <2>3, <4>2, <4>4, PhantomNameIn DEF ownedBySw, Holder
      <4> QED
        BY <4>3, <4>4
    <3> QED
      BY <3>1, <3>2
  <2> QED
    BY <2>1, <2>2, <2>3
<1> QED
  BY <1>1, <1>2, <1>3 DEF ReadyHolds

(* Every pass keeps the invariant.                                         *)
LEMMA PassStep ==
  ASSUME NamespaceInv, NEW n \in Names,
         EnsurePhantom(n) \/ DegradedPass(n) \/ UnreportedPass(n)
  PROVE  NamespaceInv'
<1>1. sws[n] # 0 /\ UNCHANGED <<sws, calm>>
  BY DEF EnsurePhantom, DegradedPass, UnreportedPass, Polled
<1>2. "Ready" \in Reports /\ "Degraded" \in Reports /\ "Degraded" # "Ready"
  BY DEF Reports
<1>3. CASE (Create(n) \/ Keep(n)) /\ Report(n, "Ready")
  BY <1>1, <1>2, <1>3, ReportStep DEF Keep
<1>4. CASE (Conflict(n) \/ Repin(n)) /\ Report(n, "Degraded")
  BY <1>1, <1>2, <1>4, ReportStep DEF Conflict
<1>5. CASE Recover(n) /\ Unreported(n)
  BY <1>1, <1>5, UnreportedStep
<1>6. CASE DegradedPass(n)
  BY <1>1, <1>2, <1>6, ReportStep DEF DegradedPass
<1>7. CASE UnreportedPass(n)
  BY <1>1, <1>7, UnreportedStep DEF UnreportedPass
<1> QED
  BY <1>3, <1>4, <1>5, <1>6, <1>7 DEF EnsurePhantom

(* Creation takes a fresh identity, deletion forgets the report.           *)
LEMMA UserStep ==
  ASSUME NamespaceInv, NEW n \in Names, CreateSW(n) \/ DeleteSW(n)
  PROVE  NamespaceInv'
<1> USE DEF NamespaceInv
<1>1. PICK u \in Uids \cup {0} :
        /\ sws' = [sws EXCEPT ![n] = u]
        /\ u # 0 => \A m \in Names : sws[m] # u
  BY DEF CreateSW, DeleteSW, Fresh, Used
<1>2. Report(n, "none") /\ UNCHANGED <<pods, calm>>
  BY DEF CreateSW, DeleteSW
<1>3. \A m \in Names : sws'[m] = IF m = n THEN u ELSE sws[m]
  BY <1>1 DEF NamespaceTypeOK
<1>4. \A m \in Names : reports'[m] = IF m = n THEN "none" ELSE reports[m]
  BY <1>2 DEF NamespaceTypeOK, Report
<1>5. NamespaceTypeOK'
  BY <1>1, <1>2 DEF NamespaceTypeOK, Report, Reports
<1>6. UniqueUids'
  BY <1>1, <1>3 DEF UniqueUids
<1>7. \A m \in Names : m # n /\ m \in lost => m \in lost'
  BY <1>2 DEF Report
<1>8. ReadyHolds'
  BY <1>2, <1>3, <1>4, <1>7 DEF ReadyHolds, ownedBySw, Holder
<1> QED
  BY <1>5, <1>6, <1>8

(* Edits of a node or of a label change no owner.                          *)
LEMMA EditStep ==
  ASSUME NamespaceInv,
         (\E n \in Names : EditNode(n)) \/ (\E p \in PhantomNames : EditLabels(p))
  PROVE  NamespaceInv'
<1> USE DEF NamespaceInv
<1>1. UNCHANGED <<sws, reports, lost, calm>>
  BY DEF EditNode, EditLabels
<1>2. PICK p \in PhantomNames, b \in BOOLEAN :
        /\ pods[p] # NoPod
        /\ \/ pods' = [pods EXCEPT ![p] = [pods[p] EXCEPT !.pinned = b]]
           \/ pods' = [pods EXCEPT ![p] = [pods[p] EXCEPT !.labelled = b]]
  <2>1. CASE \E n \in Names : EditNode(n)
    <3>1. PICK n \in Names : EditNode(n)
      BY <2>1
    <3>2. pods[PhantomName(n)] \in Pods /\ pods[PhantomName(n)] # NoPod
      BY <3>1, PhantomNameIn DEF EditNode, ownedBySw, Holder, NamespaceTypeOK
    <3>3. (~pods[PhantomName(n)].pinned) \in BOOLEAN
      OBVIOUS
    <3> QED
      BY <3>1, <3>2, <3>3, PhantomNameIn DEF EditNode, Put, Holder
  <2>2. CASE \E p \in PhantomNames : EditLabels(p)
    BY <2>2 DEF EditLabels
  <2> QED
    BY <2>1, <2>2
<1>3. pods[p] \in [owner : Uids, labelled : BOOLEAN, pinned : BOOLEAN]
  BY <1>2 DEF NamespaceTypeOK, Pods
<1>4. /\ pods' \in [PhantomNames -> Pods]
      /\ \A q \in PhantomNames : pods'[q].owner = pods[q].owner
  BY <1>2, <1>3 DEF NamespaceTypeOK, Pods
<1>5. NamespaceTypeOK' /\ UniqueUids'
  BY <1>1, <1>4 DEF NamespaceTypeOK, UniqueUids
<1>6. ReadyHolds'
  BY <1>1, <1>4, PhantomNameIn DEF ReadyHolds, ownedBySw, Holder
<1> QED
  BY <1>5, <1>6

(* A pod that goes takes the backing of a report with it only if that is   *)
(* noted, or if no ShadowWorkload has its owner's identity.                *)
LEMMA GoneStep ==
  ASSUME NamespaceInv, NEW p \in PhantomNames, DeletePod(p) \/ CollectGarbage(p)
  PROVE  NamespaceInv'
<1> USE DEF NamespaceInv
<1>1. UNCHANGED <<sws, reports, calm>> /\ pods' = [pods EXCEPT ![p] = NoPod]
  BY DEF DeletePod, CollectGarbage
<1>2. \A q \in PhantomNames : pods'[q] = IF q = p THEN NoPod ELSE pods[q]
  BY <1>1 DEF NamespaceTypeOK
<1>3. lost \subseteq lost' /\ lost' \subseteq Names
  BY DEF DeletePod, CollectGarbage, Bereft, NamespaceTypeOK
<1>4. NamespaceTypeOK' /\ UniqueUids'
  BY <1>1, <1>3, PhantomNameIn DEF NamespaceTypeOK, UniqueUids
<1>5. \A n \in Names :
        reports[n] = "Ready" /\ ownedBySw(n) /\ PhantomName(n) = p => n \in lost'
  BY DEF DeletePod, CollectGarbage, Bereft, Live, ownedBySw, Holder
<1>6. ReadyHolds'
  BY <1>1, <1>2, <1>3, <1>5, PhantomNameIn DEF ReadyHolds, ownedBySw, Holder
<1> QED
  BY <1>4, <1>6

(* Every step keeps the invariant.                                         *)
LEMMA NamespaceStep == NamespaceInv /\ [Next]_vars => NamespaceInv'
<1> SUFFICES ASSUME NamespaceInv, [Next]_vars PROVE NamespaceInv'
  OBVIOUS
<1>1. CASE \E n \in Names : EnsurePhantom(n) \/ DegradedPass(n) \/ UnreportedPass(n)
  BY <1>1, PassStep
<1>2. CASE \E n \in Names : CreateSW(n) \/ DeleteSW(n)
  BY <1>2, UserStep
<1>3. CASE (\E n \in Names : EditNode(n)) \/ (\E p \in PhantomNames : EditLabels(p))
  BY <1>3, EditStep
<1>4. CASE \E p \in PhantomNames : DeletePod(p) \/ CollectGarbage(p)
  BY <1>4, GoneStep
<1>5. CASE CalmDown \/ UNCHANGED vars
  BY <1>5 DEF CalmDown, vars, NamespaceInv, NamespaceTypeOK, UniqueUids, ReadyHolds,
              ownedBySw, Holder
<1> QED
  BY <1>1, <1>2, <1>3, <1>4, <1>5 DEF Next

(* Two ShadowWorkloads that share a phantom are never both Ready, unless   *)
(* one of the reports is older than the loss of its phantom: through       *)
(* failures, deletions by others, label recovery and node changes.         *)
THEOREM OneReservationEachAlways == Spec => []OneReservationEach
<1>1. NamespaceInv => OneReservationEach
  BY DEF NamespaceInv, ReadyHolds, UniqueUids, ownedBySw, Holder, OneReservationEach,
         Rivals, BothReady
<1> QED
  BY NamespaceInit, NamespaceStep, <1>1, PTL DEF Spec
=============================================================================
