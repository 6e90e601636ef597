-------------------------- MODULE Sam3TrackerProofs --------------------------
(***************************************************************************)
(* What Sam3Tracker does for every number of frames, objects and things,   *)
(* every size of the banks and every delay: the banks stay in order, fresh *)
(* ids have no past, nobody is overdue, nothing is reported twice, and what *)
(* is lost stays lost.                                                     *)
(***************************************************************************)
EXTENDS Sam3Tracker, SequenceTheorems, FiniteSetTheorems, TLAPS

(* A memory bank before frame fi, and a pointer bank after frame last. *)

GoodBank(bank, fi) ==
    /\ bank \in Seq(Slots)
    /\ Len(bank) <= NumMaskmem
    /\ \A i \in 1..Len(bank) : bank[i].is_cond_frame <=> i = 1
    /\ \A i, j \in 1..Len(bank) :
           i < j => bank[i].frame < bank[j].frame \/ TwiceFrameZero(bank, i, j)
    /\ \A i \in 1..Len(bank) : bank[i].frame < fi \/ (i = 1 /\ bank[i].frame = 0)

GoodPtrs(ptrs, last) ==
    /\ ptrs \in Seq(0..MaxFrames)
    /\ Len(ptrs) <= MaxObjPtrs
    /\ \A i, j \in 1..Len(ptrs) : i < j => ptrs[i] <= ptrs[j]
    /\ \A i \in 1..Len(ptrs) : ptrs[i] <= last

-----------------------------------------------------------------------------
(* The operators on banks. *)

\* Without its second element a sequence is one shorter, and the rest move up:
\* the erase at position 1 that sam3_encode_memory falls back to.
LEMMA DropSecond ==
    ASSUME NEW S, NEW b \in Seq(S), NEW n \in Nat, Len(b) = n, n >= 2
    PROVE  /\ DropAt(b, 2) \in Seq(S)
           /\ Len(DropAt(b, 2)) = n - 1
           /\ \A i \in 1..(n - 1) : DropAt(b, 2)[i] = IF i = 1 THEN b[1] ELSE b[i + 1]
<1>0. \A i \in 1..n : b[i] \in S
  BY ElementOfSeq
<1>s. PICK s : s = SubSeq(b, 1, 1)
  OBVIOUS
<1>r. PICK r : r = SubSeq(b, 3, n)
  OBVIOUS
<1>d. PICK d : d = s \o r
  OBVIOUS
<1>1. s \in Seq(S) /\ Len(s) = 1 /\ s[1] = b[1]
  BY <1>0, <1>s, SubSeqProperties
<1>2. /\ r \in Seq(S) /\ Len(r) = n - 2
      /\ \A i \in 1..(n - 2) : r[i] = b[i + 2]
  <2>1. \A i \in 3..n : b[i] \in S
    BY <1>0
  <2>2. /\ r \in Seq(S)
        /\ Len(r) = IF 3 <= n THEN n - 3 + 1 ELSE 0
        /\ \A i \in 1..(n - 3 + 1) : r[i] = b[3 + i - 1]
    BY <2>1, <1>r, SubSeqProperties
  <2>3. Len(r) = n - 2
    BY <2>2
  <2>4. ASSUME NEW i \in 1..(n - 2) PROVE r[i] = b[i + 2]
    <3>1. i \in 1..(n - 3 + 1) /\ 3 + i - 1 = i + 2
      OBVIOUS
    <3> QED BY <3>1, <2>2
  <2> QED BY <2>2, <2>3, <2>4
<1>3. DropAt(b, 2) = d
  BY <1>s, <1>r, <1>d DEF DropAt
<1>4. /\ d \in Seq(S) /\ Len(d) = n - 1
      /\ \A i \in 1..(n - 1) : d[i] = IF i <= 1 THEN s[i] ELSE r[i - 1]
  <2>1. /\ s \o r \in Seq(S)
        /\ Len(s \o r) = Len(s) + Len(r)
        /\ \A i \in 1..(Len(s) + Len(r)) :
               (s \o r)[i] = IF i <= Len(s) THEN s[i] ELSE r[i - Len(s)]
    BY <1>1, <1>2, ConcatProperties
  <2>2. /\ d \in Seq(S)
        /\ Len(d) = Len(s) + Len(r)
        /\ \A i \in 1..(Len(s) + Len(r)) : d[i] = IF i <= Len(s) THEN s[i] ELSE r[i - Len(s)]
    BY <2>1, <1>d
  <2> QED BY <2>2, <1>1, <1>2
<1>5. ASSUME NEW i \in 1..(n - 1)
      PROVE  d[i] = IF i = 1 THEN b[1] ELSE b[i + 1]
  <2>1. CASE i = 1
    BY <1>4, <2>1, <1>1
  <2>2. CASE i # 1
    <3>1. i - 1 \in 1..(n - 2) /\ i - 1 + 2 = i + 1
      BY <2>2
    <3> QED BY <1>4, <2>2, <3>1, <1>2
  <2> QED BY <2>1, <2>2
<1> QED BY <1>3, <1>4, <1>5

\* The slot a new object begins with is a bank in order.
LEMMA FirstSlot ==
    ASSUME NEW f \in 0..MaxFrames, NEW fi \in Nat, f < fi \/ f = 0
    PROVE  GoodBank(PushSlot(<<>>, Slot(f, TRUE)), fi)
<1>s. PICK slot : slot = Slot(f, TRUE)
  OBVIOUS
<1>b. PICK b : b = Append(<<>>, slot)
  OBVIOUS
<1>1. slot \in Slots /\ slot.is_cond_frame /\ slot.frame = f
  BY <1>s DEF Slot, Slots
<1>2. b \in Seq(Slots) /\ Len(b) = 1 /\ b[1] = slot
  BY <1>1, <1>b
<1>3. PushSlot(<<>>, slot) = b
  BY <1>2, <1>b, BankSizes DEF PushSlot
<1>4. GoodBank(b, fi)
  BY <1>1, <1>2, BankSizes DEF GoodBank
<1> QED BY <1>3, <1>4, <1>s

\* A frame that is remembered in a bank in order leaves it in order, and keeps
\* the frame the object was defined on.
LEMMA NextSlot ==
    ASSUME NEW fi \in 0..MaxFrames, NEW bank, GoodBank(bank, fi), bank # <<>>
    PROVE  GoodBank(PushSlot(bank, Slot(fi, FALSE)), fi + 1)
<1>s. PICK slot : slot = Slot(fi, FALSE)
  OBVIOUS
<1>b. PICK b : b = Append(bank, slot)
  OBVIOUS
<1>n. PICK n : n = Len(bank)
  OBVIOUS
<1>0. bank \in Seq(Slots) /\ n \in Nat /\ n >= 1 /\ n <= NumMaskmem
  BY <1>n, EmptySeq DEF GoodBank
<1>1. slot \in Slots /\ ~slot.is_cond_frame /\ slot.frame = fi
  BY <1>s, Bounds DEF Slot, Slots
<1>2. /\ b \in Seq(Slots) /\ Len(b) = n + 1
      /\ \A i \in 1..n : b[i] = bank[i]
      /\ b[n + 1] = slot
  BY <1>0, <1>1, <1>b, <1>n, AppendProperties
<1>g. /\ \A i \in 1..n : bank[i].is_cond_frame <=> i = 1
      /\ \A i, j \in 1..n :
             i < j => bank[i].frame < bank[j].frame \/ TwiceFrameZero(bank, i, j)
      /\ \A i \in 1..n : bank[i].frame < fi \/ (i = 1 /\ bank[i].frame = 0)
      /\ \A i \in 1..n : bank[i].frame \in Nat
  <2>1. \A i \in 1..n : bank[i] \in Slots
    BY <1>0, <1>n, ElementOfSeq
  <2> QED BY <1>n, <2>1 DEF GoodBank, Slots
<1>3. /\ \A i \in 1..(n + 1) : b[i].is_cond_frame <=> i = 1
      /\ \A i, j \in 1..(n + 1) :
             i < j => b[i].frame < b[j].frame \/ TwiceFrameZero(b, i, j)
      /\ \A i \in 1..(n + 1) : b[i].frame < fi + 1
      /\ \A i \in 1..(n + 1) : b[i].frame \in Nat
  <2>1. ASSUME NEW i \in 1..(n + 1) PROVE b[i].is_cond_frame <=> i = 1
    <3>1. CASE i = n + 1
      BY <3>1, <1>0, <1>1, <1>2
    <3>2. CASE i # n + 1
      BY <3>2, <1>0, <1>2, <1>g
    <3> QED BY <3>1, <3>2
  <2>2. ASSUME NEW i \in 1..(n + 1), NEW j \in 1..(n + 1), i < j
        PROVE  b[i].frame < b[j].frame \/ TwiceFrameZero(b, i, j)
    <3>0. i \in 1..n
      BY <2>2, <1>0
    <3>1. CASE j = n + 1
      <4>1. bank[i].frame < fi \/ (i = 1 /\ bank[i].frame = 0)
        BY <3>0, <1>g
      <4>2. CASE bank[i].frame < fi
        BY <4>2, <3>0, <3>1, <1>1, <1>2
      <4>3. CASE i = 1 /\ bank[i].frame = 0 /\ fi > 0
        BY <4>3, <3>0, <3>1, <1>1, <1>2
      <4>4. CASE i = 1 /\ bank[i].frame = 0 /\ fi = 0
        BY <4>4, <3>0, <3>1, <1>1, <1>2 DEF TwiceFrameZero
      <4> QED BY <4>1, <4>2, <4>3, <4>4, Bounds
    <3>2. CASE j # n + 1
      <4>1. j \in 1..n
        BY <3>2, <1>0
      <4> QED BY <2>2, <3>0, <4>1, <1>2, <1>g DEF TwiceFrameZero
    <3> QED BY <3>1, <3>2
  <2>3. ASSUME NEW i \in 1..(n + 1) PROVE b[i].frame < fi + 1 /\ b[i].frame \in Nat
    <3>0. fi \in Nat
      BY Bounds
    <3>1. CASE i = n + 1
      BY <3>0, <3>1, <1>1, <1>2
    <3>2. CASE i # n + 1
      <4>1. i \in 1..n
        BY <3>2, <1>0
      <4> QED BY <3>0, <4>1, <1>2, <1>g
    <3> QED BY <3>1, <3>2
  <2> QED BY <2>1, <2>2, <2>3
<1>4. CASE n + 1 <= NumMaskmem
  <2>1. PushSlot(bank, slot) = b
    BY <1>0, <1>2, <1>4, <1>b, BankSizes DEF PushSlot
  <2>2. GoodBank(b, fi + 1)
    BY <1>0, <1>2, <1>3, <1>4 DEF GoodBank
  <2> QED BY <2>1, <2>2, <1>s
<1>5. CASE n + 1 > NumMaskmem
  <2>0. n = NumMaskmem /\ n >= 2
    BY <1>0, <1>5, BankSizes
  <2>d. DOMAIN b = 1..(n + 1)
    BY <1>0, <1>2, LenProperties
  <2>1. IsOldestNonCond(b, 2)
    <3>1. ~b[2].is_cond_frame /\ b[1].is_cond_frame
      BY <2>0, <1>0, <1>3
    <3>2. \A j \in 1..(2 - 1) : j = 1
      OBVIOUS
    <3> QED BY <3>1, <3>2 DEF IsOldestNonCond
  <2>2. ASSUME NEW i \in 1..(n + 1), IsOldestNonCond(b, i) PROVE i = 2
    <3>1. i # 1
      BY <2>2, <1>0, <1>3 DEF IsOldestNonCond
    <3>2. ~(2 \in 1..(i - 1))
      BY <2>2, <2>1 DEF IsOldestNonCond
    <3> QED BY <3>1, <3>2, <1>0
  <2>3. 2 \in 1..(n + 1)
    BY <2>0, <1>0
  <2>4. Victim(b) = 2
    BY <2>1, <2>2, <2>3, <2>d DEF Victim
  <2>d2. PICK d : d = DropAt(b, 2)
    OBVIOUS
  <2>5. PushSlot(bank, slot) = d
    <3>1. Len(b) > NumMaskmem
      BY <1>2, <1>5
    <3> QED BY <3>1, <1>b, <2>4, <2>d2 DEF PushSlot
  <2>6. /\ d \in Seq(Slots) /\ Len(d) = n
        /\ \A i \in 1..n : d[i] = IF i = 1 THEN b[1] ELSE b[i + 1]
    <3>m. PICK m : m = n + 1
      OBVIOUS
    <3>1. m \in Nat /\ m >= 2 /\ m - 1 = n /\ Len(b) = m
      BY <2>0, <1>0, <1>2, <3>m
    <3>2. /\ DropAt(b, 2) \in Seq(Slots) /\ Len(DropAt(b, 2)) = m - 1
          /\ \A i \in 1..(m - 1) : DropAt(b, 2)[i] = IF i = 1 THEN b[1] ELSE b[i + 1]
      BY <3>1, <1>2, DropSecond
    <3> QED BY <3>1, <3>2, <2>d2
  <2>7. \A i \in 1..n : i + 1 \in 1..(n + 1) /\ i + 1 # 1
    BY <1>0
  <2>8. ASSUME NEW i \in 1..n PROVE d[i].is_cond_frame <=> i = 1
    <3>1. 1 \in 1..(n + 1)
      BY <1>0
    <3> QED BY <3>1, <2>6, <2>7, <1>3
  <2>9. ASSUME NEW i \in 1..n, NEW j \in 1..n, i < j
        PROVE  d[i].frame < d[j].frame \/ TwiceFrameZero(d, i, j)
    <3>1. j + 1 \in 1..(n + 1) /\ d[j] = b[j + 1]
      BY <2>6, <2>9
    <3>2. CASE i = 1
      <4>1. d[1] = b[1] /\ 1 \in 1..(n + 1) /\ 1 < j + 1
        BY <1>0, <2>6, <3>2
      <4>2. b[1].frame < b[j + 1].frame \/ TwiceFrameZero(b, 1, j + 1)
        BY <3>1, <4>1, <1>3
      <4> QED BY <3>1, <3>2, <4>1, <4>2 DEF TwiceFrameZero
    <3>3. CASE i # 1
      <4>1. d[i] = b[i + 1] /\ i + 1 < j + 1 /\ i + 1 \in 1..(n + 1) /\ i + 1 # 1
        BY <2>6, <2>7, <2>9, <3>3
      <4>2. b[i + 1].frame < b[j + 1].frame
        BY <3>1, <4>1, <1>3 DEF TwiceFrameZero
      <4> QED BY <3>1, <4>1, <4>2
    <3> QED BY <3>2, <3>3
  <2>10. ASSUME NEW i \in 1..n PROVE d[i].frame < fi + 1
    <3>1. d[i] = b[1] \/ d[i] = b[i + 1]
      BY <2>6
    <3>2. 1 \in 1..(n + 1)
      BY <1>0
    <3> QED BY <3>1, <3>2, <2>7, <1>3
  <2>11. GoodBank(d, fi + 1)
    BY <2>0, <2>6, <2>8, <2>9, <2>10 DEF GoodBank
  <2> QED BY <2>5, <2>11, <1>s
<1>6. n + 1 <= NumMaskmem \/ n + 1 > NumMaskmem
  BY <1>0, BankSizes
<1> QED BY <1>4, <1>5, <1>6, Zenon

\* A bank in order is in order later.
LEMMA BankKeeps ==
    ASSUME NEW fi \in Nat, NEW bank, GoodBank(bank, fi)
    PROVE  GoodBank(bank, fi + 1)
<1>1. bank \in Seq(Slots)
  BY DEF GoodBank
<1>2. \A i \in 1..Len(bank) : bank[i].frame \in Int
  <2>1. \A i \in 1..Len(bank) : bank[i] \in Slots
    BY <1>1, ElementOfSeq
  <2> QED BY <2>1 DEF Slots
<1> QED BY <1>2 DEF GoodBank

\* A pointer of a frame no earlier than the others keeps a pointer bank in order.
LEMMA NextPtr ==
    ASSUME NEW last \in Nat, NEW fi \in 0..MaxFrames, last <= fi,
           NEW ptrs, GoodPtrs(ptrs, last)
    PROVE  GoodPtrs(PushPtr(ptrs, fi), fi)
<1>b. PICK b : b = Append(ptrs, fi)
  OBVIOUS
<1>n. PICK n : n = Len(ptrs)
  OBVIOUS
<1>0. ptrs \in Seq(0..MaxFrames) /\ n \in Nat /\ n <= MaxObjPtrs
  BY <1>n DEF GoodPtrs
<1>1. /\ b \in Seq(0..MaxFrames) /\ Len(b) = n + 1
      /\ \A i \in 1..n : b[i] = ptrs[i]
      /\ b[n + 1] = fi
  BY <1>0, <1>b, <1>n, AppendProperties
<1>2. /\ \A i \in 1..n : ptrs[i] \in Int /\ ptrs[i] <= last
      /\ \A i, j \in 1..n : i < j => ptrs[i] <= ptrs[j]
  <2>1. \A i \in 1..n : ptrs[i] \in 0..MaxFrames
    BY <1>0, <1>n, ElementOfSeq
  <2> QED BY <2>1, <1>n DEF GoodPtrs
<1>3. /\ \A i, j \in 1..(n + 1) : i < j => b[i] <= b[j]
      /\ \A i \in 1..(n + 1) : b[i] <= fi
  <2>1. ASSUME NEW i \in 1..(n + 1) PROVE b[i] <= fi
    <3>1. CASE i = n + 1
      BY <3>1, <1>1
    <3>2. CASE i # n + 1
      <4>1. i \in 1..n
        BY <3>2, <1>0
      <4> QED BY <4>1, <1>1, <1>2
    <3> QED BY <3>1, <3>2
  <2>2. ASSUME NEW i \in 1..(n + 1), NEW j \in 1..(n + 1), i < j PROVE b[i] <= b[j]
    <3>1. CASE j = n + 1
      BY <3>1, <2>1, <1>1
    <3>2. CASE j # n + 1
      <4>1. i \in 1..n /\ j \in 1..n
        BY <2>2, <3>2, <1>0
      <4> QED BY <2>2, <4>1, <1>1, <1>2
    <3> QED BY <3>1, <3>2
  <2> QED BY <2>1, <2>2
<1>4. CASE n + 1 <= MaxObjPtrs
  <2>1. PushPtr(ptrs, fi) = b
    BY <1>0, <1>1, <1>4, <1>b, BankSizes DEF PushPtr
  <2>2. GoodPtrs(b, fi)
    BY <1>0, <1>1, <1>3, <1>4 DEF GoodPtrs
  <2> QED BY <2>1, <2>2
<1>5. CASE n + 1 > MaxObjPtrs
  <2>t. PICK t : t = Tail(b)
    OBVIOUS
  <2>1. PushPtr(ptrs, fi) = t
    <3>1. Len(b) > MaxObjPtrs
      BY <1>1, <1>5
    <3> QED BY <3>1, <1>b, <2>t DEF PushPtr
  <2>2. /\ t \in Seq(0..MaxFrames) /\ Len(t) = n
        /\ \A i \in 1..n : t[i] = b[i + 1]
    <3>1. b # <<>>
      BY <1>0, <1>1, EmptySeq
    <3>2. /\ t \in Seq(0..MaxFrames) /\ Len(t) = Len(b) - 1
          /\ \A i \in 1..Len(t) : t[i] = b[i + 1]
      BY <3>1, <1>1, <2>t, HeadTailProperties
    <3> QED BY <3>2, <1>0, <1>1
  <2>3. ASSUME NEW i \in 1..n PROVE t[i] <= fi
    <3>1. i + 1 \in 1..(n + 1)
      BY <1>0
    <3> QED BY <3>1, <2>2, <1>3
  <2>4. ASSUME NEW i \in 1..n, NEW j \in 1..n, i < j PROVE t[i] <= t[j]
    <3>1. i + 1 \in 1..(n + 1) /\ j + 1 \in 1..(n + 1) /\ i + 1 < j + 1
      BY <2>4, <1>0
    <3> QED BY <3>1, <2>2, <1>3
  <2>5. GoodPtrs(t, fi)
    BY <2>2, <2>3, <2>4, <1>0 DEF GoodPtrs
  <2> QED BY <2>1, <2>5
<1> QED BY <1>0, <1>4, <1>5, BankSizes

\* A pointer bank in order is in order later.
LEMMA PtrsKeep ==
    ASSUME NEW last \in Nat, NEW fi \in Nat, last <= fi, NEW ptrs, GoodPtrs(ptrs, last)
    PROVE  GoodPtrs(ptrs, fi)
<1>1. ptrs \in Seq(0..MaxFrames)
  BY DEF GoodPtrs
<1>2. \A i \in 1..Len(ptrs) : ptrs[i] \in Int
  <2>1. \A i \in 1..Len(ptrs) : ptrs[i] \in 0..MaxFrames
    BY <1>1, ElementOfSeq
  <2> QED BY <2>1
<1> QED BY <1>2 DEF GoodPtrs

-----------------------------------------------------------------------------
(* The inductive invariant. *)

\* Banks in order, no past of fresh ids, no overdue decision, and no pending
\* object of the frame to come.
IInv ==
    /\ TypeOK
    /\ \A id \in Ids : GoodBank(mem_banks[id], frame_index)
    /\ \A id \in Ids : GoodPtrs(ptr_banks[id], LastFrame)
    /\ FreshIdsHaveNoPast
    /\ NobodyOverdue
    /\ \A id \in Pending : obj[id].first_frame < frame_index

\* The masklet of an id without an object.
LEMMA NoneType == NoMasklet \in Masklets /\ NoMasklet.status = "none"
BY Bounds DEF NoMasklet, Masklets

\* A new object is of its thing and its frame.
LEMMA NewType ==
    ASSUME NEW status \in {"pending", "active"}, NEW thing \in Things, NEW fi \in 0..MaxFrames
    PROVE  /\ NewMasklet(status, thing, fi) \in Masklets
           /\ NewMasklet(status, thing, fi).status = status
           /\ NewMasklet(status, thing, fi).thing = thing
           /\ NewMasklet(status, thing, fi).first_frame = fi
           /\ NewMasklet(status, thing, fi).last_seen = fi
BY DEF NewMasklet, Masklets

\* Empty banks are in order.
LEMMA EmptyIsGood ==
    /\ \A fi \in Nat : GoodBank(<<>>, fi)
    /\ \A last \in Nat : GoodPtrs(<<>>, last)
<1>1. <<>> \in Seq(Slots) /\ <<>> \in Seq(0..MaxFrames) /\ Len(<<>>) = 0
  BY EmptySeq
<1>2. ASSUME NEW e, e \in Seq(Slots), Len(e) = 0, NEW fi \in Nat PROVE GoodBank(e, fi)
  BY <1>2, BankSizes DEF GoodBank
<1>3. ASSUME NEW e, e \in Seq(0..MaxFrames), Len(e) = 0, NEW last \in Nat PROVE GoodPtrs(e, last)
  BY <1>3, BankSizes DEF GoodPtrs
<1> QED BY <1>1, <1>2, <1>3, Zenon

\* The decision about a pending object keeps what it is an object of.
LEMMA DecideType ==
    ASSUME NEW m \in Masklets, NEW fi \in 0..MaxFrames
    PROVE  /\ Decide(m, fi) \in Masklets
           /\ Decide(m, fi).status = "pending" =>
                 Decide(m, fi) = m /\ fi - m.first_frame < HotstartDelay
           /\ Decide(m, fi).status = "active" =>
                 /\ m.status \in {"pending", "active"}
                 /\ Decide(m, fi).thing = m.thing
           /\ m.status = "active" => Decide(m, fi) = m
           /\ m.status = "none" => Decide(m, fi) = m
<1>0. m.status \in {"none", "pending", "active"} /\ m.first_frame \in Int
  BY DEF Masklets
<1>1. CASE m.status # "pending" \/ fi - m.first_frame < HotstartDelay
  <2>1. Decide(m, fi) = m
    BY <1>1 DEF Decide
  <2> QED BY <2>1, <1>0, <1>1
<1>2. CASE ~(m.status # "pending" \/ fi - m.first_frame < HotstartDelay) /\ m.mds_sum > 0
  <2>1. Decide(m, fi) = [m EXCEPT !.status = "active"]
    BY <1>2 DEF Decide
  <2>2. PICK a : a = [m EXCEPT !.status = "active"]
    OBVIOUS
  <2>3. a \in Masklets /\ a.status = "active" /\ a.thing = m.thing
    BY <2>2 DEF Masklets
  <2> QED BY <2>1, <2>2, <2>3, <1>2
<1>3. CASE ~(m.status # "pending" \/ fi - m.first_frame < HotstartDelay) /\ ~(m.mds_sum > 0)
  <2>1. Decide(m, fi) = NoMasklet
    BY <1>3 DEF Decide
  <2> QED BY <2>1, <1>3, NoneType
<1> QED BY <1>1, <1>2, <1>3

\* What a frame leaves of one object.
LEMMA EndOfFrameAt ==
    ASSUME NEW masklets0, NEW remember, NEW kept, NEW new,
           EndOfFrame(masklets0, remember, kept, new), NEW id \in Ids
    PROVE  LET decided == Decide(masklets0[id], frame_index)
           IN  /\ obj'[id] = IF Expired(decided, frame_index) THEN NoMasklet ELSE decided
               /\ mem_banks'[id] =
                     IF Expired(decided, frame_index) THEN <<>>
                     ELSE IF id \in kept
                          THEN PushSlot(mem_banks[id], Slot(frame_index, id \in new))
                          ELSE mem_banks[id]
               /\ ptr_banks'[id] =
                     IF Expired(decided, frame_index) THEN <<>>
                     ELSE IF id \in remember THEN PushPtr(ptr_banks[id], frame_index)
                          ELSE ptr_banks[id]
BY Zenon DEF EndOfFrame, Forget

\* A frame leaves a masklet and two banks for every id.
LEMMA EndOfFrameDomains ==
    ASSUME NEW masklets0, NEW remember, NEW kept, NEW new,
           EndOfFrame(masklets0, remember, kept, new)
    PROVE  /\ obj' = [id \in Ids |-> obj'[id]]
           /\ mem_banks' = [id \in Ids |-> mem_banks'[id]]
           /\ ptr_banks' = [id \in Ids |-> ptr_banks'[id]]
BY DEF EndOfFrame, Forget

\* The end of a frame keeps the invariant, whatever the loops before it found:
\* a new object begins with an empty bank, a remembered one with a bank of its
\* own, and ids still to be handed out are left alone.
LEMMA FrameStep ==
    ASSUME IInv, frame_index < MaxFrames,
           NEW masklets0 \in [Ids -> Masklets], NEW remember \in SUBSET Ids,
           NEW kept \in SUBSET remember, NEW new,
           EndOfFrame(masklets0, remember, kept, new),
           \A id \in kept : id \in new <=> mem_banks[id] = <<>>,
           \A id \in Ids : masklets0[id].status = "pending"
                             => masklets0[id].first_frame <= frame_index,
           frame_index' = frame_index + 1,
           next_inst_id' \in 1..(MaxInstances + 1), next_inst_id' >= next_inst_id,
           \A id \in Ids : id >= next_inst_id'
                             => masklets0[id] = NoMasklet /\ id \notin remember,
           result' \subseteq Ids, shown' \subseteq Ids
    PROVE  IInv'
<1>f. PICK fi : fi = frame_index
  OBVIOUS
<1>0. /\ fi \in 0..MaxFrames /\ fi + 1 \in 0..MaxFrames /\ fi < MaxFrames
      /\ next_inst_id \in 1..(MaxInstances + 1)
      /\ frame_index' = fi + 1 /\ LastFrame' = fi
      /\ LastFrame \in 0..MaxFrames /\ LastFrame <= fi
  BY <1>f, Bounds DEF IInv, TypeOK, LastFrame
<1>1. ASSUME NEW id \in Ids
      PROVE  /\ obj'[id] \in Masklets
             /\ GoodBank(mem_banks'[id], fi + 1)
             /\ GoodPtrs(ptr_banks'[id], fi)
             /\ id >= next_inst_id' => obj'[id] = NoMasklet /\ mem_banks'[id] = <<>>
                                                            /\ ptr_banks'[id] = <<>>
             /\ obj'[id].status = "pending" => /\ fi - obj'[id].first_frame < HotstartDelay
                                               /\ obj'[id].first_frame < fi + 1
             /\ obj'[id].status = "active" => fi - obj'[id].last_seen <= MaxKeepAlive
  <2>m. PICK m : m = masklets0[id]
    OBVIOUS
  <2>d. PICK d : d = Decide(m, fi)
    OBVIOUS
  <2>1. m \in Masklets /\ (m.status = "pending" => m.first_frame <= fi)
    BY <2>m, <1>f
  <2>2. /\ d \in Masklets
        /\ d.status = "pending" => d = m /\ fi - m.first_frame < HotstartDelay
        /\ m.status = "none" => d = m
    BY <2>1, <2>d, <1>0, DecideType
  <2>3. /\ obj'[id] = IF Expired(d, fi) THEN NoMasklet ELSE d
        /\ mem_banks'[id] =
              IF Expired(d, fi) THEN <<>>
              ELSE IF id \in kept THEN PushSlot(mem_banks[id], Slot(fi, id \in new))
                   ELSE mem_banks[id]
        /\ ptr_banks'[id] =
              IF Expired(d, fi) THEN <<>>
              ELSE IF id \in remember THEN PushPtr(ptr_banks[id], fi) ELSE ptr_banks[id]
    BY <2>m, <2>d, <1>f, EndOfFrameAt
  <2>4. /\ GoodBank(mem_banks[id], fi)
        /\ GoodPtrs(ptr_banks[id], LastFrame)
        /\ id >= next_inst_id => mem_banks[id] = <<>> /\ ptr_banks[id] = <<>>
    BY <1>f DEF IInv, FreshIdsHaveNoPast
  <2>5. GoodBank(mem_banks'[id], fi + 1)
    <3>1. CASE Expired(d, fi)
      BY <3>1, <2>3, <1>0, EmptyIsGood
    <3>2. CASE ~Expired(d, fi) /\ id \notin kept
      BY <3>2, <2>3, <2>4, <1>0, BankKeeps
    <3>3. CASE ~Expired(d, fi) /\ id \in kept /\ id \in new
      <4>1. mem_banks'[id] = PushSlot(<<>>, Slot(fi, TRUE))
        <5>1. mem_banks[id] = <<>> /\ (id \in new) = TRUE
          BY <3>3
        <5> QED BY <5>1, <3>3, <2>3, Zenon
      <4>2. fi + 1 \in Nat /\ fi < fi + 1
        BY <1>0
      <4> QED BY <4>1, <4>2, <1>0, FirstSlot, Zenon
    <3>4. CASE ~Expired(d, fi) /\ id \in kept /\ id \notin new
      <4>1. mem_banks'[id] = PushSlot(mem_banks[id], Slot(fi, FALSE))
        <5>1. (id \in new) = FALSE
          BY <3>4
        <5> QED BY <5>1, <3>4, <2>3, Zenon
      <4>2. mem_banks[id] # <<>>
        BY <3>4
      <4> QED BY <4>1, <4>2, <2>4, <1>0, NextSlot, Zenon
    <3> QED BY <3>1, <3>2, <3>3, <3>4
  <2>6. GoodPtrs(ptr_banks'[id], fi)
    <3>0. LastFrame \in Nat /\ fi \in Nat
      BY <1>0
    <3>1. CASE Expired(d, fi)
      BY <3>0, <3>1, <2>3, EmptyIsGood
    <3>2. CASE ~Expired(d, fi) /\ id \notin remember
      BY <3>0, <3>2, <2>3, <2>4, <1>0, PtrsKeep
    <3>3. CASE ~Expired(d, fi) /\ id \in remember
      BY <3>0, <3>3, <2>3, <2>4, <1>0, NextPtr
    <3> QED BY <3>1, <3>2, <3>3
  <2>7. ASSUME id >= next_inst_id'
        PROVE  obj'[id] = NoMasklet /\ mem_banks'[id] = <<>> /\ ptr_banks'[id] = <<>>
    <3>1. m = NoMasklet /\ id \notin remember /\ id \notin kept
      BY <2>7, <2>m
    <3>2. id >= next_inst_id
      BY <2>7, <1>0 DEF Ids
    <3>3. d = NoMasklet /\ ~Expired(d, fi)
      BY <3>1, <2>2, NoneType DEF Expired
    <3> QED BY <3>1, <3>2, <3>3, <2>3, <2>4
  <2>8. ASSUME obj'[id].status = "pending"
        PROVE  fi - obj'[id].first_frame < HotstartDelay /\ obj'[id].first_frame < fi + 1
    <3>1. obj'[id] = d
      BY <2>8, <2>3, NoneType
    <3>2. d = m /\ m.first_frame \in Int
      BY <3>1, <2>8, <2>1, <2>2 DEF Masklets
    <3> QED BY <3>1, <3>2, <2>8, <2>1, <2>2, <1>0
  <2>9. ASSUME obj'[id].status = "active" PROVE fi - obj'[id].last_seen <= MaxKeepAlive
    <3>1. obj'[id] = d /\ ~Expired(d, fi)
      BY <2>9, <2>3, NoneType
    <3>2. d.last_seen \in Int
      BY <2>2 DEF Masklets
    <3> QED BY <3>1, <3>2, <2>9, <1>0, Delays DEF Expired
  <2>10. obj'[id] \in Masklets
    BY <2>2, <2>3, NoneType
  <2> QED BY <2>5, <2>6, <2>7, <2>8, <2>9, <2>10
<1>2. TypeOK'
  <2>1. obj' \in [Ids -> Masklets]
    BY <1>1, EndOfFrameDomains
  <2>2. mem_banks' \in [Ids -> Seq(Slots)]
    <3>1. \A id \in Ids : mem_banks'[id] \in Seq(Slots)
      BY <1>1 DEF GoodBank
    <3> QED BY <3>1, EndOfFrameDomains
  <2>3. ptr_banks' \in [Ids -> Seq(0..MaxFrames)]
    <3>1. \A id \in Ids : ptr_banks'[id] \in Seq(0..MaxFrames)
      BY <1>1 DEF GoodPtrs
    <3> QED BY <3>1, EndOfFrameDomains
  <2> QED BY <2>1, <2>2, <2>3, <1>0 DEF TypeOK
<1>3. NobodyOverdue'
  BY <1>0, <1>1 DEF NobodyOverdue, Pending, Active
<1>4. FreshIdsHaveNoPast'
  BY <1>1 DEF FreshIdsHaveNoPast
<1>5. (\A id \in Pending : obj[id].first_frame < frame_index)'
  BY <1>0, <1>1 DEF Pending
<1>6. /\ \A id \in Ids : GoodBank(mem_banks'[id], frame_index')
      /\ \A id \in Ids : GoodPtrs(ptr_banks'[id], LastFrame')
  BY <1>0, <1>1
<1> QED BY <1>2, <1>3, <1>4, <1>5, <1>6 DEF IInv, GoodBank, GoodPtrs, Slots

-----------------------------------------------------------------------------
(* The actions. *)

\* Propagation moves no object between the vectors and forgets no thing.
LEMMA PropagatedType ==
    ASSUME TypeOK, NEW out \in [Tracked -> Outcomes], NEW id \in Ids
    PROVE  /\ Propagated(out)[id] \in Masklets
           /\ Propagated(out)[id].status = obj[id].status
           /\ Propagated(out)[id].thing = obj[id].thing
           /\ Propagated(out)[id].first_frame = obj[id].first_frame
           /\ id \notin Tracked => Propagated(out)[id] = obj[id]
<1>1. obj[id] \in Masklets /\ frame_index \in 0..MaxFrames
  BY DEF TypeOK
<1>2. CASE id \in Propagates(out)
  <2>d. PICK d : d = IF out[id] = "seen" THEN 1 ELSE -1
    OBVIOUS
  <2>1. d \in Int
    BY <2>d
  <2>2. Propagated(out)[id] = [obj[id] EXCEPT !.last_seen = frame_index, !.mds_sum = @ + d]
    BY <1>2, <2>d DEF Propagated
  <2>3. id \in Tracked
    BY <1>2 DEF Propagates
  <2>m. PICK m : m = obj[id]
    OBVIOUS
  <2>p. PICK p : p = [m EXCEPT !.last_seen = frame_index, !.mds_sum = m.mds_sum + d]
    OBVIOUS
  <2>4. Propagated(out)[id] = p
    BY <2>2, <2>m, <2>p
  <2>5. p \in Masklets /\ p.status = m.status /\ p.thing = m.thing
                       /\ p.first_frame = m.first_frame
    <3>1. m \in Masklets /\ m.mds_sum + d \in Int
      BY <1>1, <2>1, <2>m DEF Masklets
    <3>2. PICK sum : sum = m.mds_sum + d
      OBVIOUS
    <3>3. p = [m EXCEPT !.last_seen = frame_index, !.mds_sum = sum] /\ sum \in Int
      BY <2>p, <3>1, <3>2
    <3> QED BY <1>1, <3>1, <3>3 DEF Masklets
  <2> QED BY <2>3, <2>4, <2>5, <2>m
<1>3. CASE id \notin Propagates(out)
  <2>1. Propagated(out)[id] = obj[id]
    BY <1>3 DEF Propagated
  <2> QED BY <2>1, <1>1
<1> QED BY <1>2, <1>3

\* What propagates is tracked and has a memory to propagate from.
LEMMA TrackedSets ==
    ASSUME NEW out
    PROVE  /\ Tracked \subseteq Ids /\ Pending \subseteq Tracked /\ Active \subseteq Tracked
           /\ Propagates(out) \subseteq Tracked /\ Shows(out) \subseteq Propagates(out)
           /\ \A id \in Propagates(out) : mem_banks[id] # <<>>
BY DEF Tracked, Pending, Active, Propagates, Shows

\* Ids still to be handed out are not tracked.
LEMMA FreshUntracked ==
    ASSUME IInv, NEW id \in Tracked
    PROVE  id < next_inst_id
<1>1. id \in Ids /\ obj[id].status # "none"
  BY DEF Tracked, Pending, Active
<1>2. ~(id >= next_inst_id)
  BY <1>1, NoneType DEF IInv, FreshIdsHaveNoPast
<1> QED BY <1>1, <1>2 DEF IInv, TypeOK, Ids

\* What a new object is: the thing it was detected as, pending since this frame.
LEMMA SpawnType ==
    ASSUME NEW masklets \in [Ids -> Masklets], NEW things \in SUBSET Things,
           NEW new \in Seq(things), NEW id \in Ids,
           next_inst_id \in Nat, frame_index \in 0..MaxFrames
    PROVE  LET isNew == id >= next_inst_id /\ id < next_inst_id + Len(new)
           IN  /\ Spawn(masklets, new)[id] \in Masklets
               /\ isNew => /\ Spawn(masklets, new)[id].status = "pending"
                           /\ Spawn(masklets, new)[id].thing \in things
                           /\ Spawn(masklets, new)[id].first_frame = frame_index
               /\ ~isNew => Spawn(masklets, new)[id] = masklets[id]
<1>1. CASE id >= next_inst_id /\ id < next_inst_id + Len(new)
  <2>1. PICK k : k = id - next_inst_id + 1
    OBVIOUS
  <2>n. PICK n : n = Len(new)
    OBVIOUS
  <2>2. k \in 1..Len(new)
    <3>1. n \in Nat
      BY <2>n, LenProperties
    <3>2. id \in Int
      BY DEF Ids
    <3>3. k \in 1..n
      BY <1>1, <2>1, <2>n, <3>1, <3>2
    <3> QED BY <3>3, <2>n
  <2>3. new[k] \in things /\ new[k] \in Things
    BY <2>2, ElementOfSeq
  <2>4. Spawn(masklets, new)[id] = NewMasklet("pending", new[k], frame_index)
    BY <1>1, <2>1 DEF Spawn
  <2> QED BY <1>1, <2>3, <2>4, NewType
<1>2. CASE ~(id >= next_inst_id /\ id < next_inst_id + Len(new))
  <2>1. Spawn(masklets, new)[id] = masklets[id]
    BY <1>2 DEF Spawn
  <2> QED BY <1>2, <2>1
<1> QED BY <1>1, <1>2

\* What the proofs need of a detection: nothing already matched, in some order.
LEMMA UnmatchedOrder ==
    ASSUME NEW out, NEW dets \in Detections, NEW new \in Orders(Unmatched(out, dets))
    PROVE  /\ new \in Seq(Unmatched(out, dets)) /\ Len(new) \in Nat
           /\ Unmatched(out, dets) \in SUBSET Things
           /\ \A thing \in Unmatched(out, dets) :
                 \A id \in Shows(out) \cap Active : obj[id].thing # thing
<1>1. Unmatched(out, dets) \in SUBSET Things
  BY DEF Unmatched, Detections
<1>2. IsFiniteSet(Unmatched(out, dets))
  BY <1>1, NoneOfThem, FS_Subset
<1>3. Cardinality(Unmatched(out, dets)) \in Nat
  BY <1>2, FS_CardinalityType
<1>4. new \in [1..Cardinality(Unmatched(out, dets)) -> Unmatched(out, dets)]
  BY DEF Orders
<1>5. new \in Seq(Unmatched(out, dets))
  BY <1>3, <1>4
<1>6. \A thing \in Unmatched(out, dets) :
          \A id \in Shows(out) \cap Active : obj[id].thing # thing
  BY DEF Unmatched, Matched
<1> QED BY <1>1, <1>5, <1>6, LenProperties

\* What a frame does not change of an object: a candidate that is not decided
\* yet, an active one that is not given up, one that is already gone.
LEMMA FrameKeeps ==
    ASSUME NEW masklets0 \in [Ids -> Masklets], NEW remember, NEW kept, NEW new,
           EndOfFrame(masklets0, remember, kept, new),
           frame_index \in 0..MaxFrames, NEW id \in Ids
    PROVE  /\ obj'[id].status = "pending" => obj'[id] = masklets0[id]
           /\ masklets0[id].status = "active" /\ obj'[id].status # "none"
                 => obj'[id] = masklets0[id]
           /\ masklets0[id].status = "active" /\ obj'[id].status = "none"
                 => mem_banks'[id] = <<>> /\ ptr_banks'[id] = <<>>
           /\ masklets0[id].status = "none" /\ id \notin kept /\ id \notin remember
                 => /\ obj'[id].status = "none"
                    /\ mem_banks'[id] = mem_banks[id]
                    /\ ptr_banks'[id] = ptr_banks[id]
<1>m. PICK m : m = masklets0[id]
  OBVIOUS
<1>d. PICK d : d = Decide(m, frame_index)
  OBVIOUS
<1>1. /\ d.status = "pending" => d = m
      /\ m.status = "active" => d = m
      /\ m.status = "none" => d = m
  BY <1>m, <1>d, DecideType
<1>2. /\ obj'[id] = IF Expired(d, frame_index) THEN NoMasklet ELSE d
      /\ Expired(d, frame_index) => mem_banks'[id] = <<>> /\ ptr_banks'[id] = <<>>
      /\ ~Expired(d, frame_index) /\ id \notin kept => mem_banks'[id] = mem_banks[id]
      /\ ~Expired(d, frame_index) /\ id \notin remember => ptr_banks'[id] = ptr_banks[id]
  BY <1>m, <1>d, EndOfFrameAt
<1>3. Expired(d, frame_index) => d.status = "active"
  BY DEF Expired
<1> QED BY <1>m, <1>1, <1>2, <1>3, NoneType

\* A tracked frame keeps the invariant, and reports nothing twice.
LEMMA TrackStep ==
    ASSUME IInv, NEW out \in [Tracked -> Outcomes], NEW kept \in SUBSET Ids,
           NEW dets \in Detections, NEW new \in Orders(Unmatched(out, dets)),
           TrackFrame(out, new, kept)
    PROVE  IInv' /\ ReportedOnce'
<1>n. PICK n : n = Len(new)
  OBVIOUS
<1>i. PICK newIds : newIds = next_inst_id .. (next_inst_id + n - 1)
  OBVIOUS
<1>m. PICK masklets0 : masklets0 = Spawn(Propagated(out), new)
  OBVIOUS
<1>r. PICK remember : remember = Propagates(out) \cup newIds
  OBVIOUS
<1>u. PICK things : things = Unmatched(out, dets)
  OBVIOUS
<1>0. /\ TypeOK /\ frame_index \in 0..MaxFrames /\ next_inst_id \in 1..(MaxInstances + 1)
      /\ MaxInstances \in Nat /\ MaxFrames \in Nat
  BY Bounds DEF IInv, TypeOK
<1>1. /\ new \in Seq(things) /\ n \in Nat /\ things \in SUBSET Things
      /\ \A thing \in things : \A id \in Shows(out) \cap Active : obj[id].thing # thing
  BY <1>n, <1>u, UnmatchedOrder
<1>2. /\ frame_index < MaxFrames
      /\ next_inst_id + n <= MaxInstances + 1
      /\ kept \subseteq remember
      /\ EndOfFrame(masklets0, remember, kept, newIds)
      /\ result' = (Propagates(out) \cap Active \cap StillTracked)
                      \cup {id \in newIds : obj'[id].status = "pending"}
      /\ shown' = Shows(out)
      /\ next_inst_id' = next_inst_id + n
      /\ frame_index' = frame_index + 1
  BY <1>n, <1>i, <1>m, <1>r DEF TrackFrame
<1>3. /\ Propagates(out) \subseteq Ids /\ newIds \subseteq Ids
      /\ remember \in SUBSET Ids /\ kept \in SUBSET remember
  <2>1. Propagates(out) \subseteq Ids
    BY TrackedSets
  <2>2. newIds \subseteq Ids
    BY <1>0, <1>1, <1>2, <1>i DEF Ids
  <2> QED BY <2>1, <2>2, <1>2, <1>r
<1>4. \A id \in Ids : id \in newIds <=> id >= next_inst_id /\ id < next_inst_id + n
  BY <1>0, <1>1, <1>i DEF Ids
<1>5. ASSUME NEW id \in Ids
      PROVE  /\ masklets0[id] \in Masklets
             /\ id \in newIds => /\ masklets0[id].status = "pending"
                                 /\ masklets0[id].thing \in things
                                 /\ masklets0[id].first_frame = frame_index
             /\ id \notin newIds => masklets0[id] = Propagated(out)[id]
  <2>1. Propagated(out) \in [Ids -> Masklets]
    <3>1. \A k \in Ids : Propagated(out)[k] \in Masklets
      BY <1>0, PropagatedType
    <3>2. Propagated(out) = [k \in Ids |-> Propagated(out)[k]]
      BY DEF Propagated
    <3> QED BY <3>1, <3>2
  <2>2. next_inst_id \in Nat
    BY <1>0
  <2>3. PICK p : p = Propagated(out)
    OBVIOUS
  <2>4. /\ Spawn(p, new)[id] \in Masklets
        /\ (id >= next_inst_id /\ id < next_inst_id + Len(new)) =>
              /\ Spawn(p, new)[id].status = "pending"
              /\ Spawn(p, new)[id].thing \in things
              /\ Spawn(p, new)[id].first_frame = frame_index
        /\ ~(id >= next_inst_id /\ id < next_inst_id + Len(new)) => Spawn(p, new)[id] = p[id]
    BY <2>1, <2>2, <2>3, <1>0, <1>1, SpawnType
  <2> QED BY <2>3, <2>4, <1>4, <1>m, <1>n
<1>6. masklets0 \in [Ids -> Masklets]
  <2>1. masklets0 = [k \in Ids |-> masklets0[k]]
    BY <1>m DEF Spawn
  <2> QED BY <2>1, <1>5
<1>7. ASSUME NEW id \in kept
      PROVE  id \in newIds <=> mem_banks[id] = <<>>
  <2>1. CASE id \in newIds
    <3>1. id \in Ids /\ id >= next_inst_id
      BY <2>1, <1>3, <1>4
    <3> QED BY <3>1, <2>1 DEF IInv, FreshIdsHaveNoPast
  <2>2. CASE id \notin newIds
    <3>1. id \in Propagates(out)
      BY <2>2, <1>2, <1>r
    <3> QED BY <3>1, <2>2, TrackedSets
  <2> QED BY <2>1, <2>2
<1>8. ASSUME NEW id \in Ids, masklets0[id].status = "pending"
      PROVE  masklets0[id].first_frame <= frame_index
  <2>1. CASE id \in newIds
    BY <2>1, <1>5, <1>0
  <2>2. CASE id \notin newIds
    <3>1. masklets0[id].first_frame = obj[id].first_frame /\ obj[id].status = "pending"
      BY <2>2, <1>0, <1>5, <1>8, PropagatedType
    <3>2. obj[id].first_frame < frame_index
      BY <3>1 DEF IInv, Pending
    <3>3. obj[id].first_frame \in Int
      BY <1>0 DEF TypeOK, Masklets
    <3> QED BY <3>1, <3>2, <3>3, <1>0
  <2> QED BY <2>1, <2>2
<1>9. ASSUME NEW id \in Ids, id >= next_inst_id'
      PROVE  masklets0[id] = NoMasklet /\ id \notin remember
  <2>1. id >= next_inst_id /\ id \notin newIds
    BY <1>9, <1>0, <1>1, <1>2, <1>4 DEF Ids
  <2>2. obj[id] = NoMasklet
    BY <2>1 DEF IInv, FreshIdsHaveNoPast
  <2>3. id \notin Tracked
    BY <2>2, NoneType DEF Tracked, Pending, Active
  <2>4. masklets0[id] = NoMasklet
    BY <2>1, <2>2, <2>3, <1>0, <1>5, PropagatedType
  <2> QED BY <2>1, <2>3, <2>4, <1>r, TrackedSets
<1>10. /\ result' \subseteq Ids /\ shown' \subseteq Ids
       /\ next_inst_id' \in 1..(MaxInstances + 1) /\ next_inst_id' >= next_inst_id
  <2>1. shown' \subseteq Ids /\ result' \subseteq Ids
    BY <1>2, <1>3, TrackedSets
  <2> QED BY <2>1, <1>0, <1>1, <1>2
<1>11. IInv'
  BY <1>2, <1>3, <1>6, <1>7, <1>8, <1>9, <1>10, FrameStep
<1>12. ReportedOnce'
  <2> SUFFICES ASSUME NEW a \in result' \cap shown', NEW b \in Pending', a # b,
                      obj'[b].first_frame = LastFrame'
               PROVE  obj'[a].thing # obj'[b].thing
    BY DEF ReportedOnce
  <2>1. LastFrame' = frame_index
    BY <1>0, <1>2 DEF LastFrame
  <2>2. a \in Shows(out) /\ a \in Tracked /\ a \in Ids /\ a \notin newIds
    <3>1. a \in Shows(out) /\ a \in Tracked /\ a \in Ids
      BY <1>2, TrackedSets
    <3>2. a < next_inst_id
      BY <3>1, FreshUntracked
    <3> QED BY <3>1, <3>2, <1>0, <1>4 DEF Ids
  <2>3. a \in Active /\ a \in StillTracked
    BY <2>2, <1>2
  <2>4. obj'[a].thing = obj[a].thing
    <3>1. obj[a].status = "active" /\ obj'[a].status # "none"
      BY <2>3 DEF Active, StillTracked
    <3>2. masklets0[a].status = "active" /\ masklets0[a].thing = obj[a].thing
      BY <3>1, <2>2, <1>0, <1>5, PropagatedType
    <3>3. obj'[a] = masklets0[a]
      BY <3>1, <3>2, <2>2, <1>0, <1>2, <1>6, FrameKeeps
    <3> QED BY <3>2, <3>3
  <2>5. b \in Ids /\ obj'[b].status = "pending"
    BY DEF Pending
  <2>6. obj'[b] = masklets0[b]
    BY <2>5, <1>0, <1>2, <1>6, FrameKeeps
  <2>7. b \in newIds
    <3> SUFFICES ASSUME b \notin newIds PROVE FALSE
      OBVIOUS
    <3>1. obj[b].status = "pending" /\ obj[b].first_frame = frame_index
      BY <2>1, <2>5, <2>6, <1>0, <1>5, PropagatedType
    <3>2. obj[b].first_frame < frame_index
      BY <3>1, <2>5 DEF IInv, Pending
    <3> QED BY <3>1, <3>2, <1>0
  <2>8. obj'[b].thing \in things
    BY <2>5, <2>6, <2>7, <1>5
  <2> QED BY <2>2, <2>3, <2>4, <2>8, <1>1
<1> QED BY <1>11, <1>12

\* A propagated frame keeps the invariant; nothing in it is new.
LEMMA PropagateStep ==
    ASSUME IInv, NEW out \in [Tracked -> Outcomes], NEW kept \in SUBSET Ids,
           PropagateFrame(out, kept)
    PROVE  IInv' /\ ReportedOnce'
<1>m. PICK masklets0 : masklets0 = Propagated(out)
  OBVIOUS
<1>r. PICK remember : remember = Propagates(out)
  OBVIOUS
<1>e. PICK none : none = {}
  OBVIOUS
<1>0. /\ TypeOK /\ frame_index \in 0..MaxFrames /\ next_inst_id \in 1..(MaxInstances + 1)
  BY DEF IInv, TypeOK
<1>1. /\ frame_index < MaxFrames /\ kept \subseteq remember
      /\ EndOfFrame(masklets0, remember, kept, none)
      /\ result' = remember \cap StillTracked /\ shown' = Shows(out)
      /\ frame_index' = frame_index + 1 /\ next_inst_id' = next_inst_id
  BY <1>m, <1>r, <1>e DEF PropagateFrame
<1>2. remember \subseteq Tracked /\ remember \in SUBSET Ids /\ kept \in SUBSET remember
  BY <1>1, <1>r, TrackedSets
<1>3. ASSUME NEW id \in Ids
      PROVE  /\ masklets0[id] \in Masklets
             /\ masklets0[id].status = obj[id].status
             /\ masklets0[id].first_frame = obj[id].first_frame
             /\ id \notin Tracked => masklets0[id] = obj[id]
  BY <1>0, <1>m, PropagatedType
<1>4. masklets0 \in [Ids -> Masklets]
  <2>1. masklets0 = [k \in Ids |-> masklets0[k]]
    BY <1>m DEF Propagated
  <2> QED BY <2>1, <1>3
<1>5. \A id \in kept : id \in none <=> mem_banks[id] = <<>>
  BY <1>1, <1>e, <1>r, TrackedSets
<1>6. ASSUME NEW id \in Ids, masklets0[id].status = "pending"
      PROVE  masklets0[id].first_frame < frame_index /\ masklets0[id].first_frame \in Int
  <2>1. obj[id].status = "pending" /\ masklets0[id].first_frame = obj[id].first_frame
    BY <1>3, <1>6
  <2> QED BY <2>1, <1>0 DEF IInv, Pending, TypeOK, Masklets
<1>7. ASSUME NEW id \in Ids, id >= next_inst_id'
      PROVE  masklets0[id] = NoMasklet /\ id \notin remember
  <2>1. obj[id] = NoMasklet
    BY <1>1, <1>7 DEF IInv, FreshIdsHaveNoPast
  <2>2. id \notin Tracked
    BY <2>1, NoneType DEF Tracked, Pending, Active
  <2> QED BY <2>1, <2>2, <1>2, <1>3
<1>8. \A id \in Ids : masklets0[id].status = "pending" => masklets0[id].first_frame <= frame_index
  BY <1>0, <1>6
<1>9. /\ result' \subseteq Ids /\ shown' \subseteq Ids
      /\ next_inst_id' \in 1..(MaxInstances + 1) /\ next_inst_id' >= next_inst_id
  <2>1. Shows(out) \subseteq Ids
    BY TrackedSets
  <2> QED BY <2>1, <1>0, <1>1, <1>2
<1>10. IInv'
  BY <1>1, <1>2, <1>4, <1>5, <1>7, <1>8, <1>9, FrameStep
<1>11. ReportedOnce'
  <2> SUFFICES ASSUME NEW b \in Pending', obj'[b].first_frame = LastFrame' PROVE FALSE
    BY DEF ReportedOnce
  <2>1. LastFrame' = frame_index
    BY <1>0, <1>1 DEF LastFrame
  <2>2. b \in Ids /\ obj'[b].status = "pending"
    BY DEF Pending
  <2>3. obj'[b] = masklets0[b]
    BY <2>2, <1>0, <1>1, <1>4, FrameKeeps
  <2> QED BY <2>1, <2>2, <2>3, <1>6, <1>0
<1> QED BY <1>10, <1>11

\* A call without a result keeps ReportedOnce.
LEMMA NothingReported ==
    ASSUME NoResult
    PROVE  ReportedOnce' /\ result' \subseteq Ids /\ shown' \subseteq Ids
BY DEF NoResult, ReportedOnce

\* An interactive call that leaves the frame where it is keeps the invariant,
\* if what it does to one object and its banks does.
LEMMA InteractiveStep ==
    ASSUME IInv, NoResult, UNCHANGED frame_index, NEW id \in Ids, NEW m \in Masklets,
           obj' = [obj EXCEPT ![id] = m],
           mem_banks' \in [Ids -> Seq(Slots)], ptr_banks' \in [Ids -> Seq(0..MaxFrames)],
           \A k \in Ids \ {id} : mem_banks'[k] = mem_banks[k] /\ ptr_banks'[k] = ptr_banks[k],
           GoodBank(mem_banks'[id], frame_index), GoodPtrs(ptr_banks'[id], LastFrame),
           next_inst_id' \in 1..(MaxInstances + 1), next_inst_id' >= next_inst_id,
           id < next_inst_id',
           m.status = "active" \/ m.status = obj[id].status,
           m.first_frame = obj[id].first_frame \/ m.status = "active",
           m.last_seen = LastFrame
    PROVE  IInv'
<1>0. /\ TypeOK /\ frame_index \in 0..MaxFrames /\ next_inst_id \in 1..(MaxInstances + 1)
      /\ LastFrame' = LastFrame /\ LastFrame \in Int /\ frame_index' = frame_index
  BY Bounds DEF IInv, TypeOK, LastFrame
<1>1. /\ obj' \in [Ids -> Masklets] /\ obj'[id] = m
      /\ \A k \in Ids \ {id} : obj'[k] = obj[k]
  BY <1>0 DEF TypeOK
<1>2. TypeOK'
  BY <1>0, <1>1, NothingReported DEF TypeOK
<1>3. \A k \in Ids : GoodBank(mem_banks'[k], frame_index') /\ GoodPtrs(ptr_banks'[k], LastFrame')
  BY <1>0 DEF IInv
<1>4. FreshIdsHaveNoPast'
  <2> SUFFICES ASSUME NEW k \in Ids, k >= next_inst_id'
               PROVE  obj'[k] = NoMasklet /\ mem_banks'[k] = <<>> /\ ptr_banks'[k] = <<>>
    BY DEF FreshIdsHaveNoPast
  <2>1. k # id /\ k >= next_inst_id
    BY <1>0 DEF Ids
  <2> QED BY <2>1, <1>1 DEF IInv, FreshIdsHaveNoPast
<1>5. /\ \A k \in Pending' : /\ k \in Pending
                             /\ obj'[k].first_frame = obj[k].first_frame
      /\ \A k \in Active' : (k \in Active /\ obj'[k] = obj[k]) \/ obj'[k].last_seen = LastFrame
  BY <1>1 DEF Pending, Active
<1>6. NobodyOverdue'
  <2>1. \A k \in Active' : LastFrame - obj'[k].last_seen <= MaxKeepAlive
    BY <1>0, <1>5, Delays DEF IInv, NobodyOverdue
  <2>2. \A k \in Pending' : LastFrame - obj'[k].first_frame < HotstartDelay
    BY <1>5 DEF IInv, NobodyOverdue
  <2> QED BY <2>1, <2>2, <1>0 DEF NobodyOverdue
<1>7. (\A k \in Pending : obj[k].first_frame < frame_index)'
  BY <1>0, <1>5 DEF IInv
<1> QED BY <1>2, <1>3, <1>4, <1>6, <1>7 DEF IInv, GoodBank, GoodPtrs, Slots

\* An added instance begins with one slot, whatever the tracker did before.
LEMMA AddStep ==
    ASSUME IInv, NEW thing \in Things, AddInstance(thing)
    PROVE  IInv' /\ ReportedOnce'
<1>i. PICK id : id = next_inst_id
  OBVIOUS
<1>m. PICK m : m = NewMasklet("active", thing, LastFrame)
  OBVIOUS
<1>s. PICK b : b = PushSlot(<<>>, Slot(LastFrame, TRUE))
  OBVIOUS
<1>p. PICK p : p = PushPtr(ptr_banks[id], LastFrame)
  OBVIOUS
<1>0. /\ TypeOK /\ frame_index \in 0..MaxFrames /\ next_inst_id \in 1..(MaxInstances + 1)
      /\ LastFrame \in 0..MaxFrames /\ LastFrame \in Nat /\ frame_index \in Nat
      /\ MaxInstances \in Nat
  BY Bounds DEF IInv, TypeOK, LastFrame
<1>1. id \in Ids /\ mem_banks[id] = <<>> /\ GoodPtrs(ptr_banks[id], LastFrame)
  BY <1>0, <1>i DEF AddInstance, IInv, FreshIdsHaveNoPast, Ids
<1>2. /\ obj' = [obj EXCEPT ![id] = m]
      /\ mem_banks' = [mem_banks EXCEPT ![id] = b]
      /\ ptr_banks' = [ptr_banks EXCEPT ![id] = p]
      /\ next_inst_id' = id + 1 /\ NoResult /\ UNCHANGED frame_index
  BY <1>1, <1>i, <1>m, <1>s, <1>p, Zenon DEF AddInstance
<1>3. /\ m \in Masklets /\ m.status = "active" /\ m.last_seen = LastFrame
  BY <1>m, <1>0, NewType
<1>4. GoodBank(b, frame_index)
  <2>1. (LastFrame < frame_index \/ LastFrame = 0) /\ frame_index \in Nat
    BY Bounds DEF LastFrame, IInv, TypeOK
  <2> QED BY <1>s, <1>0, <2>1, FirstSlot, Zenon
<1>5. GoodPtrs(p, LastFrame)
  <2>1. LastFrame <= LastFrame
    BY <1>0
  <2> QED BY <2>1, <1>p, <1>0, <1>1, NextPtr
<1>6. b \in Seq(Slots) /\ p \in Seq(0..MaxFrames)
  BY <1>4, <1>5 DEF GoodBank, GoodPtrs
<1>7. /\ mem_banks' \in [Ids -> Seq(Slots)] /\ mem_banks'[id] = b
      /\ ptr_banks' \in [Ids -> Seq(0..MaxFrames)] /\ ptr_banks'[id] = p
      /\ \A k \in Ids \ {id} : mem_banks'[k] = mem_banks[k] /\ ptr_banks'[k] = ptr_banks[k]
  BY <1>0, <1>1, <1>2, <1>6 DEF TypeOK
<1>8. /\ next_inst_id' \in 1..(MaxInstances + 1) /\ next_inst_id' >= next_inst_id
      /\ id < next_inst_id'
  BY <1>0, <1>1, <1>2, <1>i DEF Ids
<1> QED BY <1>1, <1>2, <1>3, <1>4, <1>5, <1>7, <1>8, InteractiveStep, NothingReported

\* A refined object gets a pointer of the frame just shown.
LEMMA RefineStep ==
    ASSUME IInv, NEW id \in Ids, Refine(id)
    PROVE  IInv' /\ ReportedOnce'
<1>m. PICK m : m = [obj[id] EXCEPT !.last_seen = LastFrame]
  OBVIOUS
<1>p. PICK p : p = PushPtr(ptr_banks[id], LastFrame)
  OBVIOUS
<1>0. /\ TypeOK /\ frame_index \in 0..MaxFrames /\ next_inst_id \in 1..(MaxInstances + 1)
      /\ LastFrame \in 0..MaxFrames /\ LastFrame \in Nat
  BY Bounds DEF IInv, TypeOK, LastFrame
<1>1. id \in Tracked /\ id < next_inst_id
  BY FreshUntracked DEF Refine
<1>2. /\ obj' = [obj EXCEPT ![id] = m]
      /\ ptr_banks' = [ptr_banks EXCEPT ![id] = p]
      /\ mem_banks' = mem_banks
      /\ next_inst_id' = next_inst_id /\ NoResult /\ UNCHANGED frame_index
  BY <1>m, <1>p DEF Refine
<1>3. /\ m \in Masklets /\ m.status = obj[id].status
      /\ m.last_seen = LastFrame /\ m.first_frame = obj[id].first_frame
  <2>1. obj[id] \in Masklets
    BY <1>0 DEF TypeOK
  <2> QED BY <2>1, <1>m, <1>0 DEF Masklets
<1>4. GoodBank(mem_banks'[id], frame_index)
  BY <1>2 DEF IInv
<1>5. GoodPtrs(p, LastFrame)
  <2>1. LastFrame <= LastFrame /\ GoodPtrs(ptr_banks[id], LastFrame)
    BY <1>0 DEF IInv
  <2> QED BY <2>1, <1>p, <1>0, NextPtr
<1>6. p \in Seq(0..MaxFrames)
  BY <1>5 DEF GoodPtrs
<1>7. /\ mem_banks' \in [Ids -> Seq(Slots)]
      /\ ptr_banks' \in [Ids -> Seq(0..MaxFrames)] /\ ptr_banks'[id] = p
      /\ \A k \in Ids \ {id} : mem_banks'[k] = mem_banks[k] /\ ptr_banks'[k] = ptr_banks[k]
  BY <1>0, <1>2, <1>6 DEF TypeOK
<1>8. /\ next_inst_id' \in 1..(MaxInstances + 1) /\ next_inst_id' >= next_inst_id
      /\ id < next_inst_id'
  BY <1>0, <1>1, <1>2
<1> QED BY <1>2, <1>3, <1>4, <1>5, <1>7, <1>8, InteractiveStep, NothingReported

\* What leaves objects, banks and the frame alone, and hands out no id twice.
LEMMA IdleStep ==
    ASSUME IInv, UNCHANGED <<frame_index, obj, mem_banks, ptr_banks>>,
           next_inst_id' \in 1..(MaxInstances + 1), next_inst_id' >= next_inst_id,
           result' \subseteq Ids, shown' \subseteq Ids
    PROVE  IInv'
<1>0. LastFrame' = LastFrame /\ Pending' = Pending /\ Active' = Active
  BY DEF LastFrame, Pending, Active
<1>1. TypeOK'
  BY DEF IInv, TypeOK
<1>2. FreshIdsHaveNoPast'
  <2> SUFFICES ASSUME NEW k \in Ids, k >= next_inst_id'
               PROVE  obj[k] = NoMasklet /\ mem_banks[k] = <<>> /\ ptr_banks[k] = <<>>
    BY DEF FreshIdsHaveNoPast
  <2>1. k >= next_inst_id
    BY DEF IInv, TypeOK, Ids
  <2> QED BY <2>1 DEF IInv, FreshIdsHaveNoPast
<1>3. NobodyOverdue'
  BY <1>0 DEF IInv, NobodyOverdue
<1>4. \A k \in Ids : GoodBank(mem_banks'[k], frame_index') /\ GoodPtrs(ptr_banks'[k], LastFrame')
  BY <1>0 DEF IInv
<1>5. (\A k \in Pending : obj[k].first_frame < frame_index)'
  BY <1>0 DEF IInv
<1> QED BY <1>1, <1>2, <1>3, <1>4, <1>5 DEF IInv, GoodBank, GoodPtrs, Slots

\* A tracker without objects, as it begins and as a reset leaves it.
LEMMA EmptyTracker == Init => IInv /\ ReportedOnce
<1> SUFFICES ASSUME Init PROVE IInv /\ ReportedOnce
  OBVIOUS
<1> USE DEF Init
<1>1. /\ \A id \in Ids : obj[id] = NoMasklet
      /\ \A id \in Ids : mem_banks[id] = <<>> /\ ptr_banks[id] = <<>>
  BY DEF NoBanks
<1>2. Pending = {} /\ Active = {} /\ LastFrame = 0
  BY <1>1, NoneType DEF Pending, Active, LastFrame
<1>3. TypeOK
  <2>1. obj \in [Ids -> Masklets]
    BY NoneType
  <2>2. mem_banks \in [Ids -> Seq(Slots)] /\ ptr_banks \in [Ids -> Seq(0..MaxFrames)]
    BY EmptySeq DEF NoBanks
  <2> QED BY <2>1, <2>2, Bounds DEF TypeOK
<1>4. \A id \in Ids : GoodBank(mem_banks[id], frame_index) /\ GoodPtrs(ptr_banks[id], LastFrame)
  <2>1. 0 \in Nat
    OBVIOUS
  <2> QED BY <2>1, <1>1, <1>2, EmptyIsGood
<1>5. FreshIdsHaveNoPast /\ NobodyOverdue /\ ReportedOnce
  BY <1>1, <1>2 DEF FreshIdsHaveNoPast, NobodyOverdue, ReportedOnce
<1> QED BY <1>2, <1>3, <1>4, <1>5 DEF IInv

\* A reset leaves the tracker as it began.
LEMMA ResetStep == Reset => (IInv /\ ReportedOnce)'
<1>1. Reset => Init'
  BY DEF Reset, Init, Cleared, NoResult, NoBanks
<1> QED BY <1>1, EmptyTracker, PTL

\* Every step keeps the invariant.
LEMMA NextStep ==
    ASSUME IInv, ReportedOnce, [Next]_vars
    PROVE  IInv' /\ ReportedOnce'
<1>0. next_inst_id \in 1..(MaxInstances + 1) /\ result \subseteq Ids /\ shown \subseteq Ids
  BY DEF IInv, TypeOK
<1>1. ASSUME NEW out \in [Tracked -> Outcomes], NEW kept \in SUBSET Ids,
             NEW dets \in Detections, NEW new \in Orders(Unmatched(out, dets)),
             TrackFrame(out, new, kept)
      PROVE  IInv' /\ ReportedOnce'
  BY <1>1, TrackStep
<1>2. ASSUME NEW out \in [Tracked -> Outcomes], NEW kept \in SUBSET Ids,
             PropagateFrame(out, kept)
      PROVE  IInv' /\ ReportedOnce'
  BY <1>2, PropagateStep
<1>3. ASSUME FrameFails PROVE IInv' /\ ReportedOnce'
  <2>1. /\ UNCHANGED <<frame_index, obj, mem_banks, ptr_banks>>
        /\ next_inst_id' = next_inst_id /\ NoResult
    BY <1>3 DEF FrameFails
  <2> QED BY <2>1, <1>0, IdleStep, NothingReported
<1>4. ASSUME NEW thing \in Things, AddInstance(thing) PROVE IInv' /\ ReportedOnce'
  BY <1>4, AddStep
<1>5. ASSUME AddInstanceFails PROVE IInv' /\ ReportedOnce'
  <2>1. /\ UNCHANGED <<frame_index, obj, mem_banks, ptr_banks>>
        /\ next_inst_id \in Ids /\ next_inst_id' = next_inst_id + 1 /\ NoResult
    BY <1>5 DEF AddInstanceFails
  <2>2. next_inst_id' \in 1..(MaxInstances + 1) /\ next_inst_id' >= next_inst_id
    BY <2>1, <1>0, Bounds DEF Ids
  <2> QED BY <2>1, <2>2, <1>0, IdleStep, NothingReported
<1>6. ASSUME NEW id \in Ids, Refine(id) PROVE IInv' /\ ReportedOnce'
  BY <1>6, RefineStep
<1>7. ASSUME Reset PROVE IInv' /\ ReportedOnce'
  BY <1>7, ResetStep
<1>8. ASSUME UNCHANGED vars PROVE IInv' /\ ReportedOnce'
  <2>1. UNCHANGED <<frame_index, next_inst_id, obj, mem_banks, ptr_banks, result, shown>>
    BY <1>8 DEF vars
  <2>2. ReportedOnce'
    BY <2>1 DEF ReportedOnce, Pending, LastFrame
  <2> QED BY <2>1, <2>2, <1>0, IdleStep
<1> QED BY <1>1, <1>2, <1>3, <1>4, <1>5, <1>6, <1>7, <1>8 DEF Next

-----------------------------------------------------------------------------
(* The theorems. *)

\* The inductive invariant, and with it ReportedOnce, holds of every behaviour.
THEOREM Invariant == Spec => [](IInv /\ ReportedOnce)
<1>1. Init => IInv /\ ReportedOnce
  BY EmptyTracker
<1>2. IInv /\ ReportedOnce /\ [Next]_vars => (IInv /\ ReportedOnce)'
  BY NextStep
<1> QED BY <1>1, <1>2, PTL DEF Spec

\* Every variable of the tracker stays in its type, for every length of a video
\* and every sequence of calls.
THEOREM TypeCorrect == Spec => []TypeOK
<1>1. IInv => TypeOK
  BY DEF IInv
<1> QED BY <1>1, Invariant, PTL

\* No bank ever loses the frame its object was defined on, holds frames out of
\* order or one twice (but for frame 0 of an object added before it was
\* tracked), or outgrows the table of temporal positions.
THEOREM MemoriesStayInOrder == Spec => []MemoriesInOrder
<1>1. IInv => MemoriesInOrder
  <2> SUFFICES ASSUME IInv PROVE MemoriesInOrder
    OBVIOUS
  <2>1. ASSUME NEW id \in Ids
        PROVE  /\ BankInOrder(mem_banks[id])
               /\ \A i \in DOMAIN mem_banks[id] : i > 1 => mem_banks[id][i].frame < frame_index
               /\ \A i \in DOMAIN mem_banks[id] :
                     SpatialTpos(mem_banks[id], i) \in 0..(NumMaskmem - 1)
               /\ \A i, j \in DOMAIN mem_banks[id] :
                     SpatialTpos(mem_banks[id], i) = SpatialTpos(mem_banks[id], j) => i = j
    <3>b. PICK b : b = mem_banks[id]
      OBVIOUS
    <3>n. PICK n : n = Len(b)
      OBVIOUS
    <3>1. GoodBank(b, frame_index)
      BY <3>b DEF IInv
    <3>2. b \in Seq(Slots) /\ n \in Nat /\ n <= NumMaskmem /\ DOMAIN b = 1..n
      BY <3>1, <3>n, LenProperties DEF GoodBank
    <3>3. \A i \in 1..n : b[i].is_cond_frame <=> i = 1
      BY <3>1, <3>n DEF GoodBank
    <3>4. BankInOrder(b) /\ \A i \in DOMAIN b : i > 1 => b[i].frame < frame_index
      BY <3>1, <3>2, <3>n DEF GoodBank, BankInOrder
    <3>5. \A i \in 1..n : SpatialTpos(b, i) = IF i = 1 THEN 0 ELSE n - (i - 1)
      BY <3>3, <3>n DEF SpatialTpos
    <3>6. ASSUME NEW i \in 1..n PROVE SpatialTpos(b, i) \in 0..(NumMaskmem - 1)
      BY <3>2, <3>5, BankSizes
    <3>7. ASSUME NEW i \in 1..n, NEW j \in 1..n, SpatialTpos(b, i) = SpatialTpos(b, j)
          PROVE  i = j
      BY <3>2, <3>5, <3>7
    <3> QED BY <3>b, <3>2, <3>4, <3>6, <3>7
  <2>2. ASSUME NEW id \in Ids
        PROVE  /\ Len(ptr_banks[id]) <= MaxObjPtrs
               /\ \A i, j \in DOMAIN ptr_banks[id] :
                     i < j => ptr_banks[id][i] <= ptr_banks[id][j]
               /\ \A i \in DOMAIN ptr_banks[id] : ptr_banks[id][i] <= LastFrame
    <3>1. GoodPtrs(ptr_banks[id], LastFrame)
      BY DEF IInv
    <3>2. DOMAIN ptr_banks[id] = 1..Len(ptr_banks[id])
      BY <3>1, LenProperties DEF GoodPtrs
    <3> QED BY <3>1, <3>2 DEF GoodPtrs
  <2> QED BY <2>1, <2>2 DEF MemoriesInOrder, BanksInOrder, EverySlotHasItsTpos, PtrsInOrder
<1> QED BY <1>1, Invariant, PTL

\* An id that was not handed out yet has no object, no memory and no pointer.
THEOREM FreshIdsStayFresh == Spec => []FreshIdsHaveNoPast
<1>1. IInv => FreshIdsHaveNoPast
  BY DEF IInv
<1> QED BY <1>1, Invariant, PTL

\* Candidates are decided and lost objects given up when they are due, for every
\* hotstart delay and every keep-alive.
THEOREM NobodyGetsOverdue == Spec => []NobodyOverdue
<1>1. IInv => NobodyOverdue
  BY DEF IInv
<1> QED BY <1>1, Invariant, PTL

\* What a call reports by a propagated mask it does not also report as new.
THEOREM NothingReportedTwice == Spec => []ReportedOnce
BY Invariant, PTL

\* What a frame gives up or has given up has no object any more; its banks are
\* gone or left as they are.
LEMMA FrameLoses ==
    ASSUME TypeOK, NEW masklets0 \in [Ids -> Masklets], NEW remember, NEW kept, NEW new,
           EndOfFrame(masklets0, remember, kept, new), kept \subseteq remember,
           NEW id \in Ids, masklets0[id].status = obj[id].status,
           id \in remember => id \in Tracked
    PROVE  /\ obj[id].status = "active" /\ obj'[id].status = "none"
                 => mem_banks'[id] = <<>> /\ ptr_banks'[id] = <<>>
           /\ obj[id].status = "none"
                 => /\ obj'[id].status = "none"
                    /\ mem_banks'[id] = mem_banks[id]
                    /\ ptr_banks'[id] = ptr_banks[id]
<1>1. frame_index \in 0..MaxFrames
  BY DEF TypeOK
<1>2. obj[id].status = "none" => id \notin remember /\ id \notin kept
  BY DEF Tracked, Pending, Active
<1> QED BY <1>1, <1>2, FrameKeeps

\* A tracked frame and a propagated one do what LostStaysLost says.
LEMMA TrackLoses ==
    ASSUME TypeOK, NEW out \in [Tracked -> Outcomes], NEW kept \in SUBSET Ids,
           NEW dets \in Detections, NEW new \in Orders(Unmatched(out, dets)),
           TrackFrame(out, new, kept)
    PROVE  Loses
<1>n. PICK n : n = Len(new)
  OBVIOUS
<1>i. PICK newIds : newIds = next_inst_id .. (next_inst_id + n - 1)
  OBVIOUS
<1>q. PICK p : p = Propagated(out)
  OBVIOUS
<1>m. PICK masklets0 : masklets0 = Spawn(p, new)
  OBVIOUS
<1>r. PICK remember : remember = Propagates(out) \cup newIds
  OBVIOUS
<1>u. PICK things : things = Unmatched(out, dets)
  OBVIOUS
<1>0. /\ frame_index \in 0..MaxFrames /\ next_inst_id \in 1..(MaxInstances + 1)
      /\ next_inst_id \in Nat /\ MaxInstances \in Nat
  BY Bounds DEF TypeOK
<1>1. new \in Seq(things) /\ n \in Nat /\ things \in SUBSET Things
  BY <1>n, <1>u, UnmatchedOrder
<1>2. /\ kept \subseteq remember
      /\ EndOfFrame(masklets0, remember, kept, newIds)
  BY <1>n, <1>i, <1>q, <1>m, <1>r DEF TrackFrame
<1>3. p \in [Ids -> Masklets]
  <2>1. \A k \in Ids : p[k] \in Masklets
    BY <1>q, PropagatedType
  <2>2. p = [k \in Ids |-> p[k]]
    BY <1>q DEF Propagated
  <2> QED BY <2>1, <2>2
<1>4. masklets0 \in [Ids -> Masklets]
  <2>1. \A k \in Ids : masklets0[k] \in Masklets
    BY <1>m, <1>3, <1>1, <1>0, SpawnType
  <2>2. masklets0 = [k \in Ids |-> masklets0[k]]
    BY <1>m DEF Spawn
  <2> QED BY <2>1, <2>2
<1>5. ASSUME NEW id \in 1..(next_inst_id - 1)
      PROVE  /\ id \in Ids /\ masklets0[id].status = obj[id].status
             /\ id \in remember => id \in Tracked
  <2>1. id \in Ids /\ ~(id >= next_inst_id) /\ id \notin newIds
    BY <1>0, <1>1, <1>i DEF Ids
  <2>2. masklets0[id] = p[id]
    BY <2>1, <1>m DEF Spawn
  <2>3. p[id].status = obj[id].status
    BY <2>1, <1>q, PropagatedType
  <2>4. id \in remember => id \in Tracked
    BY <2>1, <1>r, TrackedSets
  <2> QED BY <2>1, <2>2, <2>3, <2>4
<1> QED BY <1>2, <1>4, <1>5, FrameLoses DEF Loses

\* See TrackLoses.
LEMMA PropagateLoses ==
    ASSUME TypeOK, NEW out \in [Tracked -> Outcomes], NEW kept \in SUBSET Ids,
           PropagateFrame(out, kept)
    PROVE  Loses
<1>m. PICK masklets0 : masklets0 = Propagated(out)
  OBVIOUS
<1>e. PICK none : none = {}
  OBVIOUS
<1>2. /\ kept \subseteq Propagates(out)
      /\ EndOfFrame(masklets0, Propagates(out), kept, none)
  BY <1>e, <1>m DEF PropagateFrame
<1>4. masklets0 \in [Ids -> Masklets]
  <2>1. \A k \in Ids : masklets0[k] \in Masklets
    BY <1>m, PropagatedType
  <2>2. masklets0 = [k \in Ids |-> masklets0[k]]
    BY <1>m DEF Propagated
  <2> QED BY <2>1, <2>2
<1>5. ASSUME NEW id \in 1..(next_inst_id - 1)
      PROVE  /\ id \in Ids /\ masklets0[id].status = obj[id].status
             /\ id \in Propagates(out) => id \in Tracked
  <2>1. id \in Ids
    BY Bounds DEF TypeOK, Ids
  <2> QED BY <2>1, <1>m, PropagatedType, TrackedSets
<1> QED BY <1>2, <1>4, <1>5, FrameLoses DEF Loses

\* Outside the frames no object is given up, but by a reset, and nothing of an
\* object that is gone is touched.
LEMMA InteractiveLoses ==
    ASSUME TypeOK,
           \/ FrameFails
           \/ \E thing \in Things : AddInstance(thing)
           \/ AddInstanceFails
           \/ \E id \in Ids : Refine(id)
           \/ Reset
           \/ UNCHANGED vars
    PROVE  Loses
<1> SUFFICES ASSUME NEW id \in 1..(next_inst_id - 1)
             PROVE  /\ obj[id].status = "active" /\ obj'[id].status = "none"
                          => mem_banks'[id] = <<>> /\ ptr_banks'[id] = <<>>
                    /\ obj[id].status = "none" /\ next_inst_id' # 1
                          => /\ obj'[id].status = "none"
                             /\ mem_banks'[id] = mem_banks[id]
                             /\ ptr_banks'[id] = ptr_banks[id]
  BY DEF Loses
<1>0. /\ id \in Ids /\ id # next_inst_id /\ next_inst_id \in Int
      /\ obj \in [Ids -> Masklets] /\ obj[id] \in Masklets
      /\ mem_banks \in [Ids -> Seq(Slots)] /\ ptr_banks \in [Ids -> Seq(0..MaxFrames)]
  BY Bounds DEF TypeOK, Ids
<1>1. CASE FrameFails
  BY <1>1 DEF FrameFails
<1>2. CASE \E thing \in Things : AddInstance(thing)
  <2>1. obj'[id] = obj[id] /\ mem_banks'[id] = mem_banks[id] /\ ptr_banks'[id] = ptr_banks[id]
    BY <1>0, <1>2 DEF AddInstance
  <2> QED BY <2>1
<1>3. CASE AddInstanceFails
  BY <1>3 DEF AddInstanceFails
<1>4. CASE \E k \in Ids : Refine(k)
  <2> PICK k \in Ids : Refine(k)
    BY <1>4
  <2>1. CASE id = k
    <3>1. obj[id].status # "none"
      BY <2>1 DEF Refine, Tracked, Pending, Active
    <3>2. obj'[id].status = obj[id].status
      BY <2>1, <1>0 DEF Refine, Masklets
    <3> QED BY <3>1, <3>2
  <2>2. CASE id # k
    <3>1. obj'[id] = obj[id] /\ mem_banks'[id] = mem_banks[id] /\ ptr_banks'[id] = ptr_banks[id]
      BY <1>0, <2>2 DEF Refine
    <3> QED BY <3>1
  <2> QED BY <2>1, <2>2
<1>5. CASE Reset
  BY <1>0, <1>5 DEF Reset, Cleared, NoBanks
<1>6. CASE UNCHANGED vars
  BY <1>6 DEF vars
<1> QED BY <1>1, <1>2, <1>3, <1>4, <1>5, <1>6

\* An object that is given up takes its banks with it and never comes back, and
\* nothing writes the banks of one that is gone until a reset.
THEOREM LostStaysGone == Spec => LostStaysLost
<1>1. TypeOK /\ [Next]_vars => Loses
  <2> SUFFICES ASSUME TypeOK, [Next]_vars PROVE Loses
    OBVIOUS
  <2>1. ASSUME NEW out \in [Tracked -> Outcomes], NEW kept \in SUBSET Ids,
               NEW dets \in Detections, NEW new \in Orders(Unmatched(out, dets)),
               TrackFrame(out, new, kept)
        PROVE  Loses
    BY <2>1, TrackLoses
  <2>2. ASSUME NEW out \in [Tracked -> Outcomes], NEW kept \in SUBSET Ids,
               PropagateFrame(out, kept)
        PROVE  Loses
    BY <2>2, PropagateLoses
  <2> QED BY <2>1, <2>2, InteractiveLoses DEF Next
<1> QED BY <1>1, TypeCorrect, PTL DEF Spec, LostStaysLost
=============================================================================
