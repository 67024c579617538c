----------------------------- MODULE DictProofs -----------------------------
(***************************************************************************)
(* For every set of names, every hash function and every size of bucket,   *)
(* table and segment: the hash table of a dictionary agrees with its       *)
(* linear search, nothing is written beyond what is allocated, and the     *)
(* dictionary implements the symbol table that dict.h describes.           *)
(***************************************************************************)
EXTENDS Dict, TLAPS

LEMMA BucketType == \A n \in Names : Bucket(n) \in 0..(TblSz - 1)
  BY DictAssumption DEF Bucket, hash_symbol

\* The types that the steps below need, in one place.
LEMMA Types ==
  ASSUME IndInv
  PROVE  /\ sv \in Seq(Names) /\ Len(sv) \in Nat
         /\ ovfl \in Seq([ov_symnr : Nat, ov_next : Nat]) /\ Len(ovfl) \in Nat
         /\ s \in Names /\ Bucket(s) \in 0..(TblSz - 1)
         /\ entnr \in 0..Assoc /\ Assoc \in Nat
         /\ \A i \in 1..Len(sv) : sv[i] \in Names /\ Bucket(sv[i]) \in 0..(TblSz - 1)
         /\ \A j \in 1..Len(ovfl) : ovfl[j].ov_symnr \in Nat /\ ovfl[j].ov_next \in Nat
         /\ \A b \in 0..(TblSz - 1) : chain[b] \in Nat
         /\ \A b \in 0..(TblSz - 1) : \A e \in 0..(Assoc - 1) :
               tbl[b][e].symnr \in Nat /\ tbl[b][e].h \in Nat
  <1>1. /\ sv \in Seq(Names)
        /\ ovfl \in Seq([ov_symnr : Nat, ov_next : Nat])
        /\ s \in Names /\ entnr \in 0..Assoc
        /\ chain \in [0..(TblSz - 1) -> Nat]
        /\ tbl \in [0..(TblSz - 1) -> [0..(Assoc - 1) -> [h : Nat, symnr : Nat]]]
    BY DEF IndInv, TypeOK
  <1>2. Assoc \in Nat
    BY DictAssumption
  <1>3. Len(sv) \in Nat /\ Len(ovfl) \in Nat
    BY <1>1
  <1>4. \A i \in 1..Len(sv) : sv[i] \in Names
    BY <1>1
  <1>5. \A j \in 1..Len(ovfl) : ovfl[j] \in [ov_symnr : Nat, ov_next : Nat]
    <2> DEFINE R == [ov_symnr : Nat, ov_next : Nat]
    <2>1. ovfl \in Seq(R)
      BY <1>1
    <2> HIDE DEF R
    <2>2. \A j \in 1..Len(ovfl) : ovfl[j] \in R
      BY <2>1
    <2>3. QED
      BY <2>2 DEF R
  <1>6. \A b \in 0..(TblSz - 1) : \A e \in 0..(Assoc - 1) :
           tbl[b][e] \in [h : Nat, symnr : Nat]
    BY <1>1
  <1>7. QED
    BY <1>1, <1>2, <1>3, <1>4, <1>5, <1>6, BucketType

\* The initial state.
LEMMA DictInit == Init => IndInv
  <1> SUFFICES ASSUME Init PROVE IndInv
    OBVIOUS
  <1>1. sv = <<>> /\ ovfl = <<>> /\ Len(sv) = 0 /\ Len(ovfl) = 0
    BY DEF Init, hashmap_new
  <1>2. \A b \in 0..(TblSz - 1) : \A e \in 0..(Assoc - 1) :
           tbl[b][e] = [h |-> 0, symnr |-> undef_symnr]
    BY DEF Init, hashmap_new
  <1>3. \A b \in 0..(TblSz - 1) : chain[b] = undef_ovflnr
    BY DEF Init, hashmap_new
  <1>4. TypeOK
    <2>1. tbl \in [0..(TblSz - 1) -> [0..(Assoc - 1) -> [h : Nat, symnr : Nat]]]
      BY DEF Init, hashmap_new, undef_symnr
    <2>2. sv \in Seq(Names) /\ ovfl \in Seq([ov_symnr : Nat, ov_next : Nat])
      BY <1>1
    <2>3. sz \in Nat /\ ovfl_sz \in Nat /\ entnr \in 0..Assoc /\ ovfl_entnr \in Nat
          /\ hsymnr \in Nat /\ symnr \in Nat
      <3>1. sz = SegSize /\ ovfl_sz = 0 /\ entnr = 0 /\ ovfl_entnr = 0 /\ hsymnr = 0
            /\ symnr = 0
        BY DEF Init, hashmap_new, undef_symnr, undef_ovflnr
      <3>2. QED
        BY <3>1, DictAssumption
    <2>6. hashtable \in BOOLEAN /\ op \in {"add", "find"} /\ s \in Names /\ pc = "idle"
      BY Zenon DEF Init, hashmap_new
    <2>4. chain \in [0..(TblSz - 1) -> Nat]
      BY DEF Init, hashmap_new, undef_ovflnr
    <2>5. QED
      BY <2>1, <2>2, <2>3, <2>4, <2>6 DEF TypeOK
  <1>5. SlotsOK
    <2>1. \A b \in 0..(TblSz - 1) : \A e \in 0..(Assoc - 1) :
            /\ tbl[b][e].symnr = undef_symnr
            /\ \A f \in e..(Assoc - 1) : f \in 0..(Assoc - 1)
      BY <1>2, DictAssumption
    <2>2. QED
      BY <1>3, <2>1 DEF SlotsOK
  <1>6. ChainsOK
    BY <1>1, <1>3 DEF ChainsOK, FirstAfter
  <1>7. InCapacity
    BY <1>1, DictAssumption DEF Init, hashmap_new, InCapacity, dict_len
  <1>8. DistinctNames /\ Complete
    BY <1>1 DEF DistinctNames, Complete
  <1>9. pc = "idle"
    BY DEF Init, hashmap_new
  <1>10. NoAbort /\ SearchOK /\ HashtableExists
    BY <1>9 DEF NoAbort, SearchOK, HashtableExists
  <1>11. QED
    BY <1>4, <1>5, <1>6, <1>7, <1>8, <1>10 DEF IndInv

\* A name that is in no entry of its bucket and in no overflow entry of its
\* bucket is not in the dictionary, as long as no symbol is being entered.
LEMMA NotThere ==
  ASSUME IndInv, Entering = {},
         \A e \in 0..(Assoc - 1) :
            \/ tbl[Bucket(s)][e].symnr = undef_symnr
            \/ sv[tbl[Bucket(s)][e].symnr] # s,
         \A j \in 1..Len(ovfl) :
            OvflBucket(j) = Bucket(s) => sv[ovfl[j].ov_symnr] # s
  PROVE  Absent
  <1> SUFFICES ASSUME NEW i \in 1..Len(sv), sv[i] = s PROVE FALSE
    BY DEF Absent
  <1>1. i # 0
    BY Types
  <1>2. InSlot(i) \/ InOvfl(i)
    BY DEF IndInv, Complete
  <1>3. CASE InSlot(i)
    BY <1>1, <1>3 DEF InSlot, undef_symnr
  <1>4. CASE InOvfl(i)
    BY <1>4 DEF InOvfl, OvflBucket
  <1>5. QED
    BY <1>2, <1>3, <1>4

\* A step that leaves the dictionary and its hash table alone keeps what is
\* said of them alone.
LEMMA StoreUnchanged ==
  ASSUME IndInv, sv' = sv, sz' = sz, tbl' = tbl, chain' = chain, ovfl' = ovfl,
         ovfl_sz' = ovfl_sz
  PROVE  (InCapacity /\ DistinctNames /\ SlotsOK /\ ChainsOK)'
  <1>1. SlotsOK'
    BY DEF IndInv, SlotsOK
  <1>2. ChainsOK'
    BY DEF IndInv, ChainsOK, FirstAfter, OvflBucket
  <1>3. QED
    BY <1>1, <1>2 DEF IndInv, InCapacity, DistinctNames, dict_len, ovfl_len

\* An operation is called.
LEMMA CallKeeps == ASSUME IndInv, Call PROVE IndInv'
  <1>1. sv' = sv /\ sz' = sz /\ tbl' = tbl /\ chain' = chain /\ ovfl' = ovfl
        /\ ovfl_sz' = ovfl_sz /\ pc = "idle" /\ pc' = "find_slots" /\ entnr' = 0
        /\ hashtable' = TRUE
    BY DEF Call
  <1>2. TypeOK'
    <2>1. /\ op' \in {"add", "find"} /\ s' \in Names /\ ovfl_entnr' = ovfl_entnr
          /\ hsymnr' = hsymnr /\ symnr' = symnr
      BY DEF Call
    <2>2. 0 \in 0..Assoc
      BY DictAssumption
    <2>3. TypeOK
      BY DEF IndInv
    <2>4. QED
      BY <1>1, <2>1, <2>2, <2>3 DEF TypeOK
  <1>3. Complete'
    BY <1>1 DEF IndInv, Complete, Entering, InSlot, InOvfl
  <1>4. SearchOK'
    BY <1>1 DEF SearchOK, PassedSlots
  <1>5. QED
    BY <1>1, <1>2, <1>3, <1>4, StoreUnchanged DEF IndInv, NoAbort, HashtableExists

\* The search through the entries of a bucket.
LEMMA FindSlotKeeps == ASSUME IndInv, FindSlot PROVE IndInv'
  <1> DEFINE b == Bucket(s)
             ent == tbl[b][entnr]
  <1>1. /\ sv' = sv /\ sz' = sz /\ hashtable' = hashtable /\ tbl' = tbl
        /\ chain' = chain /\ ovfl' = ovfl /\ ovfl_sz' = ovfl_sz
        /\ op' = op /\ s' = s /\ symnr' = symnr /\ pc = "find_slots"
    BY DEF FindSlot, store
  <1>2. /\ PassedSlots(b, entnr) /\ Entering = {} /\ hashtable
    BY <1>1 DEF IndInv, SearchOK, Entering, HashtableExists
  <1>3. /\ FirstAfter(0, b, chain[b])
        /\ b \in 0..(TblSz - 1)
    BY Types DEF IndInv, ChainsOK
  <1>4. ASSUME chain[b] = undef_ovflnr, NEW j \in 1..Len(ovfl) PROVE OvflBucket(j) # b
    BY <1>3, <1>4 DEF FirstAfter
  \* The four ways to leave, or go on.
  <1>5. ASSUME pc' \in {"find_slots", "find_chain", "compare"}, SearchOK',
               entnr' \in 0..Assoc, ovfl_entnr' \in Nat, hsymnr' \in Nat
        PROVE  IndInv'
    <2>1. TypeOK'
      BY <1>1, <1>5 DEF IndInv, TypeOK
    <2>2. Complete'
      BY <1>1, <1>2, <1>5 DEF IndInv, Complete, Entering, InSlot, InOvfl
    <2>3. QED
      BY <1>1, <1>2, <1>5, <2>1, <2>2, StoreUnchanged
         DEF IndInv, NoAbort, HashtableExists
  <1>6. ovfl_entnr \in Nat /\ hsymnr \in Nat
    BY DEF IndInv, TypeOK
  <1>7. CASE entnr = Assoc /\ chain[b] = undef_ovflnr
    <2>1. pc' = "compare" /\ hsymnr' = undef_symnr /\ UNCHANGED <<entnr, ovfl_entnr>>
      BY <1>7 DEF FindSlot, FoundHash
    <2>2. Absent
      BY <1>2, <1>4, <1>7, NotThere DEF PassedSlots
    <2>3. SearchOK'
      BY <1>1, <2>1, <2>2 DEF SearchOK, Absent
    <2>4. QED
      BY <1>5, <1>6, <2>1, <2>3, Types DEF undef_symnr
  <1>8. CASE entnr = Assoc /\ chain[b] # undef_ovflnr
    <2>1. pc' = "find_chain" /\ ovfl_entnr' = chain[b] /\ UNCHANGED <<entnr, hsymnr>>
      BY <1>8 DEF FindSlot
    <2>2. /\ chain[b] \in 1..Len(ovfl)
          /\ OvflBucket(chain[b]) = b
          /\ \A j \in 1..(chain[b] - 1) : OvflBucket(j) # b
      <3>1. /\ chain[b] \in (0 + 1)..Len(ovfl) /\ OvflBucket(chain[b]) = b
            /\ \A k \in (0 + 1)..Len(ovfl) : k < chain[b] => OvflBucket(k) # b
        BY <1>3, <1>8 DEF FirstAfter
      <3>2. Len(ovfl) \in Nat /\ chain[b] \in Nat
        BY <1>3, Types
      <3> HIDE DEF b
      <3>3. QED
        BY <3>1, <3>2
    <2>3. SearchOK'
      BY <1>1, <1>2, <1>8, <2>1, <2>2
         DEF SearchOK, PassedSlots, PassedChain, OvflBucket
    <2>4. QED
      BY <1>3, <1>5, <1>6, <2>1, <2>3, Types
  <1>9. CASE entnr # Assoc /\ ent.symnr = undef_symnr
    <2>1. pc' = "compare" /\ hsymnr' = undef_symnr /\ UNCHANGED <<entnr, ovfl_entnr>>
      BY <1>9 DEF FindSlot, FoundHash
    <2>2. entnr \in 0..(Assoc - 1)
      BY <1>9, Types
    <2>3. chain[b] = undef_ovflnr
          /\ \A f \in entnr..(Assoc - 1) : tbl[b][f].symnr = undef_symnr
      BY <1>3, <1>9, <2>2 DEF IndInv, SlotsOK
    <2>4. \A e \in 0..(Assoc - 1) :
             tbl[b][e].symnr = undef_symnr \/ sv[tbl[b][e].symnr] # s
      BY <1>2, <2>2, <2>3 DEF PassedSlots
    <2>5. Absent
      BY <1>2, <1>4, <2>3, <2>4, NotThere
    <2>6. SearchOK'
      BY <1>1, <2>1, <2>5 DEF SearchOK, Absent
    <2>7. QED
      BY <1>5, <1>6, <2>1, <2>6, Types DEF undef_symnr
  <1>10. CASE entnr # Assoc /\ ent.symnr # undef_symnr
    <2>1. entnr \in 0..(Assoc - 1)
      BY <1>10, Types
    <2>2. ent.symnr \in 1..Len(sv) /\ ent.h = hash_symbol(sv[ent.symnr])
      BY <1>3, <1>10, <2>1 DEF IndInv, SlotsOK
    <2>3. CASE sv[ent.symnr] = s
      <3>1. pc' = "compare" /\ hsymnr' = ent.symnr /\ UNCHANGED <<entnr, ovfl_entnr>>
        BY <1>10, <2>2, <2>3 DEF FindSlot, FoundHash
      <3>2. SearchOK'
        BY <1>1, <2>2, <2>3, <3>1 DEF SearchOK
      <3>3. QED
        BY <1>5, <1>6, <2>2, <3>1, <3>2, Types
    <2>4. CASE sv[ent.symnr] # s
      <3>1. pc' = pc /\ entnr' = entnr + 1 /\ UNCHANGED <<ovfl_entnr, hsymnr>>
        BY <1>10, <2>4 DEF FindSlot
      <3>2. \A e \in 0..((entnr + 1) - 1) : e \in 0..(entnr - 1) \/ e = entnr
        BY Types
      <3>3. PassedSlots(b, entnr + 1)
        BY <1>2, <1>10, <2>4, <3>2 DEF PassedSlots
      <3>4. SearchOK'
        BY <1>1, <3>1, <3>3 DEF SearchOK, PassedSlots
      <3>5. entnr + 1 \in 0..Assoc
        BY <2>1, Types
      <3>6. QED
        BY <1>1, <1>5, <1>6, <3>1, <3>4, <3>5
    <2>5. QED
      BY <2>3, <2>4
  <1>11. QED
    BY <1>7, <1>8, <1>9, <1>10

\* The search through an overflow chain.
LEMMA FindChainKeeps == ASSUME IndInv, FindChain PROVE IndInv'
  <1> DEFINE b == Bucket(s)
             cur == ovfl_entnr
  <1>1. /\ sv' = sv /\ sz' = sz /\ hashtable' = hashtable /\ tbl' = tbl
        /\ chain' = chain /\ ovfl' = ovfl /\ ovfl_sz' = ovfl_sz
        /\ op' = op /\ s' = s /\ symnr' = symnr /\ pc = "find_chain"
    BY DEF FindChain, store
  <1>2. /\ PassedSlots(b, Assoc) /\ PassedChain(b) /\ Entering = {} /\ hashtable
    BY <1>1 DEF IndInv, SearchOK, Entering, HashtableExists
  <1>3. /\ cur \in 1..Len(ovfl) /\ OvflBucket(cur) = b
        /\ \A j \in 1..(cur - 1) : OvflBucket(j) = b => sv[ovfl[j].ov_symnr] # s
    BY <1>2 DEF PassedChain
  <1>4. /\ FirstAfter(cur, b, ovfl[cur].ov_next)
        /\ ovfl[cur].ov_symnr \in 1..Len(sv)
    BY <1>3 DEF IndInv, ChainsOK
  <1>5. ASSUME pc' \in {"find_chain", "compare"}, SearchOK', entnr' = entnr,
               ovfl_entnr' \in Nat, hsymnr' \in Nat
        PROVE  IndInv'
    <2>1. TypeOK'
      BY <1>1, <1>5 DEF IndInv, TypeOK
    <2>2. Complete'
      BY <1>1, <1>2, <1>5 DEF IndInv, Complete, Entering, InSlot, InOvfl
    <2>3. QED
      BY <1>1, <1>2, <1>5, <2>1, <2>2, StoreUnchanged
         DEF IndInv, NoAbort, HashtableExists
  <1>6. ovfl_entnr \in Nat /\ hsymnr \in Nat
    BY DEF IndInv, TypeOK
  <1>7. CASE sv[ovfl[cur].ov_symnr] = s
    <2>1. pc' = "compare" /\ hsymnr' = ovfl[cur].ov_symnr
          /\ UNCHANGED <<entnr, ovfl_entnr>>
      BY <1>7 DEF FindChain, FoundHash
    <2>2. SearchOK'
      BY <1>1, <1>4, <1>7, <2>1 DEF SearchOK
    <2>3. QED
      BY <1>4, <1>5, <1>6, <2>1, <2>2, Types
  <1>8. CASE sv[ovfl[cur].ov_symnr] # s /\ ovfl[cur].ov_next = undef_ovflnr
    <2>1. pc' = "compare" /\ hsymnr' = undef_symnr /\ UNCHANGED <<entnr, ovfl_entnr>>
      BY <1>8 DEF FindChain, FoundHash
    <2>2. \A j \in (cur + 1)..Len(ovfl) : OvflBucket(j) # b
      BY <1>4, <1>8 DEF FirstAfter
    <2>3. \A j \in 1..Len(ovfl) :
             j \in 1..(cur - 1) \/ j = cur \/ j \in (cur + 1)..Len(ovfl)
      BY <1>3, Types
    <2>4. \A j \in 1..Len(ovfl) : OvflBucket(j) = b => sv[ovfl[j].ov_symnr] # s
      BY <1>3, <1>8, <2>2, <2>3
    <2>5. Absent
      BY <1>2, <2>4, NotThere DEF PassedSlots
    <2>6. SearchOK'
      BY <1>1, <2>1, <2>5 DEF SearchOK, Absent
    <2>7. QED
      BY <1>5, <1>6, <2>1, <2>6 DEF undef_symnr
  <1>9. CASE sv[ovfl[cur].ov_symnr] # s /\ ovfl[cur].ov_next # undef_ovflnr
    <2> DEFINE next == ovfl[cur].ov_next
    <2>1. pc' = pc /\ ovfl_entnr' = next /\ UNCHANGED <<entnr, hsymnr>>
      BY <1>9 DEF FindChain, FollowLink
    <2>2. /\ next \in (cur + 1)..Len(ovfl) /\ OvflBucket(next) = b
          /\ \A k \in (cur + 1)..Len(ovfl) : k < next => OvflBucket(k) # b
      BY <1>4, <1>9 DEF FirstAfter
    <2>3. next \in 1..Len(ovfl)
          /\ \A j \in 1..(next - 1) :
                \/ j \in 1..(cur - 1) \/ j = cur
                \/ j \in (cur + 1)..Len(ovfl) /\ j < next
      <3>1. next \in (cur + 1)..Len(ovfl) /\ cur \in 1..Len(ovfl) /\ Len(ovfl) \in Nat
        BY <1>3, <2>2, Types
      <3> HIDE DEF next, cur
      <3>2. QED
        BY <3>1
    <2>4. \A j \in 1..(next - 1) : OvflBucket(j) = b => sv[ovfl[j].ov_symnr] # s
      BY <1>3, <1>9, <2>2, <2>3
    <2>5. SearchOK'
      BY <1>1, <1>2, <2>1, <2>2, <2>3, <2>4
         DEF SearchOK, PassedSlots, PassedChain, OvflBucket
    <2>6. next \in Nat
      BY <2>3, Types
    <2>7. QED
      BY <1>1, <1>5, <1>6, <2>1, <2>5, <2>6
  <1>10. QED
    BY <1>7, <1>8, <1>9

\* The answer of the hash table is the answer of the linear search.
LEMMA AnswersAgree ==
  ASSUME IndInv, pc = "compare"
  PROVE  hsymnr = dict_find_linear(s)
  <1> DEFINE found == {i \in 1..Len(sv) : sv[i] = s}
  <1>1. CASE hsymnr = undef_symnr /\ Absent
    <2>1. found = {}
      BY <1>1 DEF Absent
    <2>2. QED
      BY <1>1, <2>1 DEF dict_find_linear
  <1>2. CASE hsymnr \in 1..Len(sv) /\ sv[hsymnr] = s
    <2>1. \A i \in found : i = hsymnr
      BY <1>2 DEF IndInv, DistinctNames
    <2>2. found = {hsymnr}
      BY <1>2, <2>1
    <2>3. hsymnr <= hsymnr
      BY <1>2, Types
    <2>4. hsymnr = CHOOSE i \in found : \A j \in found : i <= j
      BY <2>2, <2>3
    <2>5. QED
      BY <2>2, <2>4 DEF dict_find_linear
  <1>3. QED
    BY <1>1, <1>2 DEF IndInv, SearchOK

\* Both answers are compared.
LEMMA CompareKeeps == ASSUME IndInv, Compare PROVE IndInv'
  <1>1. /\ sv' = sv /\ sz' = sz /\ hashtable' = hashtable /\ tbl' = tbl
        /\ chain' = chain /\ ovfl' = ovfl /\ ovfl_sz' = ovfl_sz
        /\ op' = op /\ s' = s /\ hsymnr' = hsymnr /\ ovfl_entnr' = ovfl_entnr
        /\ pc = "compare"
    BY DEF Compare, store
  <1>2. hsymnr = dict_find_linear(s)
    BY <1>1, AnswersAgree
  <1>3. /\ symnr' = hsymnr /\ entnr' = 0
        /\ pc' = IF op = "find" THEN "return"
                 ELSE IF hsymnr = undef_symnr THEN "append" ELSE "add_slots"
    BY <1>2 DEF Compare, AfterFind
  <1>4. /\ \/ hsymnr = undef_symnr /\ Absent
           \/ hsymnr \in 1..Len(sv) /\ sv[hsymnr] = s
        /\ Entering = {} /\ hashtable /\ op \in {"add", "find"}
    BY <1>1 DEF IndInv, SearchOK, Entering, HashtableExists, TypeOK
  <1>5. pc' \in {"return", "append", "add_slots"}
    BY <1>3
  <1>6. TypeOK'
    <2>1. hsymnr \in Nat /\ 0 \in 0..Assoc
      BY DictAssumption DEF IndInv, TypeOK
    <2>2. QED
      BY <1>1, <1>3, <1>5, <2>1 DEF IndInv, TypeOK
  <1>7. Complete'
    BY <1>1, <1>4 DEF IndInv, Complete, Entering, InSlot, InOvfl
  <1>8. SearchOK'
    <2>1. CASE pc' = "return"
      BY <2>1 DEF SearchOK
    <2>2. CASE pc' = "append"
      <3>1. op = "add" /\ hsymnr = undef_symnr
        BY <1>3, <1>4, <2>2
      <3>2. hsymnr \notin 1..Len(sv)
        BY <3>1 DEF undef_symnr
      <3>3. Absent'
        BY <1>1, <1>4, <3>2 DEF Absent
      <3>4. QED
        BY <1>1, <1>3, <2>2, <3>1, <3>3 DEF SearchOK
    <2>3. CASE pc' = "add_slots"
      <3>1. op = "add" /\ hsymnr \in 1..Len(sv) /\ sv[hsymnr] = s
        BY <1>3, <1>4, <2>3
      <3>2. \A e \in 0..(0 - 1) : FALSE
        OBVIOUS
      <3>3. QED
        BY <1>1, <1>3, <2>3, <3>1, <3>2 DEF SearchOK
    <2>4. QED
      BY <1>5, <2>1, <2>2, <2>3
  <1>9. QED
    BY <1>1, <1>4, <1>5, <1>6, <1>7, <1>8, StoreUnchanged
       DEF IndInv, NoAbort, HashtableExists

\* A new name is appended; the hash table does not know it yet.
LEMMA AppendKeeps == ASSUME IndInv, dict_append_symbol PROVE IndInv'
  <1> DEFINE n == Len(sv) + 1
  <1>1. /\ sv' = Append(sv, s) /\ hashtable' = hashtable /\ tbl' = tbl
        /\ chain' = chain /\ ovfl' = ovfl /\ ovfl_sz' = ovfl_sz /\ op' = op /\ s' = s
        /\ entnr' = entnr /\ ovfl_entnr' = ovfl_entnr /\ hsymnr' = hsymnr
        /\ pc = "append" /\ pc' = "add_slots" /\ symnr' = n
        /\ sz' = IF n >= sz THEN sz + SegSize ELSE sz
    BY DEF dict_append_symbol, dict_len, Grown
  <1>2. /\ op = "add" /\ Absent /\ entnr = 0 /\ hashtable /\ Entering = {}
    BY <1>1 DEF IndInv, SearchOK, HashtableExists, Entering
  <1>3. /\ Len(sv') = n /\ n \in Nat /\ n \in 1..n /\ sv'[n] = s
        /\ \A i \in 1..Len(sv) : i \in 1..n /\ i # n /\ sv'[i] = sv[i]
        /\ \A i \in 1..n : i \in 1..Len(sv) \/ i = n
    BY <1>1, Types
  <1>4. TypeOK'
    <2>1. sv' \in Seq(Names)
      BY <1>1, Types
    <2>2. sz' \in Nat
      BY <1>1, DictAssumption DEF IndInv, TypeOK
    <2>3. QED
      BY <1>1, <1>3, <2>1, <2>2 DEF IndInv, TypeOK
  <1>5. InCapacity'
    <2>1. n <= sz /\ sz \in Nat /\ SegSize \in Nat \ {0}
      BY DictAssumption DEF IndInv, InCapacity, dict_len, TypeOK
    <2>2. dict_len' <= sz'
      BY <1>1, <1>3, <2>1 DEF dict_len
    <2>3. QED
      BY <1>1, <2>2 DEF IndInv, InCapacity, ovfl_len
  <1>6. DistinctNames'
    BY <1>2, <1>3 DEF IndInv, DistinctNames, Absent
  <1>7. SlotsOK'
    <2> SUFFICES ASSUME NEW b \in 0..(TblSz - 1), NEW e \in 0..(Assoc - 1)
                 PROVE  /\ tbl[b][e].symnr # undef_symnr =>
                              /\ tbl[b][e].symnr \in 1..Len(sv')
                              /\ tbl[b][e].h = hash_symbol(sv'[tbl[b][e].symnr])
                              /\ Bucket(sv'[tbl[b][e].symnr]) = b
                        /\ tbl[b][e].symnr = undef_symnr =>
                              /\ chain[b] = undef_ovflnr
                              /\ \A f \in e..(Assoc - 1) : tbl[b][f].symnr = undef_symnr
      BY <1>1 DEF SlotsOK
    <2>1. QED
      BY <1>3 DEF IndInv, SlotsOK
  <1>8. \A j \in 1..Len(ovfl) : /\ ovfl[j].ov_symnr \in 1..Len(sv)
                               /\ OvflBucket(j)' = OvflBucket(j)
    BY <1>1, <1>3 DEF IndInv, ChainsOK, OvflBucket
  <1>9. ChainsOK'
    <2>1. ASSUME NEW j \in Nat, NEW b, NEW next, FirstAfter(j, b, next)
          PROVE  FirstAfter(j, b, next)'
      <3>1. \A k \in (j + 1)..Len(ovfl) : k \in 1..Len(ovfl)
        BY Types
      <3>2. QED
        BY <1>1, <1>8, <2>1, <3>1 DEF FirstAfter
    <2>2. \A j \in 1..Len(ovfl) : FirstAfter(j, OvflBucket(j), ovfl[j].ov_next)'
      BY <1>1, <1>8, <2>1, Types DEF IndInv, ChainsOK
    <2>3. \A b \in 0..(TblSz - 1) : FirstAfter(0, b, chain[b])'
      BY <1>1, <2>1 DEF IndInv, ChainsOK
    <2>4. QED
      BY <1>1, <1>3, <1>8, <2>2, <2>3 DEF ChainsOK
  <1>10. Complete'
    <2> SUFFICES ASSUME NEW i \in (1..n) \ {n} PROVE (InSlot(i) \/ InOvfl(i))'
      BY <1>1, <1>3 DEF Complete, Entering
    <2>1. i \in 1..Len(sv) /\ sv'[i] = sv[i]
      BY <1>3
    <2>2. InSlot(i) \/ InOvfl(i)
      BY <1>2, <2>1 DEF IndInv, Complete
    <2>3. QED
      BY <1>1, <2>1, <2>2 DEF InSlot, InOvfl
  <1>11. SearchOK'
    BY <1>1, <1>2, <1>3 DEF SearchOK
  <1>12. QED
    BY <1>1, <1>2, <1>4, <1>5, <1>6, <1>7, <1>9, <1>10, <1>11
       DEF IndInv, NoAbort, HashtableExists

\* An operation returns.
LEMMA ReturnKeeps == ASSUME IndInv, Return PROVE IndInv'
  <1>1. /\ sv' = sv /\ sz' = sz /\ hashtable' = hashtable /\ tbl' = tbl
        /\ chain' = chain /\ ovfl' = ovfl /\ ovfl_sz' = ovfl_sz
        /\ pc = "return" /\ pc' = "idle"
    BY DEF Return, store
  <1>2. TypeOK'
    BY <1>1 DEF IndInv, TypeOK, Return
  <1>3. Complete'
    BY <1>1 DEF IndInv, Complete, Entering, InSlot, InOvfl
  <1>4. SearchOK'
    BY <1>1 DEF SearchOK
  <1>5. QED
    BY <1>1, <1>2, <1>3, <1>4, StoreUnchanged DEF IndInv, NoAbort, HashtableExists

\* The dictionary's variables between two operations' steps do not move.
LEMMA StutterKeeps == ASSUME IndInv, UNCHANGED vars PROVE IndInv'
  <1>1. TypeOK'
    BY DEF IndInv, TypeOK, vars
  <1>2. Complete'
    BY DEF IndInv, Complete, Entering, InSlot, InOvfl, vars
  <1>3. SearchOK'
    BY DEF IndInv, SearchOK, PassedSlots, PassedChain, Absent, OvflBucket, vars
  <1>4. QED
    BY <1>1, <1>2, <1>3, StoreUnchanged DEF IndInv, NoAbort, HashtableExists, vars

\* The symbol being entered is put in an overflow entry of its own.
LEMMA OvflGrown ==
  ASSUME IndInv, sv' = sv, symnr \in 1..Len(sv), sv[symnr] = s,
         Len(ovfl') = Len(ovfl) + 1,
         \A j \in 1..Len(ovfl) : ovfl'[j].ov_symnr = ovfl[j].ov_symnr,
         ovfl'[Len(ovfl) + 1].ov_symnr = symnr
  PROVE  /\ \A j \in 1..Len(ovfl) : Bucket(sv[ovfl'[j].ov_symnr]) = OvflBucket(j)
         /\ Bucket(sv[ovfl'[Len(ovfl) + 1].ov_symnr]) = Bucket(s)
         /\ \A j \in 1..Len(ovfl') : j \in 1..Len(ovfl) \/ j = Len(ovfl) + 1
         /\ \A j \in 1..Len(ovfl') : ovfl'[j].ov_symnr \in 1..Len(sv')
         /\ tbl' = tbl /\ pc' \notin {"add_slots", "add_chain"} => Complete'
  <1>1. \A j \in 1..Len(ovfl) : Bucket(sv[ovfl'[j].ov_symnr]) = OvflBucket(j)
    BY DEF OvflBucket
  <1>2. Bucket(sv[ovfl'[Len(ovfl) + 1].ov_symnr]) = Bucket(s)
    OBVIOUS
  <1> Len(ovfl) \in Nat
    BY Types
  <1>3. \A j \in 1..Len(ovfl') : j \in 1..Len(ovfl) \/ j = Len(ovfl) + 1
    OBVIOUS
  <1>4. \A j \in 1..Len(ovfl') : ovfl'[j].ov_symnr \in 1..Len(sv')
    BY <1>3 DEF IndInv, ChainsOK
  <1>5. ASSUME tbl' = tbl, pc' \notin {"add_slots", "add_chain"}, NEW i \in 1..Len(sv)
        PROVE  (InSlot(i) \/ InOvfl(i))'
    <2>1. Len(ovfl) + 1 \in 1..Len(ovfl') /\ \A j \in 1..Len(ovfl) : j \in 1..Len(ovfl')
      BY Types
    <2>2. CASE i = symnr
      BY <2>1, <2>2 DEF InOvfl
    <2>3. CASE i # symnr
      <3>1. InSlot(i) \/ InOvfl(i)
        BY <2>3 DEF IndInv, Complete, Entering
      <3>2. QED
        BY <1>5, <2>1, <3>1 DEF InSlot, InOvfl
    <2>4. QED
      BY <2>2, <2>3
  <1>6. tbl' = tbl /\ pc' \notin {"add_slots", "add_chain"} => Complete'
    BY <1>5 DEF Complete, Entering
  <1>7. QED
    BY <1>1, <1>2, <1>3, <1>4, <1>6

\* The symbol is entered in its bucket, or the search for a place goes on.
LEMMA AddSlotKeeps == ASSUME IndInv, AddSlot PROVE IndInv'
  <1> DEFINE b == Bucket(s)
             ent == tbl[b][entnr]
             L == Len(ovfl)
  <1>1. /\ sv' = sv /\ sz' = sz /\ hashtable' = hashtable /\ op' = op /\ s' = s
        /\ hsymnr' = hsymnr /\ symnr' = symnr /\ pc = "add_slots"
    BY DEF AddSlot
  <1>2. /\ op = "add" /\ symnr \in 1..Len(sv) /\ sv[symnr] = s
        /\ \A e \in 0..(entnr - 1) : tbl[b][e].symnr # undef_symnr
        /\ hashtable /\ Entering = {symnr}
    BY <1>1 DEF IndInv, SearchOK, HashtableExists, Entering
  <1>3. b \in 0..(TblSz - 1) /\ b = Bucket(sv[symnr])
    BY <1>2, Types
  <1>4. symnr \in Nat /\ symnr # undef_symnr
    BY <1>2, Types DEF undef_symnr
  <1>5. CASE entnr = Assoc /\ chain[b] = undef_ovflnr
    <2> DEFINE new == [ov_symnr |-> symnr, ov_next |-> undef_ovflnr]
    <2>1. /\ ovfl' = Append(ovfl, new) /\ chain' = [chain EXCEPT ![b] = L + 1]
          /\ ovfl_sz' = IF ovfl_sz = 0 \/ L + 1 >= ovfl_sz
                          THEN ovfl_sz + OvflSegSize ELSE ovfl_sz
          /\ pc' = "return" /\ tbl' = tbl /\ entnr' = entnr /\ ovfl_entnr' = ovfl_entnr
      BY <1>2, <1>3, <1>5 DEF AddSlot, append_ovfl, ovfl_len
    <2>2. /\ ovfl' \in Seq([ov_symnr : Nat, ov_next : Nat])
          /\ Len(ovfl') = L + 1 /\ L \in Nat
          /\ ovfl'[L + 1] = new
          /\ \A j \in 1..L : ovfl'[j] = ovfl[j]
      <3> DEFINE R == [ov_symnr : Nat, ov_next : Nat]
      <3>1. new \in R
        BY <1>4 DEF undef_ovflnr
      <3>2. ovfl \in Seq(R)
        BY Types
      <3> HIDE DEF R, new
      <3>3. ovfl' \in Seq(R) /\ Len(ovfl') = L + 1 /\ L \in Nat /\ ovfl'[L + 1] = new
            /\ \A j \in 1..L : ovfl'[j] = ovfl[j]
        BY <2>1, <3>1, <3>2
      <3>4. QED
        BY <3>3 DEF R
    <2> DEFINE OB(k) == Bucket(sv[ovfl'[k].ov_symnr])
               FA(j, c, next) ==
                 /\ next # undef_ovflnr => next \in (j + 1)..(L + 1) /\ OB(next) = c
                 /\ \A k \in (j + 1)..(L + 1) :
                       (next = undef_ovflnr \/ k < next) => OB(k) # c
    <2>3. /\ \A j \in 1..L : OB(j) = OvflBucket(j)
          /\ OB(L + 1) = b
          /\ \A j \in 1..Len(ovfl') : j \in 1..L \/ j = L + 1
          /\ \A j \in 1..Len(ovfl') : ovfl'[j].ov_symnr \in 1..Len(sv')
          /\ Complete'
      <3>1. \A j \in 1..L : ovfl'[j].ov_symnr = ovfl[j].ov_symnr
        BY <2>2
      <3>2. /\ ovfl'[L + 1].ov_symnr = symnr /\ Len(ovfl') = L + 1 /\ sv' = sv /\ tbl' = tbl
            /\ pc' \notin {"add_slots", "add_chain"}
            /\ symnr \in 1..Len(sv) /\ sv[symnr] = s
        BY <1>1, <1>2, <2>1, <2>2
      <3>3. QED
        BY <3>1, <3>2, OvflGrown
    <2>4. \A j \in 1..L : OvflBucket(j) # b
      BY <1>3, <1>5 DEF IndInv, ChainsOK, FirstAfter
    <2>5. ASSUME NEW j \in 0..L, NEW c, c # b, NEW next \in Nat, FirstAfter(j, c, next)
          PROVE  FA(j, c, next)
      <3>1. next # undef_ovflnr => next \in 1..L /\ next \in (j + 1)..(L + 1)
        BY <2>2, <2>5 DEF FirstAfter
      <3>2. next # undef_ovflnr => OB(next) = c
        BY <2>3, <2>5, <3>1 DEF FirstAfter
      <3>3. \A k \in (j + 1)..(L + 1) : (k \in (j + 1)..L /\ k \in 1..L) \/ k = L + 1
        BY <2>2
      <3>4. \A k \in (j + 1)..(L + 1) :
               (next = undef_ovflnr \/ k < next) => OB(k) # c
        <4> SUFFICES ASSUME NEW k \in (j + 1)..(L + 1), next = undef_ovflnr \/ k < next
                     PROVE  OB(k) # c
          OBVIOUS
        <4>1. CASE k \in (j + 1)..L /\ k \in 1..L
          BY <2>3, <2>5, <4>1 DEF FirstAfter
        <4>2. CASE k = L + 1
          BY <2>3, <2>5, <4>2
        <4>3. QED
          BY <3>3, <4>1, <4>2
      <3>5. QED
        BY <3>1, <3>2, <3>4
    <2>6. \A j \in 1..Len(ovfl') : FA(j, OB(j), ovfl'[j].ov_next)
      <3>1. ASSUME NEW j \in 1..L
            PROVE  FA(j, OB(j), ovfl'[j].ov_next)
        <4>1. /\ FirstAfter(j, OvflBucket(j), ovfl[j].ov_next) /\ OvflBucket(j) # b
              /\ j \in 0..L /\ ovfl[j].ov_next \in Nat
          BY <2>4, Types DEF IndInv, ChainsOK
        <4>2. OB(j) = OvflBucket(j)
          BY <2>3
        <4> HIDE DEF FA, OB
        <4>3. QED
          BY <2>2, <2>5, <4>1, <4>2
      <3>2. FA(L + 1, OB(L + 1), ovfl'[L + 1].ov_next)
        <4>1. ovfl'[L + 1].ov_next = undef_ovflnr
          BY <2>2
        <4>2. (L + 1) + 1..(L + 1) = {}
          BY <2>2
        <4>3. QED
          BY <2>2, <4>1, <4>2
      <3>3. QED
        BY <2>3, <3>1, <3>2
    <2>7. \A c \in 0..(TblSz - 1) : FA(0, c, chain'[c])
      <3>1. ASSUME NEW c \in 0..(TblSz - 1), c # b PROVE FA(0, c, chain'[c])
        <4>0. 0 \in 0..L
          BY <2>2
        <4>1. FirstAfter(0, c, chain[c]) /\ chain[c] \in Nat
          BY Types DEF IndInv, ChainsOK
        <4>2. chain'[c] = chain[c]
          BY <2>1, <3>1 DEF IndInv, TypeOK
        <4> HIDE DEF FA
        <4>3. QED
          BY <2>5, <3>1, <4>0, <4>1, <4>2
      <3>2. FA(0, b, chain'[b])
        <4>1. chain'[b] = L + 1
          BY <1>3, <2>1 DEF IndInv, TypeOK
        <4>2. L + 1 \in (0 + 1)..(L + 1) /\ L + 1 # 0
          BY <2>2
        <4>3. \A k \in (0 + 1)..(L + 1) : k < L + 1 => k \in 1..L
          BY <2>2
        <4>4. OB(L + 1) = b /\ \A k \in 1..L : OB(k) # b
          BY <2>3, <2>4
        <4>5. QED
          BY <4>1, <4>2, <4>3, <4>4 DEF undef_ovflnr
      <3>3. QED
        BY <3>1, <3>2
    <2>8. ChainsOK'
      BY <1>1, <2>2, <2>3, <2>6, <2>7 DEF ChainsOK, FirstAfter, OvflBucket
    <2>9. SlotsOK'
      <3>1. \A e \in 0..(Assoc - 1) : tbl[b][e].symnr # undef_symnr
        BY <1>2, <1>5
      <3>2. \A c \in 0..(TblSz - 1) : c # b => chain'[c] = chain[c]
        BY <2>1 DEF IndInv, TypeOK
      <3>3. QED
        BY <1>1, <2>1, <3>1, <3>2 DEF IndInv, SlotsOK
    <2>10. TypeOK'
      <3>1. chain' \in [0..(TblSz - 1) -> Nat]
        <4>1. L + 1 \in Nat /\ chain \in [0..(TblSz - 1) -> Nat]
          BY <2>2 DEF IndInv, TypeOK
        <4>2. QED
          BY <2>1, <4>1
      <3>2. ovfl_sz' \in Nat
        BY <2>1, DictAssumption DEF IndInv, TypeOK
      <3>3. QED
        BY <1>1, <2>1, <2>2, <3>1, <3>2 DEF IndInv, TypeOK
    <2>11. InCapacity'
      <3>1. ovfl # <<>> => L + 1 <= ovfl_sz
        BY DEF IndInv, InCapacity, ovfl_len
      <3>2. ovfl = <<>> => L = 0
        OBVIOUS
      <3>3. (L + 1) + 1 <= ovfl_sz'
        <4>1. ovfl_sz \in Nat /\ OvflSegSize \in Nat \ {0, 1}
          BY DictAssumption DEF IndInv, TypeOK
        <4> HIDE DEF L
        <4>2. CASE ovfl_sz = 0
          BY <2>1, <2>2, <3>1, <3>2, <4>1, <4>2
        <4>3. CASE ovfl_sz # 0
          BY <2>1, <2>2, <3>1, <3>2, <4>1, <4>3
        <4>4. QED
          BY <4>2, <4>3
      <3>4. QED
        BY <1>1, <2>2, <3>3 DEF IndInv, InCapacity, ovfl_len, dict_len
    <2>12. QED
      BY <1>1, <1>2, <2>1, <2>3, <2>8, <2>9, <2>10, <2>11
         DEF IndInv, DistinctNames, SearchOK, NoAbort, HashtableExists
  <1>6. CASE entnr = Assoc /\ chain[b] # undef_ovflnr
    <2>1. /\ pc' = "add_chain" /\ ovfl_entnr' = chain[b]
          /\ UNCHANGED <<chain, ovfl, ovfl_sz, tbl, entnr>>
      BY <1>2, <1>3, <1>6 DEF AddSlot
    <2>2. chain[b] \in 1..L /\ OvflBucket(chain[b]) = b
      BY <1>3, <1>6 DEF IndInv, ChainsOK, FirstAfter
    <2>3. TypeOK'
      BY <1>1, <2>1, <2>2, Types DEF IndInv, TypeOK
    <2>4. Complete'
      BY <1>1, <1>2, <2>1 DEF IndInv, Complete, Entering, InSlot, InOvfl
    <2>5. SearchOK'
      BY <1>1, <1>2, <2>1, <2>2 DEF SearchOK, OvflBucket
    <2>6. QED
      BY <1>1, <1>2, <2>1, <2>3, <2>4, <2>5, StoreUnchanged
         DEF IndInv, NoAbort, HashtableExists
  <1>7. CASE entnr # Assoc /\ ent.symnr = undef_symnr
    <2> DEFINE new == [h |-> hash_symbol(s), symnr |-> symnr]
    <2>1. /\ tbl' = [tbl EXCEPT ![b][entnr] = new]
          /\ pc' = "return" /\ UNCHANGED <<chain, ovfl, ovfl_sz, entnr, ovfl_entnr>>
      BY <1>2, <1>3, <1>7 DEF AddSlot, SlotEntry
    <2>2. entnr \in 0..(Assoc - 1)
      BY <1>7, Types
    <2>3. new \in [h : Nat, symnr : Nat]
      BY <1>4, DictAssumption, Types DEF hash_symbol
    <2>4. /\ tbl' \in [0..(TblSz - 1) -> [0..(Assoc - 1) -> [h : Nat, symnr : Nat]]]
          /\ tbl'[b][entnr] = new
          /\ \A c \in 0..(TblSz - 1) : \A e \in 0..(Assoc - 1) :
                c # b \/ e # entnr => tbl'[c][e] = tbl[c][e]
      <3> DEFINE R == [h : Nat, symnr : Nat]
      <3>1. new \in R /\ tbl \in [0..(TblSz - 1) -> [0..(Assoc - 1) -> R]]
        BY <2>3 DEF IndInv, TypeOK
      <3> HIDE DEF R, new, b
      <3>2. QED
        BY <1>3, <2>1, <2>2, <3>1 DEF R
    <2>5. TypeOK'
      BY <1>1, <2>1, <2>4 DEF IndInv, TypeOK
    <2>6. SlotsOK'
      <3> SUFFICES ASSUME NEW c \in 0..(TblSz - 1), NEW e \in 0..(Assoc - 1)
                   PROVE  /\ tbl'[c][e].symnr # undef_symnr =>
                                /\ tbl'[c][e].symnr \in 1..Len(sv)
                                /\ tbl'[c][e].h = hash_symbol(sv[tbl'[c][e].symnr])
                                /\ Bucket(sv[tbl'[c][e].symnr]) = c
                          /\ tbl'[c][e].symnr = undef_symnr =>
                                /\ chain[c] = undef_ovflnr
                                /\ \A f \in e..(Assoc - 1) : tbl'[c][f].symnr = undef_symnr
        BY <1>1, <2>1 DEF SlotsOK
      <3>1. CASE c = b /\ e = entnr
        BY <1>2, <1>3, <1>4, <2>4, <3>1
      <3>2. CASE c # b
        <4>1. \A f \in 0..(Assoc - 1) : tbl'[c][f] = tbl[c][f]
          BY <2>4, <3>2
        <4>2. \A f \in e..(Assoc - 1) : f \in 0..(Assoc - 1)
          BY Types
        <4>3. QED
          BY <4>1, <4>2 DEF IndInv, SlotsOK
      <3>3. CASE c = b /\ e # entnr
        <4>1. tbl'[c][e] = tbl[c][e]
          BY <2>4, <3>3
        <4>2. CASE tbl[c][e].symnr # undef_symnr
          BY <4>1, <4>2 DEF IndInv, SlotsOK
        <4>3. CASE tbl[c][e].symnr = undef_symnr
          <5>1. /\ chain[c] = undef_ovflnr
                /\ \A f \in e..(Assoc - 1) : tbl[c][f].symnr = undef_symnr
            BY <4>3 DEF IndInv, SlotsOK
          <5>2. ~(e \in 0..(entnr - 1))
            BY <1>2, <3>3, <4>3
          <5>3. \A f \in e..(Assoc - 1) : f \in 0..(Assoc - 1) /\ f # entnr
            BY <2>2, <3>3, <5>2, Types
          <5>4. \A f \in e..(Assoc - 1) : tbl'[c][f].symnr = undef_symnr
            BY <2>4, <5>1, <5>3
          <5>5. QED
            BY <4>1, <4>3, <5>1, <5>4
        <4>4. QED
          BY <4>2, <4>3
      <3>4. QED
        BY <3>1, <3>2, <3>3
    <2>7. Complete'
      <3> SUFFICES ASSUME NEW i \in 1..Len(sv) PROVE (InSlot(i) \/ InOvfl(i))'
        BY <1>1, <2>1 DEF Complete, Entering
      <3>1. CASE i = symnr
        BY <1>1, <1>3, <2>2, <2>4, <3>1 DEF InSlot
      <3>2. CASE i # symnr
        <4>1. InSlot(i) \/ InOvfl(i)
          BY <1>2, <3>2 DEF IndInv, Complete
        <4>2. InOvfl(i) => InOvfl(i)'
          BY <2>1 DEF InOvfl
        <4>3. ASSUME InSlot(i) PROVE InSlot(i)'
          <5>1. PICK e \in 0..(Assoc - 1) : tbl[Bucket(sv[i])][e].symnr = i
            BY <4>3 DEF InSlot
          <5>2. i # undef_symnr /\ Bucket(sv[i]) \in 0..(TblSz - 1)
            BY Types DEF undef_symnr
          <5>3. tbl'[Bucket(sv[i])][e] = tbl[Bucket(sv[i])][e]
            BY <1>7, <2>4, <5>1, <5>2
          <5>4. QED
            BY <1>1, <5>1, <5>3 DEF InSlot
        <4>4. QED
          BY <4>1, <4>2, <4>3
      <3>3. QED
        BY <3>1, <3>2
    <2>8. ChainsOK'
      BY <1>1, <2>1 DEF IndInv, ChainsOK, FirstAfter, OvflBucket
    <2>9. QED
      BY <1>1, <1>2, <2>1, <2>5, <2>6, <2>7, <2>8
         DEF IndInv, InCapacity, dict_len, ovfl_len, DistinctNames, SearchOK, NoAbort,
             HashtableExists
  <1>8. CASE entnr # Assoc /\ ent.symnr # undef_symnr /\ ent.symnr = symnr
    <2>1. /\ pc' = "return" /\ UNCHANGED <<tbl, chain, ovfl, ovfl_sz, entnr, ovfl_entnr>>
      BY <1>2, <1>3, <1>8 DEF AddSlot
    <2>2. InSlot(symnr)
      BY <1>3, <1>8, Types DEF InSlot
    <2>3. TypeOK'
      BY <1>1, <2>1 DEF IndInv, TypeOK
    <2>4. Complete'
      BY <1>1, <1>2, <2>1, <2>2 DEF IndInv, Complete, Entering, InSlot, InOvfl
    <2>5. QED
      BY <1>1, <1>2, <2>1, <2>3, <2>4, StoreUnchanged
         DEF IndInv, SearchOK, NoAbort, HashtableExists
  <1>9. CASE entnr # Assoc /\ ent.symnr # undef_symnr /\ ent.symnr # symnr
    <2>1. /\ entnr' = entnr + 1 /\ UNCHANGED <<pc, tbl, chain, ovfl, ovfl_sz, ovfl_entnr>>
      BY <1>2, <1>3, <1>9 DEF AddSlot
    <2>2. /\ entnr + 1 \in 0..Assoc
          /\ \A e \in 0..((entnr + 1) - 1) : e \in 0..(entnr - 1) \/ e = entnr
      BY <1>9, Types
    <2>3. TypeOK'
      BY <1>1, <2>1, <2>2 DEF IndInv, TypeOK
    <2>4. Complete'
      BY <1>1, <2>1 DEF IndInv, Complete, Entering, InSlot, InOvfl
    <2>5. SearchOK'
      BY <1>1, <1>2, <1>9, <2>1, <2>2 DEF SearchOK
    <2>6. QED
      BY <1>1, <1>2, <2>1, <2>3, <2>4, <2>5, StoreUnchanged
         DEF IndInv, NoAbort, HashtableExists
  <1>10. QED
    BY <1>5, <1>6, <1>7, <1>8, <1>9

\* The symbol is entered at the end of its chain, or the search for it goes on.
LEMMA AddChainKeeps == ASSUME IndInv, AddChain PROVE IndInv'
  <1> DEFINE b == Bucket(s)
             cur == ovfl_entnr
             L == Len(ovfl)
  <1>1. /\ sv' = sv /\ sz' = sz /\ hashtable' = hashtable /\ op' = op /\ s' = s
        /\ tbl' = tbl /\ chain' = chain /\ entnr' = entnr
        /\ hsymnr' = hsymnr /\ symnr' = symnr /\ pc = "add_chain"
    BY DEF AddChain
  <1>2. /\ op = "add" /\ symnr \in 1..Len(sv) /\ sv[symnr] = s
        /\ cur \in 1..L /\ OvflBucket(cur) = b
        /\ hashtable /\ Entering = {symnr}
    BY <1>1 DEF IndInv, SearchOK, HashtableExists, Entering
  <1>3. b \in 0..(TblSz - 1) /\ symnr \in Nat /\ L \in Nat /\ cur \in Nat
    BY <1>2, Types
  <1>4. FirstAfter(cur, b, ovfl[cur].ov_next)
    BY <1>2 DEF IndInv, ChainsOK
  <1>5. CASE ovfl[cur].ov_symnr = symnr
    <2>1. pc' = "return" /\ UNCHANGED <<ovfl, ovfl_sz, ovfl_entnr>>
      BY <1>5 DEF AddChain, IsEntered
    <2>2. InOvfl(symnr)
      BY <1>2, <1>5 DEF InOvfl
    <2>3. TypeOK'
      BY <1>1, <2>1 DEF IndInv, TypeOK
    <2>4. Complete'
      BY <1>1, <1>2, <2>1, <2>2 DEF IndInv, Complete, Entering, InSlot, InOvfl
    <2>5. QED
      BY <1>1, <1>2, <2>1, <2>3, <2>4, StoreUnchanged
         DEF IndInv, SearchOK, NoAbort, HashtableExists
  <1>6. CASE ovfl[cur].ov_symnr # symnr /\ ovfl[cur].ov_next # undef_ovflnr
    <2>1. ovfl_entnr' = ovfl[cur].ov_next /\ UNCHANGED <<pc, ovfl, ovfl_sz>>
      BY <1>6 DEF AddChain, IsEntered, FollowLink
    <2>2. /\ ovfl[cur].ov_next \in (cur + 1)..L
          /\ OvflBucket(ovfl[cur].ov_next) = b
      BY <1>4, <1>6 DEF FirstAfter
    <2>3. ovfl[cur].ov_next \in 1..L
      BY <1>3, <2>2
    <2>4. TypeOK'
      BY <1>1, <2>1, <2>3, <1>3 DEF IndInv, TypeOK
    <2>5. Complete'
      BY <1>1, <2>1 DEF IndInv, Complete, Entering, InSlot, InOvfl
    <2>6. SearchOK'
      BY <1>1, <1>2, <2>1, <2>2, <2>3 DEF SearchOK, OvflBucket
    <2>7. QED
      BY <1>1, <1>2, <2>1, <2>4, <2>5, <2>6, StoreUnchanged
         DEF IndInv, NoAbort, HashtableExists
  <1>7. CASE ovfl[cur].ov_symnr # symnr /\ ovfl[cur].ov_next = undef_ovflnr
    <2> DEFINE new == [ov_symnr |-> symnr, ov_next |-> undef_ovflnr]
               linked == [ovfl EXCEPT ![cur].ov_next = L + 1]
               old == [ov_symnr |-> ovfl[cur].ov_symnr, ov_next |-> L + 1]
    <2>1. /\ ovfl' = Append(linked, new)
          /\ ovfl_sz' = IF ovfl_sz = 0 \/ L + 1 >= ovfl_sz
                          THEN ovfl_sz + OvflSegSize ELSE ovfl_sz
          /\ pc' = "return" /\ ovfl_entnr' = ovfl_entnr
      BY <1>7 DEF AddChain, IsEntered, append_ovfl, ovfl_len
    <2>2. /\ ovfl' \in Seq([ov_symnr : Nat, ov_next : Nat])
          /\ Len(ovfl') = L + 1
          /\ ovfl'[L + 1] = new
          /\ ovfl'[cur] = old
          /\ \A j \in 1..L : j # cur => ovfl'[j] = ovfl[j]
      <3> DEFINE R == [ov_symnr : Nat, ov_next : Nat]
      <3>1. new \in R
        BY <1>3 DEF undef_ovflnr
      <3>2. ovfl \in Seq(R) /\ ovfl[cur] \in R
        <4>1. ovfl \in Seq(R)
          BY Types
        <4> HIDE DEF R
        <4>2. ovfl[cur] \in R
          BY <1>2, <4>1
        <4>3. QED
          BY <4>1, <4>2
      <3>3. old \in R
        BY <1>3, <3>2
      <3>4. linked = [ovfl EXCEPT ![cur] = old]
        <4>1. [ovfl[cur] EXCEPT !.ov_next = L + 1] = old
          <5>1. ASSUME NEW rec \in R, NEW n
                PROVE  [rec EXCEPT !.ov_next = n] = [ov_symnr |-> rec.ov_symnr, ov_next |-> n]
            OBVIOUS
          <5> HIDE DEF R
          <5>2. QED
            BY <3>2, <5>1
        <4>2. linked = [ovfl EXCEPT ![cur] = [ovfl[cur] EXCEPT !.ov_next = L + 1]]
          BY Zenon
        <4>3. QED
          BY <4>1, <4>2
      <3> HIDE DEF R, new, old, linked
      <3>5. /\ linked \in Seq(R) /\ Len(linked) = L /\ linked[cur] = old
            /\ \A j \in 1..L : j # cur => linked[j] = ovfl[j]
        BY <1>2, <3>2, <3>3, <3>4
      <3>6. ovfl' \in Seq(R) /\ Len(ovfl') = L + 1 /\ ovfl'[L + 1] = new
            /\ \A j \in 1..L : ovfl'[j] = linked[j]
        BY <2>1, <3>1, <3>5
      <3>7. QED
        BY <1>2, <3>5, <3>6 DEF R
    <2> DEFINE OB(k) == Bucket(sv[ovfl'[k].ov_symnr])
               FA(j, c, next) ==
                 /\ next # undef_ovflnr => next \in (j + 1)..(L + 1) /\ OB(next) = c
                 /\ \A k \in (j + 1)..(L + 1) :
                       (next = undef_ovflnr \/ k < next) => OB(k) # c
    <2>3. /\ \A j \in 1..L : OB(j) = OvflBucket(j)
          /\ OB(L + 1) = b
          /\ \A j \in 1..Len(ovfl') : j \in 1..L \/ j = L + 1
          /\ \A j \in 1..Len(ovfl') : ovfl'[j].ov_symnr \in 1..Len(sv')
          /\ Complete'
      <3>1. ASSUME NEW j \in 1..L PROVE ovfl'[j].ov_symnr = ovfl[j].ov_symnr
        <4>1. CASE j = cur
          <5>1. old.ov_symnr = ovfl[cur].ov_symnr
            OBVIOUS
          <5>2. QED
            BY <2>2, <4>1, <5>1
        <4>2. CASE j # cur
          BY <2>2, <4>2
        <4>3. QED
          BY <4>1, <4>2
      <3>2. /\ ovfl'[L + 1].ov_symnr = symnr /\ Len(ovfl') = L + 1 /\ sv' = sv /\ tbl' = tbl
            /\ pc' \notin {"add_slots", "add_chain"}
            /\ symnr \in 1..Len(sv) /\ sv[symnr] = s
        BY <1>1, <1>2, <2>1, <2>2
      <3>3. QED
        BY <3>1, <3>2, OvflGrown
    \* The entry at hand is the last one of its bucket.
    <2>4. \A j \in (cur + 1)..L : OvflBucket(j) # b
      BY <1>4, <1>7 DEF FirstAfter
    \* A link keeps its meaning, unless it was the end of this chain.
    <2>5. ASSUME NEW j \in 0..L, NEW c, NEW next \in Nat, FirstAfter(j, c, next),
                 c # b \/ next # undef_ovflnr
          PROVE  FA(j, c, next)
      <3>1. next # undef_ovflnr => next \in 1..L /\ next \in (j + 1)..(L + 1)
        BY <1>3, <2>5 DEF FirstAfter
      <3>2. next # undef_ovflnr => OB(next) = c
        BY <2>3, <2>5, <3>1 DEF FirstAfter
      <3>3. \A k \in (j + 1)..(L + 1) : (k \in (j + 1)..L /\ k \in 1..L) \/ k = L + 1
        BY <1>3
      <3>4. \A k \in (j + 1)..(L + 1) :
               (next = undef_ovflnr \/ k < next) => OB(k) # c
        <4> SUFFICES ASSUME NEW k \in (j + 1)..(L + 1), next = undef_ovflnr \/ k < next
                     PROVE  OB(k) # c
          OBVIOUS
        <4>1. CASE k \in (j + 1)..L /\ k \in 1..L
          BY <2>3, <2>5, <4>1 DEF FirstAfter
        <4>2. CASE k = L + 1
          <5>1. next = undef_ovflnr
            BY <1>3, <3>1, <4>2
          <5>2. QED
            BY <2>3, <2>5, <4>2, <5>1
        <4>3. QED
          BY <3>3, <4>1, <4>2
      <3>5. QED
        BY <3>1, <3>2, <3>4
    <2>6. \A j \in 1..Len(ovfl') : FA(j, OB(j), ovfl'[j].ov_next)
      <3>1. ASSUME NEW j \in 1..L, j # cur
            PROVE  FA(j, OB(j), ovfl'[j].ov_next)
        <4>1. /\ FirstAfter(j, OvflBucket(j), ovfl[j].ov_next)
              /\ j \in 0..L /\ ovfl[j].ov_next \in Nat
          BY Types DEF IndInv, ChainsOK
        <4>2. OB(j) = OvflBucket(j) /\ ovfl'[j].ov_next = ovfl[j].ov_next
          <5>1. ovfl'[j] = ovfl[j]
            BY <2>2, <3>1
          <5>2. QED
            BY <2>3, <5>1
        <4>3. OvflBucket(j) # b \/ ovfl[j].ov_next # undef_ovflnr
          <5>1. CASE j \in (cur + 1)..L
            BY <2>4, <5>1
          <5>2. CASE j \in 1..(cur - 1)
            <6>1. cur \in (j + 1)..L
              BY <1>2, <1>3, <5>2
            <6>2. OvflBucket(cur) = b
              BY <1>2
            <6>3. QED
              BY <4>1, <6>1, <6>2 DEF FirstAfter
          <5>3. QED
            BY <1>2, <1>3, <3>1, <5>1, <5>2
        <4> HIDE DEF FA, OB
        <4>4. QED
          BY <2>5, <4>1, <4>2, <4>3
      <3>2. FA(cur, OB(cur), ovfl'[cur].ov_next)
        <4>1. ovfl'[cur].ov_next = L + 1 /\ OB(cur) = b
          <5>1. ovfl'[cur].ov_next = L + 1
            BY <2>2
          <5>2. OB(cur) = OvflBucket(cur)
            BY <1>2, <2>3
          <5>3. QED
            BY <1>2, <5>1, <5>2
        <4>2. L + 1 \in (cur + 1)..(L + 1) /\ L + 1 # 0
              /\ \A k \in (cur + 1)..(L + 1) :
                    k < L + 1 => k \in (cur + 1)..L /\ k \in 1..L
          BY <1>2, <1>3
        <4>3. QED
          BY <2>3, <2>4, <4>1, <4>2 DEF undef_ovflnr
      <3>3. FA(L + 1, OB(L + 1), ovfl'[L + 1].ov_next)
        <4>1. ovfl'[L + 1].ov_next = undef_ovflnr
          BY <2>2
        <4>2. (L + 1) + 1..(L + 1) = {}
          BY <1>3
        <4>3. QED
          BY <4>1, <4>2
      <3>4. QED
        BY <2>3, <3>1, <3>2, <3>3
    <2>7. \A c \in 0..(TblSz - 1) : FA(0, c, chain'[c])
      <3> SUFFICES ASSUME NEW c \in 0..(TblSz - 1) PROVE FA(0, c, chain[c])
        BY <1>1
      <3>1. 0 \in 0..L /\ cur \in (0 + 1)..L
        BY <1>2, <1>3
      <3>2. FirstAfter(0, c, chain[c]) /\ chain[c] \in Nat
        BY Types DEF IndInv, ChainsOK
      <3>3. c # b \/ chain[c] # undef_ovflnr
        BY <1>2, <3>1, <3>2 DEF FirstAfter
      <3> HIDE DEF FA
      <3>4. QED
        BY <2>5, <3>1, <3>2, <3>3
    <2>8. ChainsOK'
      BY <1>1, <2>2, <2>3, <2>6, <2>7 DEF ChainsOK, FirstAfter, OvflBucket
    <2>9. SlotsOK'
      BY <1>1 DEF IndInv, SlotsOK
    <2>10. TypeOK'
      <3>1. ovfl_sz' \in Nat
        BY <2>1, DictAssumption DEF IndInv, TypeOK
      <3>2. QED
        BY <1>1, <2>1, <2>2, <3>1 DEF IndInv, TypeOK
    <2>11. InCapacity'
      <3>1. ovfl # <<>>
        BY <1>2, <1>3
      <3>2. L + 1 <= ovfl_sz
        BY <3>1 DEF IndInv, InCapacity, ovfl_len
      <3>3. ovfl_sz \in Nat /\ OvflSegSize \in Nat \ {0, 1}
        BY DictAssumption DEF IndInv, TypeOK
      <3>4. (L + 1) + 1 <= ovfl_sz'
        BY <1>3, <2>1, <3>2, <3>3
      <3>5. QED
        BY <1>1, <2>2, <3>4 DEF IndInv, InCapacity, ovfl_len, dict_len
    <2>12. QED
      BY <1>1, <1>2, <2>1, <2>3, <2>8, <2>9, <2>10, <2>11
         DEF IndInv, DistinctNames, SearchOK, NoAbort, HashtableExists
  <1>8. QED
    BY <1>5, <1>6, <1>7

LEMMA DictNext == ASSUME IndInv, [Next]_vars PROVE IndInv'
  BY CallKeeps, FindSlotKeeps, FindChainKeeps, CompareKeeps, AppendKeeps, AddSlotKeeps,
     AddChainKeeps, ReturnKeeps, StutterKeeps DEF Next, Step

\* The inductive invariant of dict.c holds in every reachable state.
THEOREM DictIndInv == Spec => []IndInv
  <1>1. Init => IndInv
    BY DictInit
  <1>2. IndInv /\ [Next]_vars => IndInv'
    BY DictNext
  <1>3. QED
    BY <1>1, <1>2, PTL DEF Spec

\* Every variable of dict.c has its type.
THEOREM DictTypeOK == Spec => []TypeOK
  <1>1. IndInv => TypeOK
    BY DEF IndInv
  <1>2. QED
    BY <1>1, DictIndInv, PTL

\* dict_find never finds its two searches in disagreement (dict.c:487), and
\* dict_symnr_add_hash never meets a missing hash table (dict.c:239).
THEOREM DictNoAbort == Spec => []NoAbort
  <1>1. IndInv => NoAbort
    BY DEF IndInv
  <1>2. QED
    BY <1>1, DictIndInv, PTL

\* No entry is written beyond the segments and the overflow array that
\* dict_grow (dict.c:569) and append_ovfl (dict.c:222) have allocated.
THEOREM DictInCapacity == Spec => []InCapacity
  <1>1. IndInv => InCapacity
    BY DEF IndInv
  <1>2. QED
    BY <1>1, DictIndInv, PTL

----------------------------------------------------------------------------
\* What dict_symnr_add_hash has passed is not the symbol it enters: this is
\* why it never enters a symbol for the second time.
NotPassed ==
    /\ pc = "add_slots" =>
          \A e \in 0..(entnr - 1) : tbl[Bucket(s)][e].symnr # symnr
    /\ pc = "add_chain" =>
          /\ \A e \in 0..(Assoc - 1) : tbl[Bucket(s)][e].symnr # symnr
          /\ \A j \in 1..(ovfl_entnr - 1) : ovfl[j].ov_symnr # symnr

OnceInv == IndInv /\ EnteredOnce /\ NotPassed

\* A step that leaves the names and the hash table alone.
LEMMA OnceUnchanged ==
  ASSUME EnteredOnce, sv' = sv, tbl' = tbl, ovfl' = ovfl
  PROVE  EnteredOnce'
  BY DEF EnteredOnce, InSlot, InOvfl

\* A new name is in no place of the hash table.
LEMMA OnceAppend == ASSUME OnceInv, dict_append_symbol PROVE EnteredOnce' /\ NotPassed'
  <1>1. /\ sv' = Append(sv, s) /\ tbl' = tbl /\ ovfl' = ovfl /\ entnr' = entnr /\ s' = s
        /\ pc = "append" /\ pc' = "add_slots"
    BY DEF dict_append_symbol
  <1>2. IndInv /\ EnteredOnce /\ entnr = 0
    BY <1>1 DEF OnceInv, IndInv, SearchOK
  <1>3. /\ \A i \in 1..Len(sv') : i \in 1..Len(sv) \/ i = Len(sv) + 1
        /\ Len(sv) + 1 \notin 1..Len(sv)
        /\ \A i \in 1..Len(sv) : sv'[i] = sv[i]
    BY <1>1, <1>2, Types
  <1>4. \A nr \in 1..Len(sv') : ~(InSlot(nr)' /\ InOvfl(nr)')
    <2> SUFFICES ASSUME NEW nr \in 1..Len(sv'), InSlot(nr)', InOvfl(nr)' PROVE FALSE
      OBVIOUS
    <2>1. nr \in 1..Len(sv)
      BY <1>1, <1>2 DEF IndInv, ChainsOK, InOvfl
    <2>2. InSlot(nr) /\ InOvfl(nr)
      BY <1>1, <1>3, <2>1 DEF InSlot, InOvfl
    <2>3. QED
      BY <1>2, <2>1, <2>2 DEF EnteredOnce
  <1>5. EnteredOnce'
    BY <1>1, <1>2, <1>4 DEF EnteredOnce
  <1>6. NotPassed'
    BY <1>1, <1>2 DEF NotPassed
  <1>7. QED
    BY <1>5, <1>6

\* An overflow entry is made for a symbol that had none, and no slot.
LEMMA OnceOvfl ==
  ASSUME OnceInv, sv' = sv, tbl' = tbl, symnr \in 1..Len(sv), sv[symnr] = s,
         Len(ovfl') = Len(ovfl) + 1,
         \A j \in 1..Len(ovfl) : ovfl'[j].ov_symnr = ovfl[j].ov_symnr,
         ovfl'[Len(ovfl) + 1].ov_symnr = symnr,
         \A e \in 0..(Assoc - 1) : tbl[Bucket(s)][e].symnr # symnr,
         \A j \in 1..Len(ovfl) : ovfl[j].ov_symnr # symnr
  PROVE  EnteredOnce'
  <1>1. IndInv /\ EnteredOnce
    BY DEF OnceInv
  <1>2. \A j \in 1..Len(ovfl') : j \in 1..Len(ovfl) \/ j = Len(ovfl) + 1
    <2>1. Len(ovfl) \in Nat
      BY <1>1, Types
    <2>2. QED
      BY <2>1
  <1>3. ~InSlot(symnr)
    BY DEF InSlot
  <1>4. \A nr \in 1..Len(sv') : ~(InSlot(nr)' /\ InOvfl(nr)')
    <2> SUFFICES ASSUME NEW nr \in 1..Len(sv), InSlot(nr), InOvfl(nr)' PROVE FALSE
      BY DEF InSlot
    <2>1. PICK j \in 1..Len(ovfl') : ovfl'[j].ov_symnr = nr
      BY DEF InOvfl
    <2>2. nr # symnr
      BY <1>3
    <2>3. InOvfl(nr)
      BY <1>2, <2>1, <2>2 DEF InOvfl
    <2>4. QED
      BY <1>1, <2>3 DEF EnteredOnce
  <1>5. \A j, k \in 1..Len(ovfl') : ovfl'[j].ov_symnr = ovfl'[k].ov_symnr => j = k
    <2> SUFFICES ASSUME NEW j \in 1..Len(ovfl'), NEW k \in 1..Len(ovfl'),
                        ovfl'[j].ov_symnr = ovfl'[k].ov_symnr
                 PROVE  j = k
      OBVIOUS
    <2>1. CASE j \in 1..Len(ovfl) /\ k \in 1..Len(ovfl)
      BY <1>1, <2>1 DEF EnteredOnce
    <2>2. CASE j = Len(ovfl) + 1 \/ k = Len(ovfl) + 1
      BY <1>2, <2>2
    <2>3. QED
      BY <1>2, <2>1, <2>2
  <1>6. QED
    BY <1>1, <1>4, <1>5 DEF EnteredOnce

\* A symbol is entered in a free entry of its bucket only when it is in none
\* before it; behind it, and in the chain, there is nothing yet.
LEMMA OnceAddSlot == ASSUME OnceInv, AddSlot PROVE EnteredOnce' /\ NotPassed'
  <1> DEFINE b == Bucket(s)
             ent == tbl[b][entnr]
             L == Len(ovfl)
  <1>1. /\ sv' = sv /\ s' = s /\ symnr' = symnr /\ pc = "add_slots"
    BY DEF AddSlot
  <1>2. /\ IndInv /\ EnteredOnce
        /\ \A e \in 0..(entnr - 1) : tbl[b][e].symnr # symnr
    BY <1>1 DEF OnceInv, NotPassed
  <1>3. /\ symnr \in 1..Len(sv) /\ sv[symnr] = s /\ hashtable
    BY <1>1, <1>2 DEF IndInv, SearchOK, HashtableExists
  <1>4. /\ b \in 0..(TblSz - 1) /\ b = Bucket(sv[symnr])
        /\ FirstAfter(0, b, chain[b])
    BY <1>2, <1>3, Types DEF IndInv, ChainsOK
  <1>5. symnr \in Nat /\ symnr # undef_symnr /\ L \in Nat /\ Assoc \in Nat
    BY <1>2, <1>3, Types DEF undef_symnr
  <1>6. CASE entnr = Assoc /\ chain[b] = undef_ovflnr
    <2> DEFINE new == [ov_symnr |-> symnr, ov_next |-> undef_ovflnr]
    <2>1. ovfl' = Append(ovfl, new) /\ tbl' = tbl /\ pc' = "return"
      BY <1>3, <1>4, <1>6 DEF AddSlot, append_ovfl
    <2>2. Len(ovfl') = L + 1 /\ ovfl'[L + 1] = new /\ \A j \in 1..L : ovfl'[j] = ovfl[j]
      <3>1. ovfl \in Seq([ov_symnr : Nat, ov_next : Nat])
        BY <1>2, Types
      <3> HIDE DEF new
      <3>2. QED
        BY <2>1, <3>1
    <2>3. \A j \in 1..L : OvflBucket(j) # b
      BY <1>4, <1>6 DEF FirstAfter
    <2>4. \A j \in 1..L : ovfl[j].ov_symnr # symnr
      BY <1>4, <2>3 DEF OvflBucket
    <2>5. /\ ovfl'[L + 1].ov_symnr = symnr
          /\ \A j \in 1..L : ovfl'[j].ov_symnr = ovfl[j].ov_symnr
          /\ \A e \in 0..(Assoc - 1) : tbl[b][e].symnr # symnr
      BY <1>2, <1>6, <2>2
    <2>6. EnteredOnce'
      BY <1>1, <1>3, <2>1, <2>2, <2>4, <2>5, OnceOvfl
    <2>7. QED
      BY <2>1, <2>6 DEF NotPassed
  <1>7. CASE entnr = Assoc /\ chain[b] # undef_ovflnr
    <2>1. /\ pc' = "add_chain" /\ ovfl_entnr' = chain[b] /\ UNCHANGED <<ovfl, tbl>>
      BY <1>3, <1>4, <1>7 DEF AddSlot
    <2>2. \A j \in 1..(chain[b] - 1) : j \in 1..L /\ j < chain[b]
      <3>1. chain[b] \in 1..L
        BY <1>4, <1>7 DEF FirstAfter
      <3>2. QED
        BY <1>5, <3>1
    <2>3. \A j \in 1..(chain[b] - 1) : OvflBucket(j) # b
      BY <1>4, <2>2 DEF FirstAfter
    <2>4. \A j \in 1..(chain[b] - 1) : ovfl[j].ov_symnr # symnr
      BY <1>4, <2>3 DEF OvflBucket
    <2>5. NotPassed'
      BY <1>1, <1>2, <1>7, <2>1, <2>4 DEF NotPassed
    <2>6. QED
      BY <1>1, <1>2, <2>1, <2>5, OnceUnchanged
  <1>8. CASE entnr # Assoc /\ ent.symnr = undef_symnr
    <2> DEFINE new == [h |-> hash_symbol(s), symnr |-> symnr]
    <2>1. tbl' = [tbl EXCEPT ![b][entnr] = new] /\ pc' = "return" /\ ovfl' = ovfl
      BY <1>3, <1>4, <1>8 DEF AddSlot, SlotEntry
    <2>2. entnr \in 0..(Assoc - 1)
      BY <1>2, <1>8, Types
    <2>3. /\ tbl'[b][entnr] = new
          /\ \A c \in 0..(TblSz - 1) : \A e \in 0..(Assoc - 1) :
                c # b \/ e # entnr => tbl'[c][e] = tbl[c][e]
      <3> DEFINE R == [h : Nat, symnr : Nat]
      <3>1. tbl \in [0..(TblSz - 1) -> [0..(Assoc - 1) -> R]]
        BY <1>2 DEF IndInv, TypeOK
      <3> HIDE DEF R, new, b
      <3>2. QED
        BY <1>4, <2>1, <2>2, <3>1
    <2>4. /\ chain[b] = undef_ovflnr
          /\ \A f \in entnr..(Assoc - 1) : tbl[b][f].symnr = undef_symnr
      BY <1>2, <1>4, <1>8, <2>2 DEF IndInv, SlotsOK
    <2>5. \A e \in 0..(Assoc - 1) : tbl[b][e].symnr # symnr
      <3>1. \A e \in 0..(Assoc - 1) : e \in 0..(entnr - 1) \/ e \in entnr..(Assoc - 1)
        BY <2>2
      <3>2. QED
        BY <1>2, <1>5, <2>4, <3>1
    <2>6. \A j \in 1..L : ovfl[j].ov_symnr # symnr
      <3>1. \A j \in 1..L : OvflBucket(j) # b
        BY <1>4, <2>4 DEF FirstAfter
      <3>2. QED
        BY <1>4, <3>1 DEF OvflBucket
    <2>7. \A nr \in 1..Len(sv') : ~(InSlot(nr)' /\ InOvfl(nr)')
      <3> SUFFICES ASSUME NEW nr \in 1..Len(sv), InSlot(nr)', InOvfl(nr)' PROVE FALSE
        BY <1>1
      <3>1. InOvfl(nr) /\ nr # symnr
        BY <2>1, <2>6 DEF InOvfl
      <3>2. PICK e \in 0..(Assoc - 1) : tbl'[Bucket(sv[nr])][e].symnr = nr
        BY <1>1 DEF InSlot
      <3>3. Bucket(sv[nr]) \in 0..(TblSz - 1)
        BY <1>2, Types
      <3>4. tbl'[Bucket(sv[nr])][e] = tbl[Bucket(sv[nr])][e]
        BY <2>3, <3>1, <3>2, <3>3
      <3>5. InSlot(nr)
        BY <3>2, <3>4 DEF InSlot
      <3>6. QED
        BY <1>2, <3>1, <3>5 DEF EnteredOnce
    <2>8. \A c \in 0..(TblSz - 1) : \A e, f \in 0..(Assoc - 1) :
             tbl'[c][e].symnr = tbl'[c][f].symnr /\ tbl'[c][e].symnr # undef_symnr => e = f
      <3> SUFFICES ASSUME NEW c \in 0..(TblSz - 1), NEW e \in 0..(Assoc - 1),
                          NEW f \in 0..(Assoc - 1),
                          tbl'[c][e].symnr = tbl'[c][f].symnr,
                          tbl'[c][e].symnr # undef_symnr, e # f
                   PROVE  FALSE
        OBVIOUS
      <3>1. CASE c = b /\ e = entnr
        BY <2>3, <2>5, <3>1
      <3>2. CASE c = b /\ f = entnr
        BY <2>3, <2>5, <3>2
      <3>3. CASE c # b \/ (e # entnr /\ f # entnr)
        BY <1>2, <2>3, <3>3 DEF EnteredOnce
      <3>4. QED
        BY <3>1, <3>2, <3>3
    <2>9. EnteredOnce'
      BY <1>2, <2>1, <2>7, <2>8 DEF EnteredOnce
    <2>10. QED
      BY <2>1, <2>9 DEF NotPassed
  <1>9. CASE entnr # Assoc /\ ent.symnr # undef_symnr /\ ent.symnr = symnr
    <2>1. pc' = "return" /\ UNCHANGED <<tbl, ovfl>>
      BY <1>3, <1>4, <1>9 DEF AddSlot
    <2>2. QED
      BY <1>1, <1>2, <2>1, OnceUnchanged DEF NotPassed
  <1>10. CASE entnr # Assoc /\ ent.symnr # undef_symnr /\ ent.symnr # symnr
    <2>1. entnr' = entnr + 1 /\ UNCHANGED <<pc, tbl, ovfl>>
      BY <1>3, <1>4, <1>10 DEF AddSlot
    <2>2. \A e \in 0..((entnr + 1) - 1) : e \in 0..(entnr - 1) \/ e = entnr
      BY <1>2, Types
    <2>3. NotPassed'
      BY <1>1, <1>2, <1>10, <2>1, <2>2 DEF NotPassed
    <2>4. QED
      BY <1>1, <1>2, <2>1, <2>3, OnceUnchanged
  <1>11. QED
    BY <1>6, <1>7, <1>8, <1>9, <1>10

\* A symbol is entered behind the last entry of its chain only when no entry
\* of the chain has it.
LEMMA OnceAddChain == ASSUME OnceInv, AddChain PROVE EnteredOnce' /\ NotPassed'
  <1> DEFINE b == Bucket(s)
             cur == ovfl_entnr
             L == Len(ovfl)
  <1>1. /\ sv' = sv /\ s' = s /\ tbl' = tbl /\ symnr' = symnr /\ pc = "add_chain"
    BY DEF AddChain
  <1>2. /\ IndInv /\ EnteredOnce
        /\ \A e \in 0..(Assoc - 1) : tbl[b][e].symnr # symnr
        /\ \A j \in 1..(cur - 1) : ovfl[j].ov_symnr # symnr
    BY <1>1 DEF OnceInv, NotPassed
  <1>3. /\ symnr \in 1..Len(sv) /\ sv[symnr] = s
        /\ cur \in 1..L /\ OvflBucket(cur) = b
    BY <1>1, <1>2 DEF IndInv, SearchOK
  <1>4. L \in Nat /\ cur \in Nat
    BY <1>2, <1>3, Types
  <1>5. FirstAfter(cur, b, ovfl[cur].ov_next)
    BY <1>2, <1>3 DEF IndInv, ChainsOK
  <1>6. CASE ovfl[cur].ov_symnr = symnr
    <2>1. pc' = "return" /\ ovfl' = ovfl
      BY <1>6 DEF AddChain, IsEntered
    <2>2. QED
      BY <1>1, <1>2, <2>1, OnceUnchanged DEF NotPassed
  <1>7. CASE ovfl[cur].ov_symnr # symnr /\ ovfl[cur].ov_next # undef_ovflnr
    <2> DEFINE next == ovfl[cur].ov_next
    <2>1. ovfl_entnr' = next /\ UNCHANGED <<pc, ovfl>>
      BY <1>7 DEF AddChain, IsEntered, FollowLink
    <2>2. /\ next \in (cur + 1)..L
          /\ \A k \in (cur + 1)..L : k < next => OvflBucket(k) # b
      BY <1>5, <1>7 DEF FirstAfter
    <2>3. \A j \in 1..(next - 1) :
             \/ j \in 1..(cur - 1) \/ j = cur
             \/ j \in (cur + 1)..L /\ j < next
      <3> HIDE DEF next, cur, L
      <3>1. QED
        BY <1>3, <1>4, <2>2
    <2>4. \A k \in (cur + 1)..L : k < next => ovfl[k].ov_symnr # symnr
      BY <1>3, <2>2 DEF OvflBucket
    <2>5. \A j \in 1..(next - 1) : ovfl[j].ov_symnr # symnr
      BY <1>2, <1>7, <2>3, <2>4
    <2>6. NotPassed'
      BY <1>1, <1>2, <2>1, <2>5 DEF NotPassed
    <2>7. QED
      BY <1>1, <1>2, <2>1, <2>6, OnceUnchanged
  <1>8. CASE ovfl[cur].ov_symnr # symnr /\ ovfl[cur].ov_next = undef_ovflnr
    <2> DEFINE new == [ov_symnr |-> symnr, ov_next |-> undef_ovflnr]
               linked == [ovfl EXCEPT ![cur].ov_next = L + 1]
    <2>1. ovfl' = Append(linked, new) /\ pc' = "return"
      BY <1>8 DEF AddChain, IsEntered, append_ovfl, ovfl_len
    <2>2. \A j \in 1..L : ovfl[j].ov_symnr # symnr
      <3>1. \A j \in (cur + 1)..L : OvflBucket(j) # b
        BY <1>5, <1>8 DEF FirstAfter
      <3>2. \A j \in (cur + 1)..L : ovfl[j].ov_symnr # symnr
        BY <1>3, <3>1 DEF OvflBucket
      <3>3. \A j \in 1..L : j \in 1..(cur - 1) \/ j = cur \/ j \in (cur + 1)..L
        BY <1>3, <1>4
      <3>4. QED
        BY <1>2, <1>8, <3>2, <3>3
    <2>3. /\ Len(ovfl') = L + 1
          /\ ovfl'[L + 1] = new
          /\ \A j \in 1..L : ovfl'[j].ov_symnr = ovfl[j].ov_symnr
      <3> DEFINE R == [ov_symnr : Nat, ov_next : Nat]
      <3>1. ovfl \in Seq(R)
        BY <1>2, Types
      <3>2. linked = [ovfl EXCEPT ![cur] = [ovfl[cur] EXCEPT !.ov_next = L + 1]]
        BY Zenon
      <3>3. /\ [ovfl[cur] EXCEPT !.ov_next = L + 1] \in R
            /\ [ovfl[cur] EXCEPT !.ov_next = L + 1].ov_symnr = ovfl[cur].ov_symnr
        <4> HIDE DEF R
        <4>1. ovfl[cur] \in R
          BY <1>3, <3>1
        <4>2. QED
          BY <1>4, <4>1 DEF R
      <3> DEFINE old == [ovfl[cur] EXCEPT !.ov_next = L + 1]
      <3> HIDE DEF R, new, old, linked
      <3>4. old \in R /\ linked = [ovfl EXCEPT ![cur] = old]
            /\ old.ov_symnr = ovfl[cur].ov_symnr
        BY <3>2, <3>3 DEF old
      <3>5. /\ linked \in Seq(R) /\ Len(linked) = L /\ linked[cur] = old
            /\ \A j \in 1..L : j # cur => linked[j] = ovfl[j]
        BY <1>3, <3>1, <3>4
      <3>6. Len(ovfl') = L + 1 /\ ovfl'[L + 1] = new /\ \A j \in 1..L : ovfl'[j] = linked[j]
        BY <2>1, <3>5
      <3>7. QED
        BY <1>3, <3>4, <3>5, <3>6
    <2>4. ovfl'[L + 1].ov_symnr = symnr
      BY <2>3
    <2>5. EnteredOnce'
      BY <1>1, <1>2, <1>3, <2>2, <2>3, <2>4, OnceOvfl
    <2>6. QED
      BY <2>1, <2>5 DEF NotPassed
  <1>9. QED
    BY <1>6, <1>7, <1>8

\* The other steps move no entry, and start no search for a place, or start
\* it at the first entry.
LEMMA OnceOthers ==
  ASSUME OnceInv,
         Call \/ FindSlot \/ FindChain \/ Compare \/ Return \/ UNCHANGED vars
  PROVE  EnteredOnce' /\ NotPassed'
  <1>1. sv' = sv /\ tbl' = tbl /\ ovfl' = ovfl
    BY DEF Call, FindSlot, FindChain, Compare, Return, store, vars
  <1>2. EnteredOnce'
    BY <1>1, OnceUnchanged DEF OnceInv
  <1>3. CASE Call \/ FindSlot \/ FindChain \/ Return
    <2>1. pc' \notin {"add_slots", "add_chain"}
      BY <1>3 DEF Call, FindSlot, FindChain, FoundHash, Return
    <2>2. QED
      BY <1>2, <2>1 DEF NotPassed
  <1>4. CASE Compare
    <2>1. pc = "compare" /\ IndInv
      BY <1>4 DEF Compare, OnceInv
    <2>2. hsymnr = dict_find_linear(s)
      BY <2>1, AnswersAgree
    <2>3. entnr' = 0 /\ pc' # "add_chain"
      BY <1>4, <2>2 DEF Compare, AfterFind
    <2>4. QED
      BY <1>2, <2>3 DEF NotPassed
  <1>5. CASE UNCHANGED vars
    BY <1>2, <1>5 DEF OnceInv, NotPassed, vars
  <1>6. QED
    BY <1>3, <1>4, <1>5

\* dict_symnr_add_hash (dict.c:236) puts a symbol in one place of the hash
\* table only, however often it is added, and whatever the symbols it shares
\* the bucket with.
THEOREM DictEnteredOnce == Spec => []EnteredOnce
  <1>1. Init => OnceInv
    <2> SUFFICES ASSUME Init PROVE OnceInv
      OBVIOUS
    <2>1. ovfl = <<>> /\ sv = <<>> /\ pc = "idle" /\ Len(sv) = 0 /\ Len(ovfl) = 0
      BY DEF Init, hashmap_new
    <2>2. \A b \in 0..(TblSz - 1) : \A e \in 0..(Assoc - 1) : tbl[b][e].symnr = undef_symnr
      BY DEF Init, hashmap_new
    <2>3. EnteredOnce /\ NotPassed
      BY <2>1, <2>2 DEF EnteredOnce, NotPassed
    <2>4. QED
      BY <2>3, DictInit DEF OnceInv
  <1>2. OnceInv /\ [Next]_vars => OnceInv'
    <2> SUFFICES ASSUME OnceInv, [Next]_vars PROVE OnceInv'
      OBVIOUS
    <2>1. IndInv'
      BY DictNext DEF OnceInv
    <2>2. EnteredOnce' /\ NotPassed'
      BY OnceAppend, OnceAddSlot, OnceAddChain, OnceOthers DEF Next, Step
    <2>3. QED
      BY <2>1, <2>2 DEF OnceInv
  <1>3. OnceInv => EnteredOnce
    BY DEF OnceInv
  <1>4. QED
    BY <1>1, <1>2, <1>3, PTL DEF Spec

----------------------------------------------------------------------------
\* The number of a name in a table without duplicates.
LEMMA NumberOfUnique ==
  ASSUME NEW t \in Seq(Names), NEW n, NEW i \in 1..Len(t), t[i] = n,
         \A j \in 1..Len(t) : t[j] = n => j = i
  PROVE  n \in ST!Range(t) /\ ST!NumberOf(t, n) = i
  <1>1. n \in ST!Range(t)
    BY DEF ST!Range
  <1>2. i = CHOOSE j \in 1..Len(t) : t[j] = n
    OBVIOUS
  <1>3. QED
    BY <1>1, <1>2 DEF ST!NumberOf

\* A step of dict.c is a step of the symbol table, or leaves it alone.
LEMMA StepRefines == ASSUME IndInv, IndInv', [Next]_vars PROVE [ST!Next]_(ST!stvars)
  <1> USE DEF undef_symnr, ST!undef_symnr
  <1>1. CASE Call
    <2>1. ST!Call
      BY <1>1 DEF Call, ST!Call
    <2>2. QED
      BY <2>1 DEF ST!Next
  <1>2. CASE FindSlot
    <2>1. pc = "find_slots" /\ pc' \in {"find_slots", "find_chain", "compare"}
          /\ UNCHANGED <<sv, op, s>>
      BY <1>2 DEF FindSlot, FoundHash, store
    <2>2. QED
      BY <2>1 DEF ST!stvars
  <1>3. CASE FindChain
    <2>1. pc = "find_chain" /\ pc' \in {"find_chain", "compare"} /\ UNCHANGED <<sv, op, s>>
      BY <1>3 DEF FindChain, FoundHash, store
    <2>2. QED
      BY <2>1 DEF ST!stvars
  <1>4. CASE Compare
    <2>1. /\ pc = "compare" /\ UNCHANGED <<sv, op, s>> /\ symnr' = hsymnr
          /\ pc' = IF op = "find" THEN "return"
                   ELSE IF hsymnr = undef_symnr THEN "append" ELSE "add_slots"
          /\ op \in {"add", "find"}
      BY <1>4, AnswersAgree DEF Compare, AfterFind, store, IndInv, TypeOK
    <2>2. CASE pc' = "append"
      BY <2>1, <2>2 DEF ST!stvars
    <2>3. CASE pc' # "append"
      <3>1. pc' \in {"return", "add_slots"} /\ (op = "find" \/ hsymnr # undef_symnr)
        BY <2>1, <2>3
      <3>2. CASE hsymnr = undef_symnr /\ Absent
        <4>1. s \notin ST!Range(sv)
          BY <3>2 DEF Absent, ST!Range
        <4>2. ST!NumberOf(sv, s) = symnr'
          BY <2>1, <3>2, <4>1 DEF ST!NumberOf
        <4>3. ST!Apply
          BY <2>1, <3>1, <3>2, <4>2 DEF ST!Apply
        <4>4. QED
          BY <4>3 DEF ST!Next
      <3>3. CASE hsymnr \in 1..Len(sv) /\ sv[hsymnr] = s
        <4>1. s \in ST!Range(sv) /\ ST!NumberOf(sv, s) = hsymnr
          BY <3>3, NumberOfUnique, Types DEF IndInv, DistinctNames
        <4>2. ST!Apply
          BY <2>1, <3>1, <4>1 DEF ST!Apply
        <4>3. QED
          BY <4>2 DEF ST!Next
      <3>4. QED
        BY <2>1, <3>2, <3>3 DEF IndInv, SearchOK
    <2>4. QED
      BY <2>2, <2>3
  <1>5. CASE dict_append_symbol
    <2>1. /\ pc = "append" /\ pc' = "add_slots" /\ UNCHANGED <<op, s>>
          /\ sv' = Append(sv, s) /\ symnr' = Len(sv) + 1 /\ op = "add" /\ Absent
      BY <1>5 DEF dict_append_symbol, dict_len, IndInv, SearchOK
    <2>2. s \notin ST!Range(sv)
      BY <2>1 DEF Absent, ST!Range
    <2>3. /\ sv' \in Seq(Names) /\ symnr' \in 1..Len(sv') /\ sv'[symnr'] = s
          /\ \A j \in 1..Len(sv') : sv'[j] = s => j = symnr'
      BY <2>1, Types DEF Absent
    <2>4. ST!NumberOf(sv', s) = symnr'
      BY <2>3, NumberOfUnique
    <2>5. ST!Apply
      BY <2>1, <2>2, <2>4 DEF ST!Apply
    <2>6. QED
      BY <2>5 DEF ST!Next
  <1>6. CASE AddSlot
    <2>1. pc = "add_slots" /\ pc' \in {"add_slots", "add_chain", "return"}
          /\ UNCHANGED <<sv, op, s, symnr>>
      BY <1>6 DEF AddSlot, IndInv, HashtableExists
    <2>2. QED
      BY <2>1 DEF ST!stvars
  <1>7. CASE AddChain
    <2>1. pc = "add_chain" /\ pc' \in {"add_chain", "return"}
          /\ UNCHANGED <<sv, op, s, symnr>>
      BY <1>7 DEF AddChain
    <2>2. QED
      BY <2>1 DEF ST!stvars
  <1>8. CASE Return
    <2>1. ST!Return
      BY <1>8 DEF Return, store, ST!Return
    <2>2. QED
      BY <2>1 DEF ST!Next
  <1>9. CASE UNCHANGED vars
    BY <1>9 DEF vars, ST!stvars
  <1>10. QED
    BY <1>1, <1>2, <1>3, <1>4, <1>5, <1>6, <1>7, <1>8, <1>9 DEF Next, Step

\* dict.c implements the symbol table of dict.h: an operation, whatever the
\* hash codes and however many steps its searches take, has at one moment the
\* effect and the result that the table prescribes.
THEOREM DictImplements == Spec => ImplementsSymbolTable
  <1>1. Init => ST!Init
    BY DEF Init, ST!Init, undef_symnr, ST!undef_symnr
  <1>2. IndInv /\ IndInv' /\ [Next]_vars => [ST!Next]_(ST!stvars)
    BY StepRefines
  <1>3. QED
    BY <1>1, <1>2, DictIndInv, PTL DEF Spec, ST!Spec, ImplementsSymbolTable
============================================================================
