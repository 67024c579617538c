-------------------------------- MODULE Dict --------------------------------
(***************************************************************************)
(* dict.c: a symbol table that grows by segments, and the hash table with  *)
(* set-associative buckets and overflow chains that speeds up its lookups. *)
(* dict_find looks a name up in both ways and aborts the program if the    *)
(* two disagree.                                                           *)
(*                                                                         *)
(* sv holds the names by symbol number (number 0 is reserved), sz is the   *)
(* number of entries allocated.  tbl is the array of buckets: each has     *)
(* Assoc entries and the head of its overflow chain; ovfl is the array of  *)
(* overflow entries of all chains (entry 0 is reserved) and ovfl_sz its    *)
(* allocated size.  The remaining variables are the locals of the          *)
(* operation under way, and pc is where it is.                             *)
(***************************************************************************)
EXTENDS Integers, Sequences

CONSTANTS Names,        \* the strings that are looked up and added
          Hash,         \* their hash codes
          TblSz,        \* config_hashmap_init_size
          Assoc,        \* HASHMAP_SET_ASSOCIATIVITY
          SegSize,      \* dict_segment_size
          OvflSegSize   \* OVFL_SEGMENT_SIZE

\* An overflow segment holds the reserved entry and at least one more.
ASSUME DictAssumption ==
    /\ Names # {}
    /\ Hash \in [Names -> Nat]
    /\ TblSz \in Nat \ {0}
    /\ Assoc \in Nat
    /\ SegSize \in Nat \ {0}
    /\ OvflSegSize \in Nat \ {0, 1}

undef_symnr == 0
undef_ovflnr == 0

VARIABLES sv, sz,                       \* dict_t
          hashtable,                    \* whether the hash table exists
          tbl, chain, ovfl, ovfl_sz,    \* hashmap_t
          pc, op, s, entnr, ovfl_entnr, hsymnr, symnr

store == <<sv, sz, hashtable, tbl, chain, ovfl, ovfl_sz>>
vars == <<sv, sz, hashtable, tbl, chain, ovfl, ovfl_sz,
          pc, op, s, entnr, ovfl_entnr, hsymnr, symnr>>

hash_symbol(n) == Hash[n]
Bucket(n) == hash_symbol(n) % TblSz

\* dict->len and map->ovfl_len count the reserved entry 0.
dict_len == Len(sv) + 1
ovfl_len == Len(ovfl) + 1

\* hashmap_new: every entry undefined, no chain, no overflow array.
hashmap_new ==
    /\ tbl = [b \in 0..(TblSz - 1) |->
                [e \in 0..(Assoc - 1) |-> [h |-> 0, symnr |-> undef_symnr]]]
    /\ chain = [b \in 0..(TblSz - 1) |-> undef_ovflnr]
    /\ ovfl = <<>>
    /\ ovfl_sz = 0

\* dict_init.  The hash table is shown as it will be when it is created.
Init ==
    /\ sv = <<>>
    /\ sz = SegSize
    /\ hashtable = FALSE
    /\ hashmap_new
    /\ pc = "idle"
    /\ op = "find"
    /\ s \in Names
    /\ entnr = 0
    /\ ovfl_entnr = undef_ovflnr
    /\ hsymnr = undef_symnr
    /\ symnr = undef_symnr

----------------------------------------------------------------------------
\* dict_find(s), or dict_add(s), which starts with it.  The first lookup
\* creates the hash table, with every entry undefined.
Call ==
    /\ pc = "idle"
    /\ pc' = "find_slots"
    /\ op' \in {"add", "find"}
    /\ s' \in Names
    /\ hashtable' = TRUE
    /\ entnr' = 0
    /\ UNCHANGED <<sv, sz, tbl, chain, ovfl, ovfl_sz, ovfl_entnr, hsymnr, symnr>>

\* dict_find_hash has its answer.
FoundHash(nr) ==
    /\ hsymnr' = nr
    /\ pc' = "compare"
    /\ UNCHANGED <<entnr, ovfl_entnr>>

\* dict_find_hash: one entry of the bucket, or the way to its chain.
FindSlot ==
    LET b == Bucket(s)
        ent == tbl[b][entnr]
    IN  /\ pc = "find_slots"
        /\ IF entnr = Assoc
             THEN IF chain[b] = undef_ovflnr
                    THEN FoundHash(undef_symnr)
                    ELSE /\ ovfl_entnr' = chain[b]
                         /\ pc' = "find_chain"
                         /\ UNCHANGED <<entnr, hsymnr>>
           ELSE IF ent.symnr = undef_symnr
             THEN FoundHash(undef_symnr)
           ELSE IF ent.h = hash_symbol(s) /\ sv[ent.symnr] = s
             THEN FoundHash(ent.symnr)
           ELSE /\ entnr' = entnr + 1
                /\ UNCHANGED <<pc, ovfl_entnr, hsymnr>>
        /\ UNCHANGED <<op, s, symnr>>
        /\ UNCHANGED store

\* MUTANT: the search stays where it is.
FollowLink_Stays(ent) == ovfl_entnr

FollowLink(ent) == ent.ov_next

\* dict_find_hash: one entry of the overflow chain.
FindChain ==
    LET ent == ovfl[ovfl_entnr]
    IN  /\ pc = "find_chain"
        /\ IF sv[ent.ov_symnr] = s
             THEN FoundHash(ent.ov_symnr)
           ELSE IF ent.ov_next = undef_ovflnr
             THEN FoundHash(undef_symnr)
           ELSE /\ ovfl_entnr' = FollowLink(ent)
                /\ UNCHANGED <<pc, entnr, hsymnr>>
        /\ UNCHANGED <<op, s, symnr>>
        /\ UNCHANGED store

\* dict_find_linear: the first entry with the name.
dict_find_linear(n) ==
    LET found == {i \in 1..Len(sv) : sv[i] = n}
    IN  IF found = {} THEN undef_symnr
        ELSE CHOOSE i \in found : \A j \in found : i <= j

\* MUTANT: dict_add appends a name that it has found.
AfterFind_AppendsAgain == IF op = "find" THEN "return" ELSE "append"

\* A find returns; an add goes on to append a new name, then to enter it in
\* the hash table.
AfterFind == IF op = "find" THEN "return"
             ELSE IF hsymnr = undef_symnr THEN "append"
             ELSE "add_slots"

\* dict_find compares both answers, and aborts if they differ.
Compare ==
    /\ pc = "compare"
    /\ IF hsymnr # dict_find_linear(s)
         THEN pc' = "abort" /\ UNCHANGED <<symnr, entnr>>
         ELSE /\ symnr' = hsymnr
              /\ entnr' = 0
              /\ pc' = AfterFind
    /\ UNCHANGED <<op, s, ovfl_entnr, hsymnr>>
    /\ UNCHANGED store

\* MUTANT: a segment is added one symbol too late.
Grown_Late == IF dict_len > sz THEN sz + SegSize ELSE sz

\* The size that dict_append_symbol leaves, with dict_grow.
Grown == IF dict_len >= sz THEN sz + SegSize ELSE sz

dict_append_symbol ==
    /\ pc = "append"
    /\ symnr' = dict_len
    /\ sz' = Grown
    /\ sv' = Append(sv, s)
    /\ pc' = "add_slots"
    /\ UNCHANGED <<hashtable, tbl, chain, ovfl, ovfl_sz, op, s, entnr,
                   ovfl_entnr, hsymnr>>

----------------------------------------------------------------------------
\* dict_symnr_add_hash.

\* MUTANT: the end of a chain is marked with -1.
append_ovfl_MinusOne(v, nr) ==
    /\ ovfl' = Append(v, [ov_symnr |-> nr, ov_next |-> -1])
    /\ ovfl_sz' = IF ovfl_sz = 0 \/ ovfl_len >= ovfl_sz
                    THEN ovfl_sz + OvflSegSize ELSE ovfl_sz

\* append_ovfl: a new overflow entry behind the ones in v; the array is
\* created with its entry 0 reserved, or grown when it is full.
append_ovfl(v, nr) ==
    /\ ovfl' = Append(v, [ov_symnr |-> nr, ov_next |-> undef_ovflnr])
    /\ ovfl_sz' = IF ovfl_sz = 0 \/ ovfl_len >= ovfl_sz
                    THEN ovfl_sz + OvflSegSize ELSE ovfl_sz

\* MUTANT: the number of the bucket is stored for the hash code.
SlotEntry_BucketNr(nr) == [h |-> Bucket(sv[nr]), symnr |-> nr]

\* The entry of a symbol in its bucket.
SlotEntry(nr) == [h |-> hash_symbol(sv[nr]), symnr |-> nr]

\* One entry of the bucket, or the way to its chain.
AddSlot ==
    LET b == Bucket(sv[symnr])
        ent == tbl[b][entnr]
    IN  /\ pc = "add_slots"
        /\ IF ~hashtable
             THEN pc' = "abort" /\ UNCHANGED <<tbl, chain, ovfl, ovfl_sz, entnr, ovfl_entnr>>
           ELSE IF entnr = Assoc
             THEN /\ IF chain[b] = undef_ovflnr
                       THEN /\ append_ovfl(ovfl, symnr)
                            /\ chain' = [chain EXCEPT ![b] = ovfl_len]
                            /\ pc' = "return"
                            /\ UNCHANGED ovfl_entnr
                       ELSE /\ ovfl_entnr' = chain[b]
                            /\ pc' = "add_chain"
                            /\ UNCHANGED <<chain, ovfl, ovfl_sz>>
                  /\ UNCHANGED <<tbl, entnr>>
           ELSE /\ IF ent.symnr = undef_symnr
                     THEN /\ tbl' = [tbl EXCEPT ![b][entnr] = SlotEntry(symnr)]
                          /\ pc' = "return"
                          /\ UNCHANGED entnr
                   ELSE /\ IF ent.symnr = symnr
                             THEN pc' = "return" /\ UNCHANGED entnr
                             ELSE entnr' = entnr + 1 /\ UNCHANGED pc
                        /\ UNCHANGED tbl
                /\ UNCHANGED <<chain, ovfl, ovfl_sz, ovfl_entnr>>
        /\ UNCHANGED <<sv, sz, hashtable, op, s, hsymnr, symnr>>

\* MUTANT: nobody looks whether the symbol is in the chain already.
IsEntered_Never(ent) == FALSE

IsEntered(ent) == ent.ov_symnr = symnr

\* One entry of the overflow chain; the last one gets the new entry behind it.
AddChain ==
    LET ent == ovfl[ovfl_entnr]
    IN  /\ pc = "add_chain"
        /\ IF IsEntered(ent)
             THEN pc' = "return" /\ UNCHANGED <<ovfl, ovfl_sz, ovfl_entnr>>
           ELSE IF ent.ov_next # undef_ovflnr
             THEN ovfl_entnr' = FollowLink(ent) /\ UNCHANGED <<pc, ovfl, ovfl_sz>>
           ELSE /\ append_ovfl([ovfl EXCEPT ![ovfl_entnr].ov_next = ovfl_len], symnr)
                /\ pc' = "return"
                /\ UNCHANGED ovfl_entnr
        /\ UNCHANGED <<sv, sz, hashtable, tbl, chain, op, s, entnr, hsymnr, symnr>>

Return ==
    /\ pc = "return"
    /\ pc' = "idle"
    /\ UNCHANGED <<op, s, entnr, ovfl_entnr, hsymnr, symnr>>
    /\ UNCHANGED store

Step == \/ FindSlot \/ FindChain \/ Compare \/ dict_append_symbol
        \/ AddSlot \/ AddChain \/ Return

Next == Call \/ Step

\* An operation that was called runs: the program is sequential.
Spec == Init /\ [][Next]_vars /\ WF_vars(Step)

----------------------------------------------------------------------------
\* Every variable has its type.
TypeOK ==
    /\ sv \in Seq(Names)
    /\ sz \in Nat
    /\ hashtable \in BOOLEAN
    /\ tbl \in [0..(TblSz - 1) -> [0..(Assoc - 1) -> [h : Nat, symnr : Nat]]]
    /\ chain \in [0..(TblSz - 1) -> Nat]
    /\ ovfl \in Seq([ov_symnr : Nat, ov_next : Nat])
    /\ ovfl_sz \in Nat
    /\ pc \in {"idle", "find_slots", "find_chain", "compare", "append",
               "add_slots", "add_chain", "return", "abort"}
    /\ op \in {"add", "find"}
    /\ s \in Names
    /\ entnr \in 0..Assoc
    /\ ovfl_entnr \in Nat
    /\ hsymnr \in Nat
    /\ symnr \in Nat

\* The hash table and the linear search never disagree, so dict_find never
\* aborts; nor is a symbol ever entered in a hash table that does not exist.
NoAbort == pc # "abort"

\* The segments and the overflow array have room for every entry in use,
\* the reserved ones included; an entry is never written beyond them.
InCapacity ==
    /\ dict_len <= sz
    /\ ovfl # <<>> => ovfl_len <= ovfl_sz

\* No name has two numbers.
DistinctNames == \A i, j \in 1..Len(sv) : sv[i] = sv[j] => i = j

\* A symbol is entered in the bucket of its hash code, with that code; the
\* entries of a bucket are used from the first on, and a chain is started
\* only when all of them are.
SlotsOK ==
    \A b \in 0..(TblSz - 1) : \A e \in 0..(Assoc - 1) :
        LET ent == tbl[b][e] IN
        /\ ent.symnr # undef_symnr =>
              /\ ent.symnr \in 1..Len(sv)
              /\ ent.h = hash_symbol(sv[ent.symnr])
              /\ Bucket(sv[ent.symnr]) = b
        /\ ent.symnr = undef_symnr =>
              /\ chain[b] = undef_ovflnr
              /\ \A f \in e..(Assoc - 1) : tbl[b][f].symnr = undef_symnr

\* The bucket an overflow entry belongs to.
OvflBucket(j) == Bucket(sv[ovfl[j].ov_symnr])

\* next is the first overflow entry after j that belongs to bucket b, or 0
\* if there is none.
FirstAfter(j, b, next) ==
    /\ next # undef_ovflnr => next \in (j + 1)..Len(ovfl) /\ OvflBucket(next) = b
    /\ \A k \in (j + 1)..Len(ovfl) :
          (next = undef_ovflnr \/ k < next) => OvflBucket(k) # b

\* A chain visits all overflow entries of its bucket, in increasing order.
ChainsOK ==
    /\ \A j \in 1..Len(ovfl) : ovfl[j].ov_symnr \in 1..Len(sv)
    /\ \A j \in 1..Len(ovfl) : FirstAfter(j, OvflBucket(j), ovfl[j].ov_next)
    /\ \A b \in 0..(TblSz - 1) : FirstAfter(0, b, chain[b])

InSlot(nr) == \E e \in 0..(Assoc - 1) : tbl[Bucket(sv[nr])][e].symnr = nr
InOvfl(nr) == \E j \in 1..Len(ovfl) : ovfl[j].ov_symnr = nr

\* A symbol that was appended but is not in the hash table yet.
Entering == IF pc \in {"add_slots", "add_chain"} THEN {symnr} ELSE {}

\* Every symbol is in the hash table, but for the one that is being added.
Complete == \A nr \in (1..Len(sv)) \ Entering : InSlot(nr) \/ InOvfl(nr)

\* Where a search is, the name is at none of the places it has passed.
PassedSlots(b, n) ==
    \A e \in 0..(n - 1) : tbl[b][e].symnr # undef_symnr /\ sv[tbl[b][e].symnr] # s

PassedChain(b) ==
    /\ ovfl_entnr \in 1..Len(ovfl)
    /\ OvflBucket(ovfl_entnr) = b
    /\ \A j \in 1..(ovfl_entnr - 1) :
          OvflBucket(j) = b => sv[ovfl[j].ov_symnr] # s

Absent == \A i \in 1..Len(sv) : sv[i] # s

SearchOK ==
    /\ pc = "find_slots" => PassedSlots(Bucket(s), entnr)
    /\ pc = "find_chain" => PassedSlots(Bucket(s), Assoc) /\ PassedChain(Bucket(s))
    /\ pc = "compare" =>
          \/ hsymnr = undef_symnr /\ Absent
          \/ hsymnr \in 1..Len(sv) /\ sv[hsymnr] = s
    /\ pc = "append" => op = "add" /\ Absent /\ entnr = 0
    /\ pc \in {"add_slots", "add_chain"} =>
          op = "add" /\ symnr \in 1..Len(sv) /\ sv[symnr] = s
    /\ pc = "add_slots" =>
          \A e \in 0..(entnr - 1) : tbl[Bucket(s)][e].symnr # undef_symnr
    /\ pc = "add_chain" =>
          /\ ovfl_entnr \in 1..Len(ovfl)
          /\ OvflBucket(ovfl_entnr) = Bucket(s)

HashtableExists == pc # "idle" => hashtable

\* The inductive invariant: what makes a search by hash find a name wherever
\* dict_symnr_add_hash has put it.
IndInv ==
    /\ TypeOK
    /\ NoAbort
    /\ InCapacity
    /\ DistinctNames
    /\ SlotsOK
    /\ ChainsOK
    /\ Complete
    /\ SearchOK
    /\ HashtableExists

\* A symbol is in one place of the hash table only.
EnteredOnce ==
    /\ \A nr \in 1..Len(sv) : ~(InSlot(nr) /\ InOvfl(nr))
    /\ \A j, k \in 1..Len(ovfl) : ovfl[j].ov_symnr = ovfl[k].ov_symnr => j = k
    /\ \A b \in 0..(TblSz - 1) : \A e, f \in 0..(Assoc - 1) :
          tbl[b][e].symnr = tbl[b][f].symnr /\ tbl[b][e].symnr # undef_symnr => e = f

\* Every operation returns.
Returns == pc # "idle" ~> pc = "idle"

\* The dictionary is the symbol table that dict.h describes: an operation
\* takes effect when its name is appended, or when it is found or missed.
ST == INSTANCE SymbolTable WITH
        table <- sv,
        status <- CASE pc \in {"idle", "abort"} -> "idle"
                    [] pc \in {"add_slots", "add_chain", "return"} -> "applied"
                    [] OTHER -> "called",
        name <- s,
        result <- IF pc \in {"add_slots", "add_chain", "return"}
                    THEN symnr ELSE undef_symnr

ImplementsSymbolTable == ST!Spec
============================================================================
