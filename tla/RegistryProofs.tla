--------------------------- MODULE RegistryProofs ---------------------------
(***************************************************************************)
(* The registry of codespaces, for any number of requests, codespaces,     *)
(* paths and channels and for every page size: its types, by how much the  *)
(* cap can be exceeded, and which files outlive their codespace.  What     *)
(* each step does is a lemma of its own; the two invariants are proved     *)
(* from these.  Both rest on what a listing is sure of that no deletion    *)
(* has torn: that a key is among those it has, or ahead of it.             *)
(* Then the globs of a codespace's rules, for every glob and path.         *)
(***************************************************************************)
EXTENDS MCSafety, RecordProofs

\* A torn listing is the same but for that.
LEMMA TornEffect ==
    ASSUME NEW r, IsRequest(r), r.at # "free" => r.got \in KeyScan
    PROVE  /\ IsRequest(Torn(r)) /\ Torn(r).op = r.op /\ Torn(r).at = r.at
           /\ Torn(r).on = r.on
           /\ r.at # "free" => Torn(r).got \in KeyScan
           /\ r.at # "list" => Torn(r) = r
           /\ r.at = "list" =>
                Torn(r).got = [page |-> r.got.page, keys |-> r.got.keys,
                               clash |-> r.got.clash, torn |-> TRUE]
  BY DEF Torn, IsRequest, KeyScan

\* A put that overlaps a deletion is marked.
LEMMA ClashingEffect ==
    ASSUME NEW r, IsRequest(r), r.at # "free" => r.got \in KeyScan, NEW x
    PROVE  /\ IsRequest(Clashing(r, x)) /\ Clashing(r, x).op = r.op
           /\ Clashing(r, x).at = r.at /\ Clashing(r, x).on = r.on
           /\ r.at # "free" => Clashing(r, x).got \in KeyScan
           /\ r.op # "put" \/ r.at = "free" => Clashing(r, x) = r
           /\ r.at # "free" =>
                /\ Clashing(r, x).got.page = r.got.page
                /\ Clashing(r, x).got.keys = r.got.keys
                /\ Clashing(r, x).got.torn = r.got.torn
                /\ r.got.clash => Clashing(r, x).got.clash
           /\ r.at # "free" /\ r.op = "put" /\ r.on[1] = x => Clashing(r, x).got.clash
  BY DEF Clashing, IsRequest, KeyScan

\* A request that is through with a key has one less to see to.
LEMMA TakenEffect ==
    ASSUME NEW r, IsRequest(r), r.got \in KeyScan, NEW k
    PROVE  /\ IsRequest([r EXCEPT !.got.keys = @ \ {k}])
           /\ [r EXCEPT !.got.keys = @ \ {k}].at = r.at
           /\ [r EXCEPT !.got.keys = @ \ {k}].on = r.on
           /\ [r EXCEPT !.got.keys = @ \ {k}].op = r.op
           /\ [r EXCEPT !.got.keys = @ \ {k}].got =
                [page |-> r.got.page, keys |-> r.got.keys \ {k},
                 clash |-> r.got.clash, torn |-> r.got.torn]
  BY DEF IsRequest, KeyScan

-----------------------------------------------------------------------------
(***************************************************************************)
(* What the steps do to the requests.                                      *)
(***************************************************************************)
Idle == \A c \in Call : call[c].at = "free" => call[c] = Free

TypeInv == CallsShape /\ RegistryTypeOK /\ Idle

OthersStay(c) == \A d \in Call \ {c} : call'[d] = call[d]

OthersTorn(c) == \A d \in Call \ {c} : call'[d] = Torn(call[d])

LEMMA StoreKeysType == ASSUME RegistryTypeOK PROVE StoreKeys \in SUBSET Nat
  BY RegistryOK DEF StoreKeys, RegistryTypeOK

LEMMA NextKeysType == ASSUME TypeInv' PROVE StoreKeys' \in SUBSET Nat
  BY RegistryOK DEF StoreKeys, TypeInv, RegistryTypeOK

LEMMA PageType ==
    ASSUME RegistryTypeOK, NEW n
    PROVE  Page(n, StoreKeys) \in SUBSET Nat
  BY StoreKeysType DEF Page

LEMMA PagedType ==
    ASSUME NEW g \in KeyScan, NEW keys \in SUBSET Nat, NEW torn \in BOOLEAN
    PROVE  Paged(g, keys, torn) \in KeyScan
  BY DEF Paged, KeyScan

LEMMA NewListingType ==
    ASSUME NEW clash \in BOOLEAN
    PROVE  NewListing(clash) \in KeyScan
  BY DEF NewListing, KeyScan

-----------------------------------------------------------------------------
(***************************************************************************)
(* The types.                                                              *)
(***************************************************************************)
ValidCall(r, m) ==
    r.at # "free" =>
        /\ r.op \in {"create", "delete", "put", "bind"}
        /\ r.at \in {"list", "clone", "files", "record", "walk", "store"}
        /\ r.got \in KeyScan
        /\ r.op = "create" => r.on \in Codespace
        /\ r.op = "delete" => r.on \in m
        /\ r.op = "put" => r.on \in FileName
        /\ r.op = "bind" => r.on \in Channel \X Codespace

ValidStore ==
    /\ record \subseteq made /\ made \subseteq Codespace /\ gone \subseteq made
    /\ files \subseteq FileName
    /\ bound \in [Channel -> Codespace \cup {Unbound}]
    /\ raced \subseteq FileName /\ hidden \subseteq FileName /\ blind \in Nat

LEMMA TypeParts ==
    RegistryTypeOK <=> ValidStore /\ \A c \in Call : ValidCall(call[c], made)
  BY DEF RegistryTypeOK, ValidStore, ValidCall

\* One request's slot changes, to a free one or a valid one.
LEMMA OneSlotType ==
    ASSUME TypeInv, CallsShape', ValidStore', made \subseteq made',
           NEW c \in Call, OthersStay(c),
           call'[c].at = "free" => call'[c] = Free,
           ValidCall(call'[c], made')
    PROVE  TypeInv'
<1>1. ASSUME NEW d \in Call PROVE ValidCall(call'[d], made')
  <2>1. CASE d = c
    BY <2>1
  <2>2. CASE d # c
    BY <2>2 DEF OthersStay, TypeInv, RegistryTypeOK, ValidCall
  <2> QED
    BY <2>1, <2>2
<1>2. RegistryTypeOK'
  BY <1>1 DEF ValidStore, RegistryTypeOK, ValidCall
<1>3. Idle'
  BY DEF Idle, TypeInv, OthersStay
<1> QED
  BY <1>2, <1>3 DEF TypeInv

LEMMA FreeIsValid == Free.at = "free" /\ \A m : ValidCall(Free, m)
  BY DEF Free, ValidCall

LEMMA EndsType ==
    ASSUME TypeInv, ValidStore', made \subseteq made', NEW c \in Call, Ends(c)
    PROVE  TypeInv' /\ call'[c] = Free /\ OthersStay(c)
<1>1. CallsShape' /\ call'[c] = Free /\ OthersStay(c)
  BY EndsEffect DEF TypeInv, OthersStay
<1> QED
  BY <1>1, FreeIsValid, OneSlotType

Stage == {"list", "clone", "files", "record", "walk", "store"}

LEMMA GoesType ==
    ASSUME TypeInv, ValidStore', made \subseteq made', NEW c \in Call,
           NEW place \in Stage, NEW got \in KeyScan,
           call[c].at # "free", Goes(c, place, got)
    PROVE  /\ TypeInv' /\ OthersStay(c)
           /\ call'[c].op = call[c].op /\ call'[c].on = call[c].on
           /\ call'[c].at = place /\ call'[c].got = got
<1>1. /\ CallsShape' /\ OthersStay(c)
      /\ call'[c].op = call[c].op /\ call'[c].on = call[c].on
      /\ call'[c].at = place /\ call'[c].got = got
  BY GoesEffect DEF TypeInv, OthersStay
<1>2. ValidCall(call[c], made)
  BY TypeParts DEF TypeInv
<1>3. ValidCall(call'[c], made') /\ call'[c].at # "free"
  BY <1>1, <1>2 DEF ValidCall, Stage
<1> QED
  BY <1>1, <1>3, OneSlotType

LEMMA ArriveType ==
    ASSUME TypeInv, ValidStore', made = made', NEW c \in Call,
           NEW op, NEW place \in Stage, NEW on, NEW by, NEW got \in KeyScan,
           op \in {"create", "put", "bind"},
           op = "create" => on \in Codespace, op = "put" => on \in FileName,
           op = "bind" => on \in Channel \X Codespace,
           Arrive(c, op, place, on, by, got)
    PROVE  /\ TypeInv' /\ OthersStay(c) /\ call[c].at = "free"
           /\ call'[c].op = op /\ call'[c].on = on
           /\ call'[c].at = place /\ call'[c].got = got
<1>1. /\ CallsShape' /\ OthersStay(c) /\ call[c].at = "free"
      /\ call'[c].op = op /\ call'[c].on = on
      /\ call'[c].at = place /\ call'[c].got = got
  BY ArriveEffect DEF TypeInv, OthersStay
<1>2. ValidCall(call'[c], made') /\ call'[c].at # "free"
  BY <1>1 DEF ValidCall, Stage
<1> QED
  BY <1>1, <1>2, OneSlotType

LEMMA TornType ==
    ASSUME TypeInv, ValidStore', made = made', CallsShape', NEW c \in Call,
           OthersTorn(c),
           call'[c].at = "free" => call'[c] = Free, ValidCall(call'[c], made')
    PROVE  TypeInv'
<1>1. ASSUME NEW d \in Call, d # c
      PROVE  /\ ValidCall(call'[d], made')
             /\ call'[d].at = "free" => call'[d] = Free
  <2>1. ValidCall(call[d], made) /\ IsRequest(call[d])
    BY TypeParts DEF TypeInv, CallsShape
  <2>2. call'[d] = Torn(call[d]) /\ (call[d].at = "free" => call[d] = Free)
    BY <1>1 DEF OthersTorn, TypeInv, Idle
  <2>3. /\ Torn(call[d]).op = call[d].op /\ Torn(call[d]).at = call[d].at
        /\ Torn(call[d]).on = call[d].on
        /\ call[d].at # "free" => Torn(call[d]).got \in KeyScan
        /\ call[d].at # "list" => Torn(call[d]) = call[d]
    BY <2>1, TornEffect DEF ValidCall
  <2> QED
    BY <2>1, <2>2, <2>3 DEF ValidCall
<1>2. RegistryTypeOK'
  BY <1>1 DEF ValidStore, RegistryTypeOK, ValidCall
<1>3. Idle'
  BY <1>1 DEF Idle
<1> QED
  BY <1>2, <1>3 DEF TypeInv

LEMMA TypeFacts ==
    ASSUME TypeInv, NEW c \in Call, call[c].at # "free"
    PROVE  /\ ValidStore /\ IsRequest(call[c]) /\ ValidCall(call[c], made)
           /\ call[c].got \in KeyScan
           /\ call[c].got.page \in Nat /\ call[c].got.keys \in SUBSET Nat
           /\ call[c].got.clash \in BOOLEAN /\ call[c].got.torn \in BOOLEAN
<1>1. ValidStore /\ IsRequest(call[c]) /\ ValidCall(call[c], made)
  BY TypeParts DEF TypeInv, CallsShape
<1> QED
  BY <1>1 DEF ValidCall, KeyScan

-----------------------------------------------------------------------------
(***************************************************************************)
(* The steps, one by one: each keeps the types and does what follows.      *)
(***************************************************************************)
SameStore ==
    /\ record' = record /\ files' = files /\ bound' = bound /\ made' = made
    /\ gone' = gone /\ raced' = raced /\ hidden' = hidden

LEMMA SameStoreType ==
    ASSUME TypeInv, SameStore, blind' \in Nat
    PROVE  ValidStore' /\ StoreKeys' = StoreKeys
  BY TypeParts DEF TypeInv, SameStore, ValidStore, StoreKeys

\* The next page of a listing, with or without a key of it passed over.
LEMMA ScanEffect ==
    ASSUME TypeInv, NEW c \in Call, ListKeys(c) \/ SkipKey(c)
    PROVE  /\ TypeInv' /\ OthersStay(c) /\ SameStore /\ blind' = blind
           /\ call[c].at = "list" /\ call'[c].at = "list"
           /\ call'[c].op = call[c].op /\ call'[c].on = call[c].on
           /\ call'[c].got.page = call[c].got.page + 1
           /\ call'[c].got.clash = call[c].got.clash
           /\ \/ call'[c].got.torn
              \/ /\ call'[c].got.torn = call[c].got.torn
                 /\ call'[c].got.keys =
                      call[c].got.keys \cup Page(call[c].got.page, StoreKeys)
<1> DEFINE g == call[c].got
           ks == Page(g.page, StoreKeys)
<1>1. call[c].at = "list" /\ call[c].at # "free"
  BY DEF ListKeys, SkipKey
<1>2. SameStore /\ blind' = blind
  BY DEF ListKeys, SkipKey, registryVars, SameStore
<1>3. ValidStore' /\ g \in KeyScan /\ g.keys \in SUBSET Nat /\ g.torn \in BOOLEAN
  <2>1. blind' \in Nat
    BY <1>2, TypeParts DEF TypeInv, ValidStore
  <2> QED
    BY <1>1, <1>2, <2>1, TypeFacts, SameStoreType
<1>4. ks \in SUBSET Nat
  BY PageType DEF TypeInv
<1>5. CASE ListKeys(c)
  <2> DEFINE new == Paged(g, g.keys \cup ks, g.torn)
  <2>1. new \in KeyScan
    BY <1>3, <1>4, PagedType
  <2>2. Goes(c, "list", new)
    BY <1>5 DEF ListKeys
  <2>3. /\ new.page = g.page + 1 /\ new.clash = g.clash /\ new.torn = g.torn
        /\ new.keys = g.keys \cup ks
    BY DEF Paged
  <2> HIDE DEF new
  <2>4. /\ TypeInv' /\ OthersStay(c)
        /\ call'[c].op = call[c].op /\ call'[c].on = call[c].on
        /\ call'[c].at = "list" /\ call'[c].got = new
    BY <1>1, <1>2, <1>3, <2>1, <2>2, GoesType DEF SameStore, Stage
  <2> QED
    BY <1>1, <1>2, <2>3, <2>4
<1>6. CASE SkipKey(c)
  <2>1. PICK k \in ks : Goes(c, "list", Paged(g, g.keys \cup (ks \ {k}), TRUE))
    BY <1>6 DEF SkipKey
  <2> DEFINE new == Paged(g, g.keys \cup (ks \ {k}), TRUE)
  <2>2. new \in KeyScan
    BY <1>3, <1>4, PagedType
  <2>3. new.page = g.page + 1 /\ new.clash = g.clash /\ new.torn = TRUE
    BY DEF Paged
  <2> HIDE DEF new
  <2>4. /\ TypeInv' /\ OthersStay(c)
        /\ call'[c].op = call[c].op /\ call'[c].on = call[c].on
        /\ call'[c].at = "list" /\ call'[c].got = new
    BY <1>1, <1>2, <1>3, <2>1, <2>2, GoesType DEF SameStore, Stage, new
  <2> QED
    BY <1>1, <1>2, <2>3, <2>4
<1> QED
  BY <1>5, <1>6

\* A request that ends without a change to the store.
Fruitless(c) ==
    LimitReached(c) \/ DeleteFails(c) \/ FileLimitReached(c) \/ StoreFails(c)

LEMMA FruitlessEffect ==
    ASSUME TypeInv, NEW c \in Call, Fruitless(c)
    PROVE  /\ TypeInv' /\ OthersStay(c) /\ call'[c] = Free
           /\ SameStore /\ blind' = blind
<1>1. SameStore /\ blind' = blind /\ Ends(c)
  BY DEF Fruitless, LimitReached, DeleteFails, FileLimitReached, StoreFails,
         registryVars, SameStore
<1>2. ValidStore'
  <2>1. blind' \in Nat
    BY <1>1, TypeParts DEF TypeInv, ValidStore
  <2> QED
    BY <1>1, <2>1, SameStoreType
<1> QED
  BY <1>1, <1>2, EndsType DEF SameStore

\* A request that goes on, its listing as it is.
LEMMA CountedEffect ==
    ASSUME TypeInv, NEW c \in Call, Counted(c)
    PROVE  /\ TypeInv' /\ OthersStay(c) /\ SameStore
           /\ call[c].op = "create" /\ call[c].at = "list"
           /\ call'[c].op = "create" /\ call'[c].at = "clone"
           /\ call'[c].on = call[c].on
           /\ \/ /\ Complete(c) /\ UnderCap(Cardinality(RecordsIn(call[c].got.keys)))
                 /\ ~call[c].got.torn /\ blind' = blind
              \/ blind' = blind + 1
<1>1. SameStore /\ call[c].op = "create" /\ call[c].at = "list"
  BY DEF Counted, SameStore, At
<1>2. call[c].got \in KeyScan /\ Goes(c, "clone", call[c].got)
  BY <1>1, TypeFacts DEF Counted
<1>3. \/ /\ Complete(c) /\ UnderCap(Cardinality(RecordsIn(call[c].got.keys)))
         /\ ~call[c].got.torn /\ blind' = blind
      \/ blind' = blind + 1
  BY DEF Counted
<1>4. ValidStore'
  <2>1. blind' \in Nat
    BY <1>3, TypeParts DEF TypeInv, ValidStore
  <2> QED
    BY <1>1, <2>1, SameStoreType
<1> QED
  BY <1>1, <1>2, <1>3, <1>4, GoesType DEF SameStore, Stage

LEMMA PutCountedEffect ==
    ASSUME TypeInv, NEW c \in Call, PutCounted(c)
    PROVE  /\ TypeInv' /\ OthersStay(c) /\ SameStore /\ blind' = blind
           /\ call[c].op = "put" /\ call[c].at = "list"
           /\ call'[c].op = "put" /\ call'[c].at = "store"
           /\ call'[c].on = call[c].on /\ call'[c].got = call[c].got
<1>1. /\ SameStore /\ blind' = blind /\ call[c].op = "put" /\ call[c].at = "list"
      /\ Goes(c, "store", call[c].got)
  BY DEF PutCounted, SameStore, At, registryVars
<1>2. ValidStore' /\ call[c].got \in KeyScan
  <2>1. blind' \in Nat
    BY <1>1, TypeParts DEF TypeInv, ValidStore
  <2> QED
    BY <1>1, <2>1, SameStoreType, TypeFacts
<1> QED
  BY <1>1, <1>2, GoesType DEF SameStore, Stage

\* The requests that begin, but for deletions.
LEMMA BeginCreateEffect ==
    ASSUME TypeInv, NEW c \in Call, NEW x \in Codespace, BeginCreate(c, x)
    PROVE  /\ TypeInv' /\ OthersStay(c) /\ SameStore /\ blind' = blind
           /\ call[c].at = "free"
           /\ call'[c].op = "create" /\ call'[c].at = "list" /\ call'[c].on = x
           /\ call'[c].got = NewListing(FALSE)
           /\ x \notin made
           /\ \A d \in Call : call[d].op = "create" => call[d].on # x
<1>1. /\ SameStore /\ blind' = blind /\ x \notin made
      /\ \A d \in Call : call[d].op = "create" => call[d].on # x
      /\ Arrive(c, "create", "list", x, "user", NewListing(FALSE))
  BY DEF BeginCreate, SameStore, registryVars
<1>2. ValidStore' /\ NewListing(FALSE) \in KeyScan
  <2>1. blind' \in Nat
    BY <1>1, TypeParts DEF TypeInv, ValidStore
  <2> QED
    BY <1>1, <2>1, SameStoreType, NewListingType
<1>3. TypeInv' /\ OthersStay(c) /\ call[c].at = "free"
      /\ call'[c].op = "create" /\ call'[c].on = x
      /\ call'[c].at = "list" /\ call'[c].got = NewListing(FALSE)
  <2> DEFINE got == NewListing(FALSE)
  <2>1. got \in KeyScan /\ Arrive(c, "create", "list", x, "user", got)
    BY <1>1, <1>2
  <2> HIDE DEF got
  <2>2. TypeInv' /\ OthersStay(c) /\ call[c].at = "free"
        /\ call'[c].op = "create" /\ call'[c].on = x
        /\ call'[c].at = "list" /\ call'[c].got = got
    BY <1>1, <1>2, <2>1, ArriveType DEF SameStore, Stage
  <2> QED
    BY <2>2 DEF got
<1> QED
  BY <1>1, <1>3

LEMMA BeginPutEffect ==
    ASSUME TypeInv, NEW c \in Call, NEW f \in FileName, BeginPut(c, f)
    PROVE  /\ TypeInv' /\ OthersStay(c) /\ SameStore /\ blind' = blind
           /\ call[c].at = "free"
           /\ call'[c].op = "put" /\ call'[c].at = "list" /\ call'[c].on = f
           /\ call'[c].got = NewListing(BeingDeleted(f[1]))
           /\ f[1] \in record
<1>1. SameStore /\ blind' = blind /\ f[1] \in record
  BY DEF BeginPut, SameStore, registryVars
<1> DEFINE got == NewListing(BeingDeleted(f[1]))
<1>2. got \in KeyScan /\ Arrive(c, "put", "list", f, "user", got)
  BY NewListingType DEF BeginPut, BeingDeleted
<1>3. got = NewListing(BeingDeleted(f[1]))
  OBVIOUS
<1> HIDE DEF got
<1>4. ValidStore'
  <2>1. blind' \in Nat
    BY <1>1, TypeParts DEF TypeInv, ValidStore
  <2> QED
    BY <1>1, <2>1, SameStoreType
<1>5. TypeInv' /\ OthersStay(c) /\ call[c].at = "free"
      /\ call'[c].op = "put" /\ call'[c].on = f
      /\ call'[c].at = "list" /\ call'[c].got = got
  BY <1>1, <1>2, <1>4, ArriveType DEF SameStore, Stage
<1> QED
  BY <1>1, <1>3, <1>5

LEMMA BeginBindEffect ==
    ASSUME TypeInv, NEW c \in Call, NEW ch \in Channel, NEW x \in Codespace,
           BeginBind(c, ch, x)
    PROVE  /\ TypeInv' /\ OthersStay(c) /\ SameStore /\ blind' = blind
           /\ call[c].at = "free"
           /\ call'[c].op = "bind" /\ call'[c].at = "store"
<1> DEFINE got == NewListing(FALSE)
           on == <<ch, x>>
<1>1. /\ SameStore /\ blind' = blind
      /\ Arrive(c, "bind", "store", on, "user", got)
  BY DEF BeginBind, SameStore, registryVars
<1>2. got \in KeyScan /\ on \in Channel \X Codespace
  BY NewListingType
<1> HIDE DEF got, on
<1>3. ValidStore'
  <2>1. blind' \in Nat
    BY <1>1, TypeParts DEF TypeInv, ValidStore
  <2> QED
    BY <1>1, <2>1, SameStoreType
<1> QED
  BY <1>1, <1>2, <1>3, ArriveType DEF SameStore, Stage

\* A new record.
LEMMA StoreRecordEffect ==
    ASSUME TypeInv, NEW c \in Call, StoreRecord(c)
    PROVE  /\ TypeInv' /\ OthersStay(c) /\ call'[c] = Free
           /\ call[c].op = "create" /\ call[c].at = "clone"
           /\ files' = files /\ raced' = raced /\ hidden' = hidden
           /\ gone' = gone /\ blind' = blind
           /\ StoreKeys \subseteq StoreKeys'
           /\ \/ record' = record \cup {call[c].on} /\ made' = made \cup {call[c].on}
              \/ record' = record /\ made' = made
<1>1. /\ call[c].op = "create" /\ call[c].at = "clone" /\ Ends(c)
      /\ files' = files /\ raced' = raced /\ hidden' = hidden
      /\ gone' = gone /\ blind' = blind /\ bound' = bound
      /\ \/ record' = record \cup {call[c].on} /\ made' = made \cup {call[c].on}
         \/ record' = record /\ made' = made
  BY DEF StoreRecord, At
<1>2. ValidStore /\ call[c].on \in Codespace
  BY <1>1, TypeFacts DEF ValidCall
<1>3. ValidStore' /\ made \subseteq made'
  BY <1>1, <1>2 DEF ValidStore
<1>4. StoreKeys \subseteq StoreKeys'
  BY <1>1 DEF StoreKeys
<1> QED
  BY <1>1, <1>3, <1>4, EndsType

\* A new file.
LEMMA StoreFileEffect ==
    ASSUME TypeInv, NEW c \in Call, StoreFile(c)
    PROVE  /\ TypeInv' /\ OthersStay(c) /\ call'[c] = Free
           /\ call[c].op = "put" /\ call[c].at = "store"
           /\ files' = files \cup {call[c].on}
           /\ raced' = IF call[c].got.clash THEN raced \cup {call[c].on} ELSE raced
           /\ record' = record /\ made' = made /\ gone' = gone
           /\ hidden' = hidden /\ blind' = blind
           /\ StoreKeys \subseteq StoreKeys'
<1>1. /\ call[c].op = "put" /\ call[c].at = "store" /\ Ends(c)
      /\ files' = files \cup {call[c].on}
      /\ raced' = IF call[c].got.clash THEN raced \cup {call[c].on} ELSE raced
      /\ record' = record /\ made' = made /\ gone' = gone /\ bound' = bound
      /\ hidden' = hidden /\ blind' = blind
  BY DEF StoreFile, At
<1>2. ValidStore /\ call[c].on \in FileName
  BY <1>1, TypeFacts DEF ValidCall
<1>3. ValidStore'
  BY <1>1, <1>2 DEF ValidStore
<1>4. StoreKeys \subseteq StoreKeys'
  BY <1>1 DEF StoreKeys
<1> QED
  BY <1>1, <1>3, <1>4, EndsType

\* A new binding, or another one of the channel.
LEMMA StoreBindingEffect ==
    ASSUME TypeInv, NEW c \in Call, StoreBinding(c)
    PROVE  /\ TypeInv' /\ OthersStay(c) /\ call'[c] = Free
           /\ record' = record /\ files' = files /\ made' = made /\ gone' = gone
           /\ raced' = raced /\ hidden' = hidden /\ blind' = blind
           /\ StoreKeys \subseteq StoreKeys'
<1>1. /\ call[c].op = "bind" /\ call[c].at = "store" /\ Ends(c)
      /\ bound' = [bound EXCEPT ![call[c].on[1]] = call[c].on[2]]
      /\ record' = record /\ files' = files /\ made' = made /\ gone' = gone
      /\ raced' = raced /\ hidden' = hidden /\ blind' = blind
  BY DEF StoreBinding, At
<1>2. ValidStore /\ call[c].on \in Channel \X Codespace
  BY <1>1, TypeFacts DEF ValidCall
<1>3. PICK ch \in Channel, x \in Codespace : call[c].on = <<ch, x>>
  BY <1>2
<1>4. bound' = [bound EXCEPT ![ch] = x] /\ bound \in [Channel -> Codespace \cup {Unbound}]
  BY <1>1, <1>2, <1>3 DEF ValidStore
<1>5. bound' \in [Channel -> Codespace \cup {Unbound}]
  BY <1>4
<1>6. ValidStore'
  BY <1>1, <1>2, <1>5 DEF ValidStore
<1>7. \A b \in Channel : bound[b] # Unbound => bound'[b] # Unbound
  BY <1>4, RegistryOK
<1>8. StoreKeys \subseteq StoreKeys'
  BY <1>1, <1>7 DEF StoreKeys
<1> QED
  BY <1>1, <1>6, <1>8, EndsType

\* A deletion begins, and marks the puts it overlaps.
LEMMA BeginDeleteEffect ==
    ASSUME TypeInv, NEW c \in Call, NEW x \in Codespace, BeginDelete(c, x)
    PROVE  /\ TypeInv' /\ SameStore /\ blind' = blind /\ x \in made
           /\ call[c].at = "free"
           /\ call'[c].op = "delete" /\ call'[c].at = "list" /\ call'[c].on = x
           /\ call'[c].got = NewListing(FALSE)
           /\ \A d \in Call \ {c} : call'[d] = Clashing(call[d], x)
<1>1. SameStore /\ blind' = blind /\ x \in made /\ call[c].at = "free"
  BY DEF BeginDelete, SameStore, registryVars
<1> DEFINE new == [op |-> "delete", at |-> "list", on |-> x, by |-> "user",
                   got |-> NewListing(FALSE)]
<1>2. call' = [d \in Call |-> IF d = c THEN new ELSE Clashing(call[d], x)]
  BY DEF BeginDelete
<1>3. /\ IsRequest(new) /\ new.op = "delete" /\ new.at = "list" /\ new.on = x
      /\ new.got = NewListing(FALSE)
  BY DEF IsRequest
<1> HIDE DEF new
<1>4. call'[c] = new /\ \A d \in Call \ {c} : call'[d] = Clashing(call[d], x)
  BY <1>2
<1>5. ValidStore'
  <2>1. blind' \in Nat
    BY <1>1, TypeParts DEF TypeInv, ValidStore
  <2> QED
    BY <1>1, <2>1, SameStoreType
<1>6. ASSUME NEW d \in Call
      PROVE  /\ IsRequest(call'[d]) /\ ValidCall(call'[d], made')
             /\ call'[d].at = "free" => call'[d] = Free
  <2>1. CASE d = c
    <3>1. NewListing(FALSE) \in KeyScan
      BY NewListingType
    <3> QED
      BY <1>1, <1>3, <1>4, <2>1, <3>1 DEF ValidCall, SameStore
  <2>2. CASE d # c
    <3>1. ValidCall(call[d], made) /\ IsRequest(call[d])
      BY TypeParts DEF TypeInv, CallsShape
    <3>2. call'[d] = Clashing(call[d], x) /\ (call[d].at = "free" => call[d] = Free)
      BY <1>4, <2>2 DEF TypeInv, Idle
    <3>3. call[d].at # "free" => call[d].got \in KeyScan
      BY <3>1 DEF ValidCall
    <3>4. /\ IsRequest(Clashing(call[d], x)) /\ Clashing(call[d], x).op = call[d].op
          /\ Clashing(call[d], x).at = call[d].at /\ Clashing(call[d], x).on = call[d].on
          /\ call[d].at # "free" => Clashing(call[d], x).got \in KeyScan
          /\ call[d].at = "free" => Clashing(call[d], x) = call[d]
      BY <3>1, <3>3, ClashingEffect
    <3> QED
      BY <1>1, <3>1, <3>2, <3>4 DEF ValidCall, SameStore
  <2> QED
    BY <2>1, <2>2
<1>7. CallsShape'
  BY <1>2, <1>6 DEF CallsShape
<1>8. RegistryTypeOK'
  BY <1>5, <1>6 DEF ValidStore, RegistryTypeOK, ValidCall
<1>9. TypeInv'
  BY <1>6, <1>7, <1>8 DEF TypeInv, Idle
<1> QED
  BY <1>1, <1>3, <1>4, <1>9

\* The files of a deletion are listed.
LEMMA FilesListedEffect ==
    ASSUME TypeInv, NEW c \in Call, FilesListed(c)
    PROVE  /\ TypeInv' /\ OthersStay(c)
           /\ call[c].op = "delete" /\ call[c].at = "list" /\ Complete(c)
           /\ call'[c].op = "delete" /\ call'[c].at = "files"
           /\ call'[c].on = call[c].on /\ call'[c].got = call[c].got
           /\ record' = record /\ files' = files /\ made' = made /\ gone' = gone
           /\ raced' = raced /\ blind' = blind /\ StoreKeys' = StoreKeys
           /\ hidden \subseteq hidden'
           /\ call[c].got.torn =>
                \A f \in files : f[1] = call[c].on =>
                    f \in hidden' \/ FileKey[f] \in call[c].got.keys
<1>1. /\ call[c].op = "delete" /\ call[c].at = "list" /\ Complete(c)
      /\ Goes(c, "files", call[c].got)
      /\ record' = record /\ files' = files /\ made' = made /\ gone' = gone
      /\ raced' = raced /\ blind' = blind /\ bound' = bound
  BY DEF FilesListed, At
<1>2. hidden' = IF call[c].got.torn
                THEN hidden \cup ({f \in files : f[1] = call[c].on}
                                    \ FilesOf(call[c].on, call[c].got.keys))
                ELSE hidden
  BY DEF FilesListed
<1>3. ValidStore /\ call[c].got \in KeyScan
  BY <1>1, TypeFacts
<1>4. ValidStore'
  BY <1>1, <1>2, <1>3 DEF ValidStore
<1>5. /\ TypeInv' /\ OthersStay(c)
      /\ call'[c].op = call[c].op /\ call'[c].on = call[c].on
      /\ call'[c].at = "files" /\ call'[c].got = call[c].got
  BY <1>1, <1>3, <1>4, GoesType DEF Stage
<1>6. StoreKeys' = StoreKeys
  BY <1>1 DEF StoreKeys
<1>7. ASSUME call[c].got.torn, NEW f \in files, f[1] = call[c].on
      PROVE  f \in hidden' \/ FileKey[f] \in call[c].got.keys
  BY <1>2, <1>7 DEF FilesOf
<1>8. hidden \subseteq hidden'
  BY <1>2
<1> QED
  BY <1>1, <1>5, <1>6, <1>7, <1>8

\* Keys are deleted, and every listing under way is torn but the deleter's.
LEMMA TornMap ==
    ASSUME TypeInv, NEW c \in Call, NEW r, IsRequest(r),
           call' = [d \in Call |-> IF d = c THEN r ELSE Torn(call[d])]
    PROVE  CallsShape' /\ call'[c] = r /\ OthersTorn(c)
<1>1. call'[c] = r /\ OthersTorn(c)
  BY DEF OthersTorn
<1>2. ASSUME NEW d \in Call PROVE IsRequest(call'[d])
  <2>1. CASE d = c
    BY <1>1, <2>1
  <2>2. CASE d # c
    <3>1. IsRequest(call[d]) /\ (call[d].at # "free" => call[d].got \in KeyScan)
      BY TypeParts DEF TypeInv, CallsShape, ValidCall
    <3> QED
      BY <1>1, <2>2, <3>1, TornEffect DEF OthersTorn
  <2> QED
    BY <2>1, <2>2
<1> QED
  BY <1>1, <1>2 DEF CallsShape

LEMMA DeleteListedEffect ==
    ASSUME TypeInv, NEW c \in Call, DeleteListed(c)
    PROVE  /\ TypeInv' /\ OthersTorn(c)
           /\ call[c].op = "delete" /\ call[c].at = "files"
           /\ call'[c].op = "delete" /\ call'[c].at = "files"
           /\ call'[c].on = call[c].on
           /\ record' = record /\ made' = made /\ gone' = gone
           /\ raced' = raced /\ hidden' = hidden /\ blind' = blind
           /\ \E f \in FileName :
                files' = files \ {f}
                /\ call'[c].got.keys = call[c].got.keys \ {FileKey[f]}
<1>1. /\ call[c].op = "delete" /\ call[c].at = "files"
      /\ record' = record /\ made' = made /\ gone' = gone /\ bound' = bound
      /\ raced' = raced /\ hidden' = hidden /\ blind' = blind
  BY DEF DeleteListed, At
<1>2. PICK f \in FileName :
        /\ files' = files \ {f}
        /\ call' = [d \in Call |->
                      IF d = c THEN [call[c] EXCEPT !.got.keys = @ \ {FileKey[f]}]
                      ELSE Torn(call[d])]
  BY DEF DeleteListed, FilesOf
<1>3. ValidStore /\ IsRequest(call[c]) /\ ValidCall(call[c], made) /\ call[c].got \in KeyScan
  BY <1>1, TypeFacts
<1> DEFINE r == [call[c] EXCEPT !.got.keys = @ \ {FileKey[f]}]
<1>4. /\ IsRequest(r) /\ r.op = call[c].op /\ r.on = call[c].on /\ r.at = call[c].at
      /\ r.got = [page |-> call[c].got.page, keys |-> call[c].got.keys \ {FileKey[f]},
                  clash |-> call[c].got.clash, torn |-> call[c].got.torn]
  BY <1>3, TakenEffect
<1>5. call' = [d \in Call |-> IF d = c THEN r ELSE Torn(call[d])]
  BY <1>2
<1> HIDE DEF r
<1>6. CallsShape' /\ call'[c] = r /\ OthersTorn(c)
  BY <1>4, <1>5, TornMap
<1>7. ValidStore'
  BY <1>1, <1>2, <1>3 DEF ValidStore
<1>8. r.got \in KeyScan
  BY <1>3, <1>4 DEF KeyScan
<1>9. ValidCall(call'[c], made') /\ call'[c].at # "free"
  BY <1>1, <1>3, <1>4, <1>6, <1>8 DEF ValidCall
<1>10. TypeInv'
  BY <1>1, <1>6, <1>7, <1>9, TornType
<1>11. call'[c].got.keys = call[c].got.keys \ {FileKey[f]}
  BY <1>4, <1>6
<1>12. call'[c].op = "delete" /\ call'[c].at = "files" /\ call'[c].on = call[c].on
  BY <1>1, <1>4, <1>6
<1> QED
  BY <1>1, <1>2, <1>6, <1>10, <1>11, <1>12

LEMMA DeleteRecordEffect ==
    ASSUME TypeInv, NEW c \in Call, DeleteRecord(c)
    PROVE  /\ TypeInv' /\ OthersTorn(c)
           /\ call[c].op = "delete" /\ call[c].at = "files"
           /\ call'[c].op = "delete" /\ call'[c].at = "walk"
           /\ call'[c].on = call[c].on
           /\ FilesOf(call[c].on, call[c].got.keys) = {}
           /\ record' = record \ {call[c].on}
           /\ files' = files /\ made' = made /\ gone' = gone
           /\ raced' = raced /\ hidden' = hidden /\ blind' = blind
<1>1. /\ call[c].op = "delete" /\ call[c].at = "files"
      /\ FilesOf(call[c].on, call[c].got.keys) = {}
      /\ record' = record \ {call[c].on}
      /\ files' = files /\ made' = made /\ gone' = gone /\ bound' = bound
      /\ raced' = raced /\ hidden' = hidden /\ blind' = blind
  BY DEF DeleteRecord, At
<1>2. ValidStore /\ IsRequest(call[c]) /\ ValidCall(call[c], made)
  BY <1>1, TypeFacts
<1> DEFINE r == [op |-> "delete", at |-> "walk", on |-> call[c].on,
                 by |-> call[c].by, got |-> NewListing(FALSE)]
<1>3. /\ IsRequest(r) /\ r.op = "delete" /\ r.on = call[c].on /\ r.at = "walk"
      /\ r.got = NewListing(FALSE)
  BY DEF IsRequest
<1>4. call' = [d \in Call |-> IF d = c THEN r ELSE Torn(call[d])]
  BY DEF DeleteRecord
<1> HIDE DEF r
<1>5. CallsShape' /\ call'[c] = r /\ OthersTorn(c)
  BY <1>3, <1>4, TornMap
<1>6. ValidStore'
  BY <1>1, <1>2 DEF ValidStore
<1>7. NewListing(FALSE) \in KeyScan
  BY NewListingType
<1>8. ValidCall(call'[c], made') /\ call'[c].at # "free"
  BY <1>1, <1>2, <1>3, <1>5, <1>7 DEF ValidCall
<1>9. TypeInv'
  BY <1>1, <1>5, <1>6, <1>8, TornType
<1> QED
  BY <1>1, <1>3, <1>5, <1>9

\* A page of the walk, or its end.
LEMMA WalkPageEffect ==
    ASSUME TypeInv, NEW c \in Call, WalkPage(c) \/ WalkFails(c)
    PROVE  /\ TypeInv' /\ OthersStay(c)
           /\ call[c].op = "delete" /\ call[c].at = "walk"
           /\ record' = record /\ files' = files /\ made' = made
           /\ raced' = raced /\ hidden' = hidden /\ blind' = blind
           /\ StoreKeys' = StoreKeys
           /\ \/ /\ call'[c].op = "delete" /\ call'[c].at = "walk"
                 /\ call'[c].on = call[c].on /\ gone' = gone
              \/ call'[c] = Free /\ gone' = gone \cup {call[c].on}
<1> DEFINE g == call[c].got
           ks == Page(g.page, StoreKeys)
<1>1. /\ call[c].op = "delete" /\ call[c].at = "walk"
      /\ record' = record /\ files' = files /\ made' = made /\ bound' = bound
      /\ raced' = raced /\ hidden' = hidden /\ blind' = blind
  BY DEF WalkPage, WalkFails, At
<1>2. \/ Ends(c) /\ gone' = gone \cup {call[c].on}
      \/ (\E new \in KeyScan : Goes(c, "walk", new)) /\ gone' = gone
  <2>1. g \in KeyScan /\ g.keys \in SUBSET Nat /\ g.torn \in BOOLEAN
    BY <1>1, TypeFacts
  <2>2. CASE WalkPage(c)
    <3>1. Paged(g, ks, g.torn) \in KeyScan
      BY <2>1, PageType, PagedType DEF TypeInv
    <3>2. \/ Goes(c, "walk", Paged(g, ks, g.torn)) /\ gone' = gone
          \/ Ends(c) /\ gone' = gone \cup {call[c].on}
      BY <2>2 DEF WalkPage
    <3> QED
      BY <3>1, <3>2
  <2>3. CASE WalkFails(c)
    <3>1. ASSUME NEW k PROVE [g EXCEPT !.keys = @ \ {k}] \in KeyScan
      BY <2>1 DEF KeyScan
    <3>2. \/ Ends(c) /\ gone' = gone \cup {call[c].on}
          \/ (\E k \in g.keys : Goes(c, "walk", [g EXCEPT !.keys = @ \ {k}])) /\ gone' = gone
      BY <2>3 DEF WalkFails
    <3> QED
      BY <3>1, <3>2
  <2> QED
    BY <2>2, <2>3
<1>3. ValidStore /\ call[c].on \in made
  BY <1>1, TypeFacts DEF ValidCall
<1>4. ValidStore'
  BY <1>1, <1>2, <1>3 DEF ValidStore
<1>5. StoreKeys' = StoreKeys
  BY <1>1 DEF StoreKeys
<1>6. CASE Ends(c) /\ gone' = gone \cup {call[c].on}
  <2>1. TypeInv' /\ OthersStay(c) /\ call'[c] = Free
    BY <1>1, <1>4, <1>6, EndsType
  <2> QED
    BY <1>1, <1>5, <1>6, <2>1
<1>7. ASSUME NEW new \in KeyScan, Goes(c, "walk", new), gone' = gone
      PROVE  /\ TypeInv' /\ OthersStay(c)
             /\ call'[c].op = "delete" /\ call'[c].at = "walk"
             /\ call'[c].on = call[c].on
  BY <1>1, <1>4, <1>7, GoesType DEF Stage
<1> QED
  BY <1>1, <1>2, <1>5, <1>6, <1>7

\* A key of the walk, with the binding deleted or not.
LEMMA WalkKeyEffect ==
    ASSUME TypeInv, NEW c \in Call, WalkKey(c)
    PROVE  /\ TypeInv'
           /\ call[c].op = "delete" /\ call[c].at = "walk"
           /\ call'[c].op = "delete" /\ call'[c].at = "walk"
           /\ call'[c].on = call[c].on
           /\ record' = record /\ files' = files /\ made' = made /\ gone' = gone
           /\ raced' = raced /\ hidden' = hidden /\ blind' = blind
           /\ OthersTorn(c) \/ (OthersStay(c) /\ StoreKeys' = StoreKeys)
<1>1. /\ call[c].op = "delete" /\ call[c].at = "walk"
      /\ record' = record /\ files' = files /\ made' = made /\ gone' = gone
      /\ raced' = raced /\ hidden' = hidden /\ blind' = blind
  BY DEF WalkKey, At
<1>2. PICK k \in call[c].got.keys :
        LET hit == {ch \in NamedBy(k) : bound[ch] = call[c].on}
        IN  /\ bound' = [ch \in Channel |->
                           IF ch \in hit THEN Unbound ELSE bound[ch]]
            /\ call' = [d \in Call |->
                          IF d = c THEN [call[c] EXCEPT !.got.keys = @ \ {k}]
                          ELSE IF hit = {} THEN call[d] ELSE Torn(call[d])]
  BY DEF WalkKey
<1>3. ValidStore /\ IsRequest(call[c]) /\ ValidCall(call[c], made) /\ call[c].got \in KeyScan
  BY <1>1, TypeFacts
<1> DEFINE r == [call[c] EXCEPT !.got.keys = @ \ {k}]
           hit == {ch \in NamedBy(k) : bound[ch] = call[c].on}
<1>4. /\ IsRequest(r) /\ r.op = call[c].op /\ r.on = call[c].on /\ r.at = call[c].at
      /\ r.got = [page |-> call[c].got.page, keys |-> call[c].got.keys \ {k},
                  clash |-> call[c].got.clash, torn |-> call[c].got.torn]
  BY <1>3, TakenEffect
<1>5. /\ bound' = [ch \in Channel |-> IF ch \in hit THEN Unbound ELSE bound[ch]]
      /\ call' = [d \in Call |->
                    IF d = c THEN r ELSE IF hit = {} THEN call[d] ELSE Torn(call[d])]
  BY <1>2
<1> HIDE DEF r, hit
<1>6. r.got \in KeyScan
  BY <1>3, <1>4 DEF KeyScan
<1>7. ValidStore'
  <2>1. bound' \in [Channel -> Codespace \cup {Unbound}]
    BY <1>3, <1>5 DEF ValidStore
  <2> QED
    BY <1>1, <1>3, <2>1 DEF ValidStore
<1>8. call'[c] = r
  BY <1>5
<1>9. ValidCall(call'[c], made') /\ call'[c].at # "free"
  BY <1>1, <1>3, <1>4, <1>6, <1>8 DEF ValidCall
<1>10. CASE hit = {}
  <2>1. call' = [d \in Call |-> IF d = c THEN r ELSE call[d]]
    BY <1>5, <1>10
  <2>2. OthersStay(c)
    BY <2>1 DEF OthersStay
  <2>3. CallsShape'
    <3>1. \A d \in Call : IsRequest(call[d])
      BY DEF TypeInv, CallsShape
    <3>2. \A d \in Call : IsRequest(call'[d])
      BY <1>4, <1>8, <2>2, <3>1 DEF OthersStay
    <3>3. call' = [d \in Call |-> call'[d]]
      BY <2>1
    <3> QED
      BY <3>2, <3>3 DEF CallsShape
  <2>4. TypeInv'
    BY <1>1, <1>7, <1>9, <2>2, <2>3, OneSlotType
  <2>5. bound' = bound
    <3>1. bound = [ch \in Channel |-> bound[ch]]
      BY <1>3 DEF ValidStore
    <3>2. bound' = [ch \in Channel |-> bound[ch]]
      BY <1>5, <1>10
    <3> QED
      BY <3>1, <3>2
  <2>6. StoreKeys' = StoreKeys
    BY <1>1, <2>5 DEF StoreKeys
  <2> QED
    BY <1>1, <1>4, <1>8, <2>2, <2>4, <2>6
<1>11. CASE hit # {}
  <2>1. call' = [d \in Call |-> IF d = c THEN r ELSE Torn(call[d])]
    BY <1>5, <1>11
  <2>2. CallsShape' /\ OthersTorn(c)
    BY <1>4, <2>1, TornMap
  <2>3. TypeInv'
    BY <1>1, <1>7, <1>9, <2>2, TornType
  <2> QED
    BY <1>1, <1>4, <1>8, <2>2, <2>3
<1> QED
  BY <1>10, <1>11

\* A file is deleted by a member.
LEMMA DeleteFileEffect ==
    ASSUME TypeInv, NEW f \in FileName, DeleteFile(f)
    PROVE  /\ TypeInv' /\ \A d \in Call : call'[d] = Torn(call[d])
           /\ files' = files \ {f}
           /\ record' = record /\ made' = made /\ gone' = gone
           /\ raced' = raced /\ hidden' = hidden /\ blind' = blind
<1>1. /\ files' = files \ {f} /\ call' = [d \in Call |-> Torn(call[d])]
      /\ record' = record /\ made' = made /\ gone' = gone /\ bound' = bound
      /\ raced' = raced /\ hidden' = hidden /\ blind' = blind
  BY DEF DeleteFile
<1>2. ValidStore'
  <2>1. ValidStore
    BY TypeParts DEF TypeInv
  <2> QED
    BY <1>1, <2>1 DEF ValidStore
<1>3. ASSUME NEW d \in Call
      PROVE  /\ IsRequest(call'[d]) /\ ValidCall(call'[d], made')
             /\ call'[d].at = "free" => call'[d] = Free
  <2>1. ValidCall(call[d], made) /\ IsRequest(call[d])
    BY TypeParts DEF TypeInv, CallsShape
  <2>2. call'[d] = Torn(call[d]) /\ (call[d].at = "free" => call[d] = Free)
    BY <1>1 DEF TypeInv, Idle
  <2>3. /\ IsRequest(Torn(call[d])) /\ Torn(call[d]).op = call[d].op
        /\ Torn(call[d]).at = call[d].at /\ Torn(call[d]).on = call[d].on
        /\ call[d].at # "free" => Torn(call[d]).got \in KeyScan
        /\ call[d].at # "list" => Torn(call[d]) = call[d]
    BY <2>1, TornEffect DEF ValidCall
  <2> QED
    BY <1>1, <2>1, <2>2, <2>3 DEF ValidCall
<1>4. CallsShape' /\ RegistryTypeOK' /\ Idle'
  <2>1. CallsShape'
    BY <1>1, <1>3 DEF CallsShape
  <2>2. RegistryTypeOK'
    BY <1>2, <1>3 DEF ValidStore, RegistryTypeOK, ValidCall
  <2>3. Idle'
    BY <1>3 DEF Idle
  <2> QED
    BY <2>1, <2>2, <2>3
<1> QED
  BY <1>1, <1>4 DEF TypeInv

\* A restart, or a step of another part of the plugin.
LEMMA RestartEffect ==
    ASSUME TypeInv, RegistryRestart
    PROVE  TypeInv' /\ SameStore /\ blind' = blind /\ \A d \in Call : call'[d] = Free
<1>1. SameStore /\ blind' = blind /\ CallsCutOff
  BY DEF RegistryRestart, registryVars, SameStore
<1>2. CallsShape' /\ \A d \in Call : call'[d] = Free
  BY <1>1, CutOffEffect
<1>3. ValidStore'
  <2>1. blind' \in Nat
    BY <1>1, TypeParts DEF TypeInv, ValidStore
  <2> QED
    BY <1>1, <2>1, SameStoreType
<1>4. RegistryTypeOK' /\ Idle'
  <2>1. \A d \in Call : call'[d].at = "free"
    BY <1>2, FreeIsValid
  <2>2. RegistryTypeOK'
    BY <1>3, <2>1 DEF ValidStore, RegistryTypeOK
  <2> QED
    BY <1>2, <2>2 DEF Idle
<1> QED
  BY <1>1, <1>2, <1>4 DEF TypeInv

LEMMA StutterEffect ==
    ASSUME TypeInv, UNCHANGED <<callVars, registryVars>>
    PROVE  /\ TypeInv' /\ SameStore /\ blind' = blind /\ call' = call
           /\ StoreKeys' = StoreKeys
  BY DEF callVars, registryVars, TypeInv, SameStore, CallsShape, RegistryTypeOK,
         Idle, StoreKeys

-----------------------------------------------------------------------------
LEMMA RegistryTypeStep ==
    TypeInv /\ [RegistryNext]_<<callVars, registryVars>> => TypeInv'
<1> SUFFICES ASSUME TypeInv, [RegistryNext]_<<callVars, registryVars>>
             PROVE  TypeInv'
  OBVIOUS
<1>1. ASSUME NEW c \in Call, ListKeys(c) \/ SkipKey(c) PROVE TypeInv'
  BY <1>1, ScanEffect
<1>2. ASSUME NEW c \in Call, Counted(c) PROVE TypeInv'
  BY <1>2, CountedEffect
<1>3. ASSUME NEW c \in Call, Fruitless(c) PROVE TypeInv'
  BY <1>3, FruitlessEffect
<1>4. ASSUME NEW c \in Call, StoreRecord(c) PROVE TypeInv'
  BY <1>4, StoreRecordEffect
<1>5. ASSUME NEW c \in Call, FilesListed(c) PROVE TypeInv'
  BY <1>5, FilesListedEffect
<1>6. ASSUME NEW c \in Call, DeleteListed(c) PROVE TypeInv'
  BY <1>6, DeleteListedEffect
<1>7. ASSUME NEW c \in Call, DeleteRecord(c) PROVE TypeInv'
  BY <1>7, DeleteRecordEffect
<1>8. ASSUME NEW c \in Call, WalkPage(c) \/ WalkFails(c) PROVE TypeInv'
  BY <1>8, WalkPageEffect
<1>9. ASSUME NEW c \in Call, WalkKey(c) PROVE TypeInv'
  BY <1>9, WalkKeyEffect
<1>10. ASSUME NEW c \in Call, PutCounted(c) PROVE TypeInv'
  BY <1>10, PutCountedEffect
<1>11. ASSUME NEW c \in Call, StoreFile(c) PROVE TypeInv'
  BY <1>11, StoreFileEffect
<1>12. ASSUME NEW c \in Call, StoreBinding(c) PROVE TypeInv'
  BY <1>12, StoreBindingEffect
<1>13. ASSUME NEW c \in Call, NEW x \in Codespace, BeginCreate(c, x) PROVE TypeInv'
  BY <1>13, BeginCreateEffect
<1>14. ASSUME NEW c \in Call, NEW x \in Codespace, BeginDelete(c, x) PROVE TypeInv'
  BY <1>14, BeginDeleteEffect
<1>15. ASSUME NEW c \in Call, NEW x \in Codespace, NEW ch \in Channel,
              BeginBind(c, ch, x)
       PROVE  TypeInv'
  BY <1>15, BeginBindEffect
<1>16. ASSUME NEW c \in Call, NEW f \in FileName, BeginPut(c, f) PROVE TypeInv'
  BY <1>16, BeginPutEffect
<1>17. ASSUME NEW f \in FileName, DeleteFile(f) PROVE TypeInv'
  BY <1>17, DeleteFileEffect
<1>18. CASE RegistryRestart
  BY <1>18, RestartEffect
<1>19. CASE UNCHANGED <<callVars, registryVars>>
  BY <1>19, StutterEffect
<1> QED
  BY <1>1, <1>2, <1>3, <1>4, <1>5, <1>6, <1>7, <1>8, <1>9, <1>10, <1>11, <1>12,
     <1>13, <1>14, <1>15, <1>16, <1>17, <1>18, <1>19 DEF RegistryNext, Fruitless

LEMMA TypesHold == RegistrySpec => []TypeInv
<1>1. RegistryInit => TypeInv
  <2> SUFFICES ASSUME RegistryInit PROVE TypeInv
    OBVIOUS
  <2>1. CallsShape /\ \A c \in Call : call[c] = Free
    BY InitShape DEF RegistryInit, CallsInit
  <2>2. \A c \in Call : call[c].at = "free"
    BY <2>1, FreeIsValid
  <2>3. RegistryTypeOK
    BY <2>2 DEF RegistryInit, RegistryTypeOK
  <2> QED
    BY <2>1, <2>3 DEF TypeInv, Idle
<1> QED
  BY <1>1, RegistryTypeStep, PTL DEF RegistrySpec

\* The registry's variables keep their types: what a request works on stays
\* what its handler takes it for.
THEOREM RegistryTypeCorrect == RegistrySpec => []RegistryTypeOK
<1>1. TypeInv => RegistryTypeOK
  BY DEF TypeInv
<1> QED
  BY <1>1, TypesHold, PTL

-----------------------------------------------------------------------------
(***************************************************************************)
(* The cap.  A creation passes when it is at its clone, or will find fewer *)
(* records than the cap allows among those it has listed and those ahead   *)
(* of its listing.  While no key is deleted under the listing, that number *)
(* can only grow; and a creation that begins with the cap reached passes   *)
(* by a torn or failed count only, which is counted in blind.              *)
(***************************************************************************)
KeysInHand(c) ==
    {x \in record : \/ RecordKey[x] \in call[c].got.keys
                    \/ Place(RecordKey[x], StoreKeys) >= call[c].got.page * PageSize}

Passes(c) ==
    /\ call[c].op = "create"
    /\ \/ call[c].at = "clone"
       \/ /\ call[c].at = "list" /\ ~call[c].got.torn
          /\ Cardinality(KeysInHand(c)) < MaxCodespaces

Passing == {c \in Call : Passes(c)}

CapInv == Cardinality(record) + Cardinality(Passing)
              < MaxCodespaces + Cardinality(Call) + blind

LEMMA CapTypes ==
    ASSUME TypeInv
    PROVE  /\ IsFiniteSet(record) /\ Cardinality(record) \in Nat
           /\ IsFiniteSet(Passing) /\ Cardinality(Passing) \in Nat
           /\ Cardinality(Call) \in Nat /\ Cardinality(Passing) <= Cardinality(Call)
           /\ blind \in Nat /\ MaxCodespaces \in Nat
           /\ \A c \in Call : IsFiniteSet(KeysInHand(c)) /\ Cardinality(KeysInHand(c)) \in Nat
<1>1. record \in SUBSET Codespace /\ blind \in Nat
  BY TypeParts DEF TypeInv, ValidStore
<1>2. IsFiniteSet(record)
  BY <1>1, RegistryOK, FS_Subset
<1>3. Passing \in SUBSET Call /\ IsFiniteSet(Call) /\ MaxCodespaces \in Nat
  BY RegistryOK DEF Passing
<1>4. IsFiniteSet(Passing) /\ Cardinality(Passing) <= Cardinality(Call)
  BY <1>3, FS_Subset
<1>5. /\ Cardinality(record) \in Nat /\ Cardinality(Passing) \in Nat
      /\ Cardinality(Call) \in Nat
  BY <1>2, <1>3, <1>4, FS_CardinalityType
<1>6. ASSUME NEW c \in Call
      PROVE  IsFiniteSet(KeysInHand(c)) /\ Cardinality(KeysInHand(c)) \in Nat
  <2>1. KeysInHand(c) \in SUBSET record
    BY DEF KeysInHand
  <2> QED
    BY <1>2, <2>1, FS_Subset, FS_CardinalityType
<1> QED
  BY <1>1, <1>2, <1>3, <1>4, <1>5, <1>6

LEMMA CapKept ==
    ASSUME TypeInv, TypeInv', CapInv, Passing' \subseteq Passing,
           record' \subseteq record, blind' = blind
    PROVE  CapInv'
<1>1. Cardinality(record') <= Cardinality(record)
  BY CapTypes, FS_Subset
<1>2. Cardinality(Passing') <= Cardinality(Passing)
  BY CapTypes, FS_Subset
<1>3. /\ Cardinality(record) \in Nat /\ Cardinality(Passing) \in Nat
      /\ Cardinality(Call) \in Nat /\ blind \in Nat /\ MaxCodespaces \in Nat
  BY CapTypes
<1>4. Cardinality(record') \in Nat /\ Cardinality(Passing') \in Nat
  BY CapTypes, FS_Subset, FS_CardinalityType
<1> QED
  BY <1>1, <1>2, <1>3, <1>4 DEF CapInv

LEMMA RecordKeyType ==
    ASSUME TypeInv, NEW x \in record
    PROVE  RecordKey[x] \in Nat /\ RecordKey[x] \in StoreKeys
<1>1. x \in Codespace
  BY TypeParts DEF TypeInv, ValidStore
<1> QED
  BY <1>1, RegistryOK DEF StoreKeys

\* A creation that took no step passes only if it did before, when keys were
\* added ...
LEMMA PassesStill ==
    ASSUME TypeInv, TypeInv', NEW d \in Call, call'[d] = call[d],
           record \subseteq record', StoreKeys \subseteq StoreKeys', Passes(d)'
    PROVE  Passes(d)
<1>1. CASE call[d].at = "clone"
  BY <1>1 DEF Passes
<1>2. CASE call[d].at # "clone"
  <2>1. /\ call[d].op = "create" /\ call[d].at = "list" /\ ~call[d].got.torn
        /\ Cardinality(KeysInHand(d)') < MaxCodespaces
    BY <1>2 DEF Passes
  <2>2. ASSUME NEW x \in KeysInHand(d) PROVE x \in KeysInHand(d)'
    <3>1. CASE RecordKey[x] \in call[d].got.keys
      BY <3>1 DEF KeysInHand
    <3>2. CASE Place(RecordKey[x], StoreKeys) >= call[d].got.page * PageSize
      <4> DEFINE k == RecordKey[x]
                 n == call[d].got.page * PageSize
      <4>1. x \in record /\ k \in Nat
        BY RecordKeyType DEF KeysInHand
      <4>2. StoreKeys' \in SUBSET Nat /\ StoreKeys \in SUBSET StoreKeys'
        BY NextKeysType
      <4>3. Place(k, StoreKeys) <= Place(k, StoreKeys')
        BY <4>1, <4>2, PlaceGrows
      <4>4. Place(k, StoreKeys) \in Nat /\ Place(k, StoreKeys') \in Nat
        BY <4>1, <4>2, PlaceType
      <4>5. n \in Nat
        <5>1. call[d].got.page \in Nat
          BY <2>1, TypeFacts
        <5> QED
          BY <5>1, PageSizeOK
      <4>6. Place(k, StoreKeys) >= n
        BY <3>2
      <4>7. Place(k, StoreKeys') >= n
        <5> HIDE DEF k, n
        <5> QED
          BY <4>3, <4>4, <4>5, <4>6
      <4> QED
        BY <4>1, <4>7 DEF KeysInHand
    <3> QED
      BY <3>1, <3>2 DEF KeysInHand
  <2>3. IsFiniteSet(KeysInHand(d)') /\ Cardinality(KeysInHand(d)') \in Nat
    <3>1. KeysInHand(d)' \in SUBSET Codespace
      BY DEF KeysInHand, TypeInv, RegistryTypeOK
    <3> QED
      BY <3>1, RegistryOK, FS_Subset, FS_CardinalityType
  <2>4. Cardinality(KeysInHand(d)) <= Cardinality(KeysInHand(d)')
    BY <2>2, <2>3, FS_Subset
  <2>5. Cardinality(KeysInHand(d)) \in Nat /\ MaxCodespaces \in Nat
    BY CapTypes
  <2> QED
    BY <2>1, <2>3, <2>4, <2>5 DEF Passes
<1> QED
  BY <1>1, <1>2

\* ... or deleted, or puts marked.
LEMMA PassesTorn ==
    ASSUME TypeInv, NEW d \in Call, call'[d] = Torn(call[d]), Passes(d)'
    PROVE  Passes(d)
<1>1. IsRequest(call[d]) /\ (call[d].at # "free" => call[d].got \in KeyScan)
  BY TypeParts DEF TypeInv, CallsShape, ValidCall
<1>2. /\ Torn(call[d]).op = call[d].op /\ Torn(call[d]).at = call[d].at
      /\ call[d].at # "list" => Torn(call[d]) = call[d]
      /\ call[d].at = "list" =>
           Torn(call[d]).got = [page |-> call[d].got.page, keys |-> call[d].got.keys,
                                clash |-> call[d].got.clash, torn |-> TRUE]
  BY <1>1, TornEffect
<1>3. call[d].at = "list" => Torn(call[d]).got.torn
  BY <1>2
<1> QED
  BY <1>2, <1>3 DEF Passes

LEMMA FreeDoesNotPass ==
    ASSUME NEW c \in Call, call'[c] = Free
    PROVE  ~Passes(c)'
<1>1. Free.op = "none"
  BY DEF Free
<1> QED
  BY <1>1 DEF Passes

\* A step that changes one request and deletes no key.
LEMMA CapQuiet ==
    ASSUME TypeInv, TypeInv', CapInv, NEW c \in Call, OthersStay(c),
           record' = record, StoreKeys \subseteq StoreKeys', blind' = blind,
           Passes(c)' => Passes(c)
    PROVE  CapInv'
<1>1. ASSUME NEW d \in Call, Passes(d)' PROVE Passes(d)
  <2>1. CASE d = c
    BY <1>1, <2>1
  <2>2. CASE d # c
    BY <1>1, <2>2, PassesStill DEF OthersStay
  <2> QED
    BY <2>1, <2>2
<1>2. Passing' \subseteq Passing
  BY <1>1 DEF Passing
<1> QED
  BY <1>2, CapKept

\* A step of a request that is no creation and deletes keys.
LEMMA CapTorn ==
    ASSUME TypeInv, TypeInv', CapInv, NEW c \in Call, OthersTorn(c),
           record' \subseteq record, blind' = blind, call'[c].op # "create"
    PROVE  CapInv'
<1>1. ASSUME NEW d \in Call, Passes(d)' PROVE Passes(d)
  <2>1. d # c
    BY <1>1 DEF Passes
  <2> QED
    BY <1>1, <2>1, PassesTorn DEF OthersTorn
<1>2. Passing' \subseteq Passing
  BY <1>1 DEF Passing
<1> QED
  BY <1>2, CapKept

\* What is not among the records listed and ahead when a listing is complete
\* was not listed.
LEMMA InHandAtEnd ==
    ASSUME TypeInv, NEW c \in Call, Complete(c)
    PROVE  /\ KeysInHand(c) \subseteq RecordsIn(call[c].got.keys)
           /\ Cardinality(KeysInHand(c)) <= Cardinality(RecordsIn(call[c].got.keys))
           /\ Cardinality(RecordsIn(call[c].got.keys)) \in Nat
<1> DEFINE n == call[c].got.page
<1>1. n \in Nat /\ Page(n, StoreKeys) = {} /\ StoreKeys \in SUBSET Nat
  <2>1. call[c].at # "free"
    BY DEF Complete
  <2>2. n \in Nat
    BY <2>1, TypeFacts
  <2> QED
    BY <2>2, StoreKeysType DEF Complete, TypeInv
<1>2. \A k \in StoreKeys : Place(k, StoreKeys) < n * PageSize
  <2> HIDE DEF n
  <2> QED
    BY <1>1, EmptyPageIsLast
<1>3. ASSUME NEW x \in KeysInHand(c) PROVE x \in RecordsIn(call[c].got.keys)
  <2>1. x \in record /\ x \in Codespace
    BY DEF KeysInHand, TypeInv, RegistryTypeOK
  <2>2. RecordKey[x] \in Nat /\ RecordKey[x] \in StoreKeys
    BY <2>1, RecordKeyType
  <2>3. Place(RecordKey[x], StoreKeys) \in Nat /\ n * PageSize \in Nat
    <3>1. Place(RecordKey[x], StoreKeys) \in Nat
      BY <1>1, <2>2, PlaceType
    <3>2. n * PageSize \in Nat
      BY <1>1, PageSizeOK
    <3> QED
      BY <3>1, <3>2
  <2>4. ~(Place(RecordKey[x], StoreKeys) >= n * PageSize)
    <3> DEFINE e == n * PageSize
               q == Place(RecordKey[x], StoreKeys)
    <3>1. q \in Nat /\ e \in Nat /\ q < e
      BY <1>2, <2>2, <2>3
    <3> HIDE DEF e, q
    <3>2. ~(q >= e)
      BY <3>1
    <3> QED
      BY <3>2 DEF e, q
  <2>5. RecordKey[x] \in call[c].got.keys
    BY <2>4 DEF KeysInHand
  <2> QED
    BY <2>1, <2>5 DEF RecordsIn
<1>4. IsFiniteSet(RecordsIn(call[c].got.keys))
  BY RegistryOK, FS_Subset DEF RecordsIn
<1> QED
  BY <1>3, <1>4, FS_Subset, FS_CardinalityType

\* The count: the creation has passed before, or is let pass.
LEMMA CapCounted ==
    ASSUME TypeInv, CapInv, NEW c \in Call, Counted(c)
    PROVE  CapInv'
<1>1. /\ TypeInv' /\ OthersStay(c) /\ SameStore
      /\ call[c].op = "create" /\ call[c].at = "list"
      /\ \/ /\ Complete(c) /\ UnderCap(Cardinality(RecordsIn(call[c].got.keys)))
            /\ ~call[c].got.torn /\ blind' = blind
         \/ blind' = blind + 1
  BY CountedEffect
<1>2. record' = record /\ StoreKeys' = StoreKeys
  <2>1. StoreKeys' = StoreKeys
    BY <1>1 DEF SameStore, StoreKeys
  <2> QED
    BY <1>1, <2>1 DEF SameStore
<1>3. CASE /\ Complete(c) /\ UnderCap(Cardinality(RecordsIn(call[c].got.keys)))
           /\ ~call[c].got.torn /\ blind' = blind
  <2>1. Cardinality(KeysInHand(c)) < MaxCodespaces
    <3>1. Cardinality(KeysInHand(c)) \in Nat /\ MaxCodespaces \in Nat
      BY CapTypes
    <3>2. /\ Cardinality(KeysInHand(c)) <= Cardinality(RecordsIn(call[c].got.keys))
          /\ Cardinality(RecordsIn(call[c].got.keys)) \in Nat
      BY <1>3, InHandAtEnd
    <3>3. Cardinality(RecordsIn(call[c].got.keys)) < MaxCodespaces
      BY <1>3 DEF UnderCap
    <3> QED
      BY <3>1, <3>2, <3>3
  <2>2. Passes(c)
    BY <1>1, <1>3, <2>1 DEF Passes
  <2> QED
    BY <1>1, <1>2, <1>3, <2>2, CapQuiet
<1>4. CASE blind' = blind + 1
  <2>1. ASSUME NEW d \in Call, Passes(d)', d # c PROVE Passes(d)
    BY <1>1, <1>2, <2>1, PassesStill DEF OthersStay
  <2>2. Passing' \subseteq Passing \cup {c}
    BY <2>1 DEF Passing
  <2>3. /\ IsFiniteSet(Passing \cup {c})
        /\ Cardinality(Passing \cup {c}) <= Cardinality(Passing) + 1
        /\ Cardinality(Passing) \in Nat
    <3>1. IsFiniteSet(Passing) /\ Cardinality(Passing) \in Nat
      BY CapTypes
    <3>2. /\ IsFiniteSet(Passing \cup {c})
          /\ Cardinality(Passing \cup {c})
               = IF c \in Passing THEN Cardinality(Passing) ELSE Cardinality(Passing) + 1
      BY <3>1, FS_AddElement
    <3> QED
      BY <3>1, <3>2
  <2>4. Cardinality(Passing') <= Cardinality(Passing \cup {c}) /\ IsFiniteSet(Passing')
    BY <2>2, <2>3, FS_Subset
  <2>5. Cardinality(Passing') \in Nat /\ Cardinality(Passing \cup {c}) \in Nat
    BY <2>3, <2>4, FS_CardinalityType
  <2>6. /\ Cardinality(record) \in Nat /\ Cardinality(Call) \in Nat
        /\ blind \in Nat /\ MaxCodespaces \in Nat
    BY CapTypes
  <2> QED
    BY <1>2, <1>4, <2>3, <2>4, <2>5, <2>6 DEF CapInv
<1> QED
  BY <1>1, <1>3, <1>4

\* The record is stored, or not: one creation less passes.
LEMMA CapStored ==
    ASSUME TypeInv, CapInv, NEW c \in Call, StoreRecord(c)
    PROVE  CapInv'
<1>1. /\ TypeInv' /\ OthersStay(c) /\ call'[c] = Free
      /\ call[c].op = "create" /\ call[c].at = "clone"
      /\ blind' = blind /\ StoreKeys \subseteq StoreKeys'
      /\ record' = record \cup {call[c].on} \/ record' = record
  BY StoreRecordEffect
<1>2. c \in Passing
  BY <1>1 DEF Passing, Passes
<1>3. ASSUME NEW d \in Call, Passes(d)' PROVE d \in Passing \ {c}
  <2>1. d # c
    BY <1>1, <1>3, FreeDoesNotPass
  <2>2. record \subseteq record'
    BY <1>1
  <2>3. Passes(d)
    BY <1>1, <1>3, <2>1, <2>2, PassesStill DEF OthersStay
  <2> QED
    BY <2>1, <2>3 DEF Passing
<1>4. Passing' \subseteq Passing \ {c}
  BY <1>3 DEF Passing
<1>5. /\ IsFiniteSet(Passing \ {c})
      /\ Cardinality(Passing \ {c}) = Cardinality(Passing) - 1
      /\ Cardinality(Passing) \in Nat
  BY <1>2, CapTypes, FS_RemoveElement
<1>6. Cardinality(Passing') <= Cardinality(Passing \ {c}) /\ IsFiniteSet(Passing')
  BY <1>4, <1>5, FS_Subset
<1>7. Cardinality(Passing') \in Nat
  BY <1>6, FS_CardinalityType
<1>8. /\ Cardinality(record) \in Nat /\ Cardinality(Call) \in Nat
      /\ blind \in Nat /\ MaxCodespaces \in Nat /\ IsFiniteSet(record)
  BY CapTypes
<1>9. Cardinality(record') \in Nat /\ Cardinality(record') <= Cardinality(record) + 1
  <2>1. /\ IsFiniteSet(record \cup {call[c].on})
        /\ \/ Cardinality(record \cup {call[c].on}) = Cardinality(record)
           \/ Cardinality(record \cup {call[c].on}) = Cardinality(record) + 1
    BY <1>8, FS_AddElement
  <2>2. CASE record' = record
    BY <1>8, <2>2
  <2>3. CASE record' = record \cup {call[c].on}
    BY <1>8, <2>1, <2>3
  <2> QED
    BY <1>1, <2>2, <2>3
<1> QED
  BY <1>1, <1>5, <1>6, <1>7, <1>8, <1>9 DEF CapInv

\* A creation that begins passes only if the cap is not reached yet.
LEMMA CapBegun ==
    ASSUME TypeInv, CapInv, NEW c \in Call, NEW x \in Codespace, BeginCreate(c, x)
    PROVE  CapInv'
<1>1. /\ TypeInv' /\ OthersStay(c) /\ SameStore /\ blind' = blind
      /\ call[c].at = "free" /\ call'[c].op = "create" /\ call'[c].at = "list"
      /\ call'[c].got = NewListing(FALSE)
  BY BeginCreateEffect
<1>2. record' = record /\ StoreKeys' = StoreKeys
  <2>1. StoreKeys' = StoreKeys
    BY <1>1 DEF SameStore, StoreKeys
  <2> QED
    BY <1>1, <2>1 DEF SameStore
<1>3. CASE Passes(c)'
  <2>1. KeysInHand(c)' = record
    <3>1. call'[c].got.page = 0
      BY <1>1 DEF NewListing
    <3>2. ASSUME NEW y \in record PROVE y \in KeysInHand(c)'
      <4>1. RecordKey[y] \in Nat /\ StoreKeys \in SUBSET Nat
        BY RecordKeyType, StoreKeysType DEF TypeInv
      <4>2. Place(RecordKey[y], StoreKeys) \in Nat
        BY <4>1, PlaceType
      <4>3. Place(RecordKey[y], StoreKeys) >= 0 * PageSize
        BY <4>2, PageSizeOK
      <4> QED
        BY <1>2, <3>1, <4>3 DEF KeysInHand
    <3> QED
      BY <1>2, <3>2 DEF KeysInHand
  <2>2. Cardinality(record) < MaxCodespaces
    BY <1>1, <1>3, <2>1 DEF Passes
  <2>3. Cardinality(Passing') <= Cardinality(Call) /\ IsFiniteSet(Passing')
    BY RegistryOK, FS_Subset DEF Passing
  <2>4. Cardinality(Passing') \in Nat
    BY <2>3, FS_CardinalityType
  <2>5. /\ Cardinality(record) \in Nat /\ Cardinality(Call) \in Nat
        /\ blind \in Nat /\ MaxCodespaces \in Nat
    BY CapTypes
  <2> QED
    BY <1>1, <1>2, <2>2, <2>3, <2>4, <2>5 DEF CapInv
<1>4. CASE ~Passes(c)'
  BY <1>1, <1>2, <1>4, CapQuiet
<1> QED
  BY <1>3, <1>4

\* A deletion marks puts, and no creation.
LEMMA CapMarked ==
    ASSUME TypeInv, CapInv, NEW c \in Call, NEW x \in Codespace, BeginDelete(c, x)
    PROVE  CapInv'
<1>1. /\ TypeInv' /\ SameStore /\ blind' = blind
      /\ call'[c].op = "delete"
      /\ \A d \in Call \ {c} : call'[d] = Clashing(call[d], x)
  BY BeginDeleteEffect
<1>2. StoreKeys' = StoreKeys /\ record' = record
  BY <1>1 DEF SameStore, StoreKeys
<1>3. ASSUME NEW d \in Call, Passes(d)' PROVE Passes(d)
  <2>1. d # c
    BY <1>1, <1>3 DEF Passes
  <2>2. IsRequest(call[d]) /\ (call[d].at # "free" => call[d].got \in KeyScan)
    BY TypeParts DEF TypeInv, CallsShape, ValidCall
  <2>3. /\ Clashing(call[d], x).op = call[d].op
        /\ call[d].op # "put" => Clashing(call[d], x) = call[d]
    BY <2>2, ClashingEffect
  <2>4. call'[d] = call[d]
    BY <1>1, <1>3, <2>1, <2>3 DEF Passes
  <2> QED
    BY <1>1, <1>2, <1>3, <2>4, PassesStill
<1>4. Passing' \subseteq Passing
  BY <1>3 DEF Passing
<1> QED
  BY <1>1, <1>2, <1>4, CapKept

LEMMA CapStep ==
    TypeInv /\ CapInv /\ [RegistryNext]_<<callVars, registryVars>> => CapInv'
<1> SUFFICES ASSUME TypeInv, CapInv, [RegistryNext]_<<callVars, registryVars>>
             PROVE  CapInv'
  OBVIOUS
<1>0. SameStore => record' = record /\ StoreKeys' = StoreKeys
  BY DEF SameStore, StoreKeys
<1>1. ASSUME NEW c \in Call, ListKeys(c) \/ SkipKey(c) PROVE CapInv'
  <2>1. /\ TypeInv' /\ OthersStay(c) /\ SameStore /\ blind' = blind
        /\ call[c].at = "list" /\ call'[c].at = "list"
        /\ call'[c].op = call[c].op
        /\ call'[c].got.page = call[c].got.page + 1
        /\ \/ call'[c].got.torn
           \/ /\ call'[c].got.torn = call[c].got.torn
              /\ call'[c].got.keys =
                   call[c].got.keys \cup Page(call[c].got.page, StoreKeys)
    BY <1>1, ScanEffect
  <2>2. ASSUME Passes(c)' PROVE Passes(c)
    <3>1. /\ call[c].op = "create" /\ ~call[c].got.torn
          /\ Cardinality(KeysInHand(c)') < MaxCodespaces
          /\ call'[c].got.keys =
               call[c].got.keys \cup Page(call[c].got.page, StoreKeys)
      BY <2>1, <2>2 DEF Passes
    <3>2. ASSUME NEW y \in KeysInHand(c) PROVE y \in KeysInHand(c)'
      <4> DEFINE k == RecordKey[y]
                 n == call[c].got.page
      <4>1. y \in record /\ y \in record'
        BY <1>0, <2>1 DEF KeysInHand
      <4>2. k \in StoreKeys /\ StoreKeys \in SUBSET Nat /\ n \in Nat
        <5>1. k \in StoreKeys
          BY <4>1, RecordKeyType
        <5>2. StoreKeys \in SUBSET Nat
          BY StoreKeysType DEF TypeInv
        <5>3. n \in Nat
          BY <2>1, TypeFacts
        <5> QED
          BY <5>1, <5>2, <5>3
      <4>3. CASE k \in call[c].got.keys
        BY <3>1, <4>1, <4>3 DEF KeysInHand
      <4>4. CASE Place(k, StoreKeys) >= n * PageSize
        <5>1. k \in Page(n, StoreKeys) \/ Place(k, StoreKeys) >= (n + 1) * PageSize
          <6> HIDE DEF k, n
          <6> QED
            BY <4>2, <4>4, OnPageOrPast
        <5> QED
          BY <1>0, <2>1, <3>1, <4>1, <5>1 DEF KeysInHand
      <4> QED
        BY <4>3, <4>4 DEF KeysInHand
    <3>3. IsFiniteSet(KeysInHand(c)') /\ Cardinality(KeysInHand(c)') \in Nat
      <4>1. KeysInHand(c)' \in SUBSET Codespace
        BY <2>1 DEF KeysInHand, TypeInv, RegistryTypeOK
      <4> QED
        BY <4>1, RegistryOK, FS_Subset, FS_CardinalityType
    <3>4. Cardinality(KeysInHand(c)) <= Cardinality(KeysInHand(c)')
      BY <3>2, <3>3, FS_Subset
    <3>5. Cardinality(KeysInHand(c)) \in Nat /\ MaxCodespaces \in Nat
      BY CapTypes
    <3>6. Cardinality(KeysInHand(c)) < MaxCodespaces
      BY <3>1, <3>3, <3>4, <3>5
    <3> QED
      BY <2>1, <3>1, <3>6 DEF Passes
  <2> QED
    BY <1>0, <2>1, <2>2, CapQuiet
<1>2. ASSUME NEW c \in Call, Counted(c) PROVE CapInv'
  BY <1>2, CapCounted
<1>3. ASSUME NEW c \in Call, Fruitless(c) PROVE CapInv'
  <2>1. /\ TypeInv' /\ OthersStay(c) /\ call'[c] = Free
        /\ SameStore /\ blind' = blind
    BY <1>3, FruitlessEffect
  <2> QED
    BY <1>0, <2>1, FreeDoesNotPass, CapQuiet
<1>4. ASSUME NEW c \in Call, StoreRecord(c) PROVE CapInv'
  BY <1>4, CapStored
<1>5. ASSUME NEW c \in Call, FilesListed(c) PROVE CapInv'
  <2>1. /\ TypeInv' /\ OthersStay(c) /\ call'[c].op = "delete"
        /\ record' = record /\ blind' = blind /\ StoreKeys' = StoreKeys
    BY <1>5, FilesListedEffect
  <2>2. ~Passes(c)'
    BY <2>1 DEF Passes
  <2> QED
    BY <2>1, <2>2, CapQuiet
<1>6. ASSUME NEW c \in Call, DeleteListed(c) PROVE CapInv'
  <2>1. /\ TypeInv' /\ OthersTorn(c) /\ call'[c].op = "delete"
        /\ record' = record /\ blind' = blind
    BY <1>6, DeleteListedEffect
  <2> QED
    BY <2>1, CapTorn
<1>7. ASSUME NEW c \in Call, DeleteRecord(c) PROVE CapInv'
  <2>1. /\ TypeInv' /\ OthersTorn(c) /\ call'[c].op = "delete"
        /\ record' = record \ {call[c].on} /\ blind' = blind
    BY <1>7, DeleteRecordEffect
  <2> QED
    BY <2>1, CapTorn
<1>8. ASSUME NEW c \in Call, WalkPage(c) \/ WalkFails(c) PROVE CapInv'
  <2>1. /\ TypeInv' /\ OthersStay(c) /\ record' = record /\ blind' = blind
        /\ StoreKeys' = StoreKeys
        /\ call'[c].op = "delete" \/ call'[c] = Free
    BY <1>8, WalkPageEffect
  <2>2. ~Passes(c)'
    BY <2>1, FreeDoesNotPass DEF Passes
  <2> QED
    BY <2>1, <2>2, CapQuiet
<1>9. ASSUME NEW c \in Call, WalkKey(c) PROVE CapInv'
  <2>1. /\ TypeInv' /\ call'[c].op = "delete"
        /\ record' = record /\ blind' = blind
        /\ OthersTorn(c) \/ (OthersStay(c) /\ StoreKeys' = StoreKeys)
    BY <1>9, WalkKeyEffect
  <2>2. ~Passes(c)'
    BY <2>1 DEF Passes
  <2> QED
    BY <2>1, <2>2, CapQuiet, CapTorn
<1>10. ASSUME NEW c \in Call, PutCounted(c) PROVE CapInv'
  <2>1. /\ TypeInv' /\ OthersStay(c) /\ SameStore /\ blind' = blind
        /\ call'[c].op = "put"
    BY <1>10, PutCountedEffect
  <2>2. ~Passes(c)'
    BY <2>1 DEF Passes
  <2> QED
    BY <1>0, <2>1, <2>2, CapQuiet
<1>11. ASSUME NEW c \in Call, StoreFile(c) PROVE CapInv'
  <2>1. /\ TypeInv' /\ OthersStay(c) /\ call'[c] = Free
        /\ record' = record /\ blind' = blind /\ StoreKeys \subseteq StoreKeys'
    BY <1>11, StoreFileEffect
  <2> QED
    BY <2>1, FreeDoesNotPass, CapQuiet
<1>12. ASSUME NEW c \in Call, StoreBinding(c) PROVE CapInv'
  <2>1. /\ TypeInv' /\ OthersStay(c) /\ call'[c] = Free
        /\ record' = record /\ blind' = blind /\ StoreKeys \subseteq StoreKeys'
    BY <1>12, StoreBindingEffect
  <2> QED
    BY <2>1, FreeDoesNotPass, CapQuiet
<1>13. ASSUME NEW c \in Call, NEW x \in Codespace, BeginCreate(c, x) PROVE CapInv'
  BY <1>13, CapBegun
<1>14. ASSUME NEW c \in Call, NEW x \in Codespace, BeginDelete(c, x) PROVE CapInv'
  BY <1>14, CapMarked
<1>15. ASSUME NEW c \in Call, NEW x \in Codespace, NEW ch \in Channel,
              BeginBind(c, ch, x)
       PROVE  CapInv'
  <2>1. /\ TypeInv' /\ OthersStay(c) /\ SameStore /\ blind' = blind
        /\ call'[c].op = "bind"
    BY <1>15, BeginBindEffect
  <2>2. ~Passes(c)'
    BY <2>1 DEF Passes
  <2> QED
    BY <1>0, <2>1, <2>2, CapQuiet
<1>16. ASSUME NEW c \in Call, NEW f \in FileName, BeginPut(c, f) PROVE CapInv'
  <2>1. /\ TypeInv' /\ OthersStay(c) /\ SameStore /\ blind' = blind
        /\ call'[c].op = "put"
    BY <1>16, BeginPutEffect
  <2>2. ~Passes(c)'
    BY <2>1 DEF Passes
  <2> QED
    BY <1>0, <2>1, <2>2, CapQuiet
<1>17. ASSUME NEW f \in FileName, DeleteFile(f) PROVE CapInv'
  <2>1. /\ TypeInv' /\ \A d \in Call : call'[d] = Torn(call[d])
        /\ record' = record /\ blind' = blind
    BY <1>17, DeleteFileEffect
  <2>2. Passing' \subseteq Passing
    BY <2>1, PassesTorn DEF Passing
  <2> QED
    BY <2>1, <2>2, CapKept
<1>18. CASE RegistryRestart
  <2>1. TypeInv' /\ SameStore /\ blind' = blind /\ \A d \in Call : call'[d] = Free
    BY <1>18, RestartEffect
  <2>2. Passing' \subseteq Passing
    BY <2>1, FreeDoesNotPass DEF Passing
  <2> QED
    BY <1>0, <2>1, <2>2, CapKept
<1>19. CASE UNCHANGED <<callVars, registryVars>>
  <2>1. TypeInv' /\ SameStore /\ blind' = blind /\ call' = call /\ StoreKeys' = StoreKeys
    BY <1>19, StutterEffect
  <2>2. Passing' \subseteq Passing
    BY <1>0, <2>1, PassesStill DEF Passing
  <2> QED
    BY <1>0, <2>1, <2>2, CapKept
<1> QED
  BY <1>1, <1>2, <1>3, <1>4, <1>5, <1>6, <1>7, <1>8, <1>9, <1>10, <1>11, <1>12,
     <1>13, <1>14, <1>15, <1>16, <1>17, <1>18, <1>19 DEF RegistryNext, Fruitless

\* The cap is exceeded by no more records than there are other requests at one
\* time and failed or torn counts.
THEOREM CapIsNearlyKept == RegistrySpec => []CapOvershoot
<1>1. RegistryInit => CapInv
  <2> SUFFICES ASSUME RegistryInit PROVE CapInv
    OBVIOUS
  <2>1. record = {} /\ blind = 0 /\ \A c \in Call : call[c].op = "none"
    BY DEF RegistryInit, CallsInit, Free
  <2>2. Passing = {}
    BY <2>1 DEF Passing, Passes
  <2>3. Cardinality(Call) \in Nat /\ MaxCodespaces \in Nat /\ MaxCodespaces > 0
    BY RegistryOK, FS_CardinalityType
  <2> QED
    BY <2>1, <2>2, <2>3, FS_EmptySet DEF CapInv
<1>2. TypeInv /\ CapInv => CapOvershoot
  <2> SUFFICES ASSUME TypeInv, CapInv PROVE CapOvershoot
    OBVIOUS
  <2>1. /\ Cardinality(record) \in Nat /\ Cardinality(Passing) \in Nat
        /\ Cardinality(Call) \in Nat /\ blind \in Nat /\ MaxCodespaces \in Nat
    BY CapTypes
  <2> QED
    BY <2>1 DEF CapInv, CapOvershoot
<1> QED
  BY <1>1, <1>2, CapStep, TypesHold, PTL DEF RegistrySpec

-----------------------------------------------------------------------------
(***************************************************************************)
(* The orphans.  A put that no deletion has overlapped is about a          *)
(* codespace that has its record; a deletion has every file of its         *)
(* codespace among those it has listed or ahead of its listing, but those  *)
(* that an overlapping put stored or a torn listing hid; and so no other   *)
(* file is left when it deletes the record.                                *)
(***************************************************************************)
Excused == raced \cup hidden

FileInHand(c, f) ==
    \/ FileKey[f] \in call[c].got.keys
    \/ Place(FileKey[f], StoreKeys) >= call[c].got.page * PageSize

PutOK(c) ==
    call[c].op = "put" /\ ~call[c].got.clash =>
        call[c].on[1] \in record /\ ~BeingDeleted(call[c].on[1])

DeleteOK(c) ==
    call[c].op = "delete" =>
        /\ call[c].at = "walk" => call[c].on \notin record
        /\ \A f \in files \ Excused : f[1] = call[c].on =>
             /\ call[c].at = "list" /\ ~call[c].got.torn => FileInHand(c, f)
             /\ call[c].at = "files" => FileKey[f] \in call[c].got.keys

CreateOK(c) ==
    call[c].op = "create" =>
        /\ call[c].on \notin made
        /\ \A d \in Call : call[d].op = "create" /\ call[d].on = call[c].on => d = c

CallOK(c) == PutOK(c) /\ DeleteOK(c) /\ CreateOK(c)

Deserted == \A f \in files \ Excused : f[1] \notin made \ record

OrphanInv ==
    /\ \A c \in Call : CallOK(c)
    /\ Deserted
    /\ gone \cap record = {}

NoDeletionBegins == \A x : BeingDeleted(x)' => BeingDeleted(x)

\* No request becomes a deletion or a creation.
NoneBegins ==
    \A d \in Call :
        /\ call'[d].op = "delete" => call[d].op = "delete" /\ call'[d].on = call[d].on
        /\ call'[d].op = "create" => call[d].op = "create" /\ call'[d].on = call[d].on

LEMMA NoneBeginsEffect ==
    ASSUME NoneBegins
    PROVE  /\ NoDeletionBegins
           /\ \A d \in Call :
                CreateOK(d) /\ (call'[d].op = "create" => call[d].on \notin made')
                    => CreateOK(d)'
  BY DEF NoneBegins, NoDeletionBegins, BeingDeleted, CreateOK

LEMMA FreeIsOK ==
    ASSUME NEW c \in Call, call'[c] = Free
    PROVE  CallOK(c)' /\ call'[c].op = "none"
<1>1. Free.op = "none"
  BY DEF Free
<1> QED
  BY <1>1 DEF CallOK, PutOK, DeleteOK, CreateOK

LEMMA OnlyFreeIdles ==
    ASSUME TypeInv, NEW c \in Call, call[c].op # "none"
    PROVE  call[c].at # "free"
<1>1. Free.op = "none"
  BY DEF Free
<1> QED
  BY <1>1 DEF TypeInv, Idle

\* A request that took no step.
LEMMA StaysOK ==
    ASSUME TypeInv, TypeInv', NEW d \in Call, CallOK(d), call'[d] = call[d],
           NoDeletionBegins, CreateOK(d)',
           record \subseteq record', record' \cap made \subseteq record,
           StoreKeys \subseteq StoreKeys', Excused \subseteq Excused',
           \A f \in files' \ Excused' : f \in files \/ ~BeingDeleted(f[1])
    PROVE  CallOK(d)'
<1>2. PutOK(d)'
  BY DEF CallOK, PutOK, NoDeletionBegins
<1>4. DeleteOK(d)'
  <2> SUFFICES ASSUME call[d].op = "delete" PROVE DeleteOK(d)'
    BY DEF DeleteOK
  <2>0. /\ call[d].on \in made /\ call[d].got.page \in Nat
        /\ call[d].at # "free"
    BY OnlyFreeIdles, TypeFacts DEF ValidCall
  <2>1. call[d].at = "walk" => call[d].on \notin record'
    BY <2>0 DEF CallOK, DeleteOK
  <2>2. ASSUME NEW f \in files' \ Excused', f[1] = call[d].on
        PROVE  /\ f \in FileName
               /\ call[d].at = "list" /\ ~call[d].got.torn => FileInHand(d, f)
               /\ call[d].at = "files" => FileKey[f] \in call[d].got.keys
    <3>1. BeingDeleted(f[1])
      BY <2>2 DEF BeingDeleted
    <3>2. f \in files \ Excused
      BY <2>2, <3>1
    <3>3. f \in FileName
      BY <3>2 DEF TypeInv, RegistryTypeOK
    <3> QED
      BY <2>2, <3>2, <3>3 DEF CallOK, DeleteOK
  <2>3. ASSUME NEW f \in FileName, FileInHand(d, f) PROVE FileInHand(d, f)'
    <3>1. CASE FileKey[f] \in call[d].got.keys
      BY <3>1 DEF FileInHand
    <3>2. CASE Place(FileKey[f], StoreKeys) >= call[d].got.page * PageSize
      <4> DEFINE k == FileKey[f]
                 n == call[d].got.page * PageSize
      <4>1. k \in Nat /\ n \in Nat
        <5>1. n \in Nat
          BY <2>0, PageSizeOK
        <5> QED
          BY <5>1, RegistryOK
      <4>2. StoreKeys' \in SUBSET Nat /\ StoreKeys \in SUBSET StoreKeys'
        BY NextKeysType
      <4>3. Place(k, StoreKeys) <= Place(k, StoreKeys')
        BY <4>1, <4>2, PlaceGrows
      <4>4. Place(k, StoreKeys) \in Nat /\ Place(k, StoreKeys') \in Nat
        BY <4>1, <4>2, PlaceType
      <4>5. Place(k, StoreKeys) >= n
        BY <3>2
      <4>6. Place(k, StoreKeys') >= n
        <5> HIDE DEF k, n
        <5> QED
          BY <4>1, <4>3, <4>4, <4>5
      <4> QED
        BY <4>6 DEF FileInHand
    <3> QED
      BY <2>3, <3>1, <3>2 DEF FileInHand
  <2> QED
    BY <2>1, <2>2, <2>3 DEF DeleteOK
<1> QED
  BY <1>2, <1>4 DEF CallOK

\* A request that took no step while another one deleted keys.
LEMMA TornOK ==
    ASSUME TypeInv, NEW d \in Call, CallOK(d), call'[d] = Torn(call[d]),
           NoDeletionBegins, CreateOK(d)', record' \subseteq record,
           \A x \in record \ record' : BeingDeleted(x),
           files' \subseteq files, Excused' = Excused
    PROVE  CallOK(d)'
<1>2. IsRequest(call[d]) /\ (call[d].at # "free" => call[d].got \in KeyScan)
  BY TypeParts DEF TypeInv, CallsShape, ValidCall
<1>3. /\ Torn(call[d]).op = call[d].op /\ Torn(call[d]).at = call[d].at
      /\ Torn(call[d]).on = call[d].on
      /\ call[d].at # "list" => Torn(call[d]) = call[d]
      /\ call[d].at = "list" =>
           Torn(call[d]).got = [page |-> call[d].got.page, keys |-> call[d].got.keys,
                                clash |-> call[d].got.clash, torn |-> TRUE]
  BY <1>2, TornEffect
<1>4. /\ call'[d].op = call[d].op /\ call'[d].at = call[d].at
      /\ call'[d].on = call[d].on
      /\ call[d].at = "list" =>
           call'[d].got.torn /\ call'[d].got.clash = call[d].got.clash
      /\ call[d].at # "list" => call'[d] = call[d]
  BY <1>3
<1>5. PutOK(d)'
  BY <1>4 DEF CallOK, PutOK, NoDeletionBegins
<1>7. DeleteOK(d)'
  BY <1>4 DEF CallOK, DeleteOK
<1> QED
  BY <1>5, <1>7 DEF CallOK

\* A step of one request that begins none.
LEMMA BeginsNone ==
    ASSUME TypeInv, NEW c \in Call, OthersStay(c) \/ OthersTorn(c),
           call'[c].op \in {"delete", "create"} =>
               call'[c].op = call[c].op /\ call'[c].on = call[c].on
    PROVE  NoneBegins
<1>1. ASSUME NEW d \in Call, d # c
      PROVE  call'[d].op = call[d].op /\ call'[d].on = call[d].on
  <2>1. CASE OthersStay(c)
    BY <1>1, <2>1 DEF OthersStay
  <2>2. CASE OthersTorn(c)
    <3>1. IsRequest(call[d]) /\ (call[d].at # "free" => call[d].got \in KeyScan)
      BY TypeParts DEF TypeInv, CallsShape, ValidCall
    <3> QED
      BY <1>1, <2>2, <3>1, TornEffect DEF OthersTorn
  <2> QED
    BY <2>1, <2>2
<1> QED
  BY <1>1 DEF NoneBegins

\* A step of one request that leaves the records and the files.
LEMMA OrphanQuiet ==
    ASSUME TypeInv, TypeInv', OrphanInv, NEW c \in Call, OthersStay(c), NoneBegins,
           record' = record, made' = made, files' = files,
           Excused \subseteq Excused', gone' \cap record = {},
           StoreKeys \subseteq StoreKeys', CallOK(c)'
    PROVE  OrphanInv'
<1>1. ASSUME NEW d \in Call PROVE CallOK(d)'
  <2>1. CASE d = c
    BY <2>1
  <2>2. CASE d # c
    <3>1. call'[d] = call[d] /\ CallOK(d)
      BY <2>2 DEF OthersStay, OrphanInv
    <3>2. NoDeletionBegins /\ CreateOK(d)'
      BY <3>1, NoneBeginsEffect DEF CallOK, CreateOK
    <3>3. /\ record \subseteq record' /\ record' \cap made \subseteq record
          /\ \A f \in files' \ Excused' : f \in files \/ ~BeingDeleted(f[1])
      OBVIOUS
    <3> QED
      BY <3>1, <3>2, <3>3, StaysOK
  <2> QED
    BY <2>1, <2>2
<1>2. Deserted' /\ gone' \cap record' = {}
  BY DEF OrphanInv, Deserted
<1> QED
  BY <1>1, <1>2 DEF OrphanInv

\* A step of a deletion that deletes keys.
LEMMA OrphanTorn ==
    ASSUME TypeInv, TypeInv', OrphanInv, NEW c \in Call, OthersTorn(c), NoneBegins,
           record' \subseteq record, \A x \in record \ record' : BeingDeleted(x),
           made' = made, files' \subseteq files, Excused' = Excused, gone' = gone,
           Deserted', CallOK(c)'
    PROVE  OrphanInv'
<1>1. ASSUME NEW d \in Call PROVE CallOK(d)'
  <2>1. CASE d = c
    BY <2>1
  <2>2. CASE d # c
    <3>1. call'[d] = Torn(call[d]) /\ CallOK(d)
      BY <2>2 DEF OthersTorn, OrphanInv
    <3>2. call'[d].op = "create" => call[d].on \notin made'
      BY <3>1 DEF CallOK, CreateOK, NoneBegins
    <3>3. NoDeletionBegins /\ CreateOK(d)'
      BY <3>1, <3>2, NoneBeginsEffect DEF CallOK
    <3> QED
      BY <3>1, <3>3, TornOK
  <2> QED
    BY <2>1, <2>2
<1>2. gone' \cap record' = {}
  BY DEF OrphanInv
<1> QED
  BY <1>1, <1>2 DEF OrphanInv
\* One more page of a listing.
LEMMA OrphanScan ==
    ASSUME TypeInv, OrphanInv, NEW c \in Call, ListKeys(c) \/ SkipKey(c)
    PROVE  OrphanInv'
<1>1. /\ TypeInv' /\ OthersStay(c) /\ SameStore /\ blind' = blind
      /\ call[c].at = "list" /\ call'[c].at = "list"
      /\ call'[c].op = call[c].op /\ call'[c].on = call[c].on
      /\ call'[c].got.page = call[c].got.page + 1
      /\ call'[c].got.clash = call[c].got.clash
      /\ \/ call'[c].got.torn
         \/ /\ call'[c].got.torn = call[c].got.torn
            /\ call'[c].got.keys =
                 call[c].got.keys \cup Page(call[c].got.page, StoreKeys)
  BY ScanEffect
<1>2. /\ record' = record /\ made' = made /\ files' = files /\ gone' = gone
      /\ Excused' = Excused /\ StoreKeys' = StoreKeys
  BY <1>1 DEF SameStore, StoreKeys, Excused
<1>3. NoneBegins /\ NoDeletionBegins
  BY <1>1, BeginsNone, NoneBeginsEffect
<1>4. CallOK(c)
  BY DEF OrphanInv
<1>5. PutOK(c)'
  BY <1>1, <1>2, <1>3, <1>4 DEF CallOK, PutOK, NoDeletionBegins
<1>6. CreateOK(c)'
  BY <1>1, <1>2, <1>3, <1>4, NoneBeginsEffect DEF CallOK, CreateOK
<1>7. DeleteOK(c)'
  <2>1. ASSUME call[c].op = "delete", NEW f \in files \ Excused, f[1] = call[c].on,
               ~call'[c].got.torn
        PROVE  FileInHand(c, f)'
    <3> DEFINE k == FileKey[f]
               n == call[c].got.page
    <3>1. FileInHand(c, f) /\ call'[c].got.keys = call[c].got.keys \cup Page(n, StoreKeys)
      BY <1>1, <1>4, <2>1 DEF CallOK, DeleteOK
    <3>2. k \in StoreKeys /\ StoreKeys \in SUBSET Nat /\ n \in Nat
      <4>1. k \in StoreKeys
        BY <2>1 DEF StoreKeys
      <4>2. StoreKeys \in SUBSET Nat
        BY StoreKeysType DEF TypeInv
      <4>3. n \in Nat
        BY <1>1, TypeFacts
      <4> QED
        BY <4>1, <4>2, <4>3
    <3>3. CASE k \in call[c].got.keys
      BY <3>1, <3>3 DEF FileInHand
    <3>4. CASE Place(k, StoreKeys) >= n * PageSize
      <4>1. k \in Page(n, StoreKeys) \/ Place(k, StoreKeys) >= (n + 1) * PageSize
        <5> HIDE DEF k, n
        <5> QED
          BY <3>2, <3>4, OnPageOrPast
      <4> QED
        BY <1>1, <1>2, <3>1, <4>1 DEF FileInHand
    <3> QED
      BY <3>1, <3>3, <3>4 DEF FileInHand
  <2> QED
    BY <1>1, <1>2, <2>1 DEF DeleteOK
<1>8. CallOK(c)'
  BY <1>5, <1>6, <1>7 DEF CallOK
<1>9. Excused \subseteq Excused' /\ gone' \cap record = {} /\ StoreKeys \subseteq StoreKeys'
  BY <1>2 DEF OrphanInv
<1> QED
  BY <1>1, <1>2, <1>3, <1>8, <1>9, OrphanQuiet

\* A request that goes on to its clone or to its store.
LEMMA OrphanCounted ==
    ASSUME TypeInv, OrphanInv, NEW c \in Call, Counted(c) \/ PutCounted(c)
    PROVE  OrphanInv'
<1>1. /\ TypeInv' /\ OthersStay(c) /\ SameStore
      /\ call'[c].op = call[c].op /\ call'[c].on = call[c].on
      /\ call'[c].op \in {"create", "put"}
      /\ call'[c].op = "put" => call'[c].got = call[c].got
  BY CountedEffect, PutCountedEffect
<1>2. /\ record' = record /\ made' = made /\ files' = files /\ gone' = gone
      /\ Excused' = Excused /\ StoreKeys' = StoreKeys
  BY <1>1 DEF SameStore, StoreKeys, Excused
<1>3. NoneBegins /\ NoDeletionBegins
  BY <1>1, BeginsNone, NoneBeginsEffect
<1>4. CallOK(c)
  BY DEF OrphanInv
<1>5. PutOK(c)'
  BY <1>1, <1>2, <1>3, <1>4 DEF CallOK, PutOK, NoDeletionBegins
<1>6. CreateOK(c)'
  BY <1>1, <1>2, <1>3, <1>4, NoneBeginsEffect DEF CallOK, CreateOK
<1>7. CallOK(c)'
  BY <1>1, <1>5, <1>6 DEF CallOK, DeleteOK
<1>8. Excused \subseteq Excused' /\ gone' \cap record = {} /\ StoreKeys \subseteq StoreKeys'
  BY <1>2 DEF OrphanInv
<1> QED
  BY <1>1, <1>2, <1>3, <1>7, <1>8, OrphanQuiet

\* A request that ends and leaves records and files as they are.
LEMMA OrphanEnds ==
    ASSUME TypeInv, OrphanInv, NEW c \in Call, Fruitless(c) \/ StoreBinding(c)
    PROVE  OrphanInv'
<1>1. /\ TypeInv' /\ OthersStay(c) /\ call'[c] = Free
      /\ record' = record /\ made' = made /\ files' = files /\ gone' = gone
      /\ raced' = raced /\ hidden' = hidden /\ StoreKeys \subseteq StoreKeys'
  <2>1. CASE Fruitless(c)
    <3>1. TypeInv' /\ OthersStay(c) /\ call'[c] = Free /\ SameStore
      BY <2>1, FruitlessEffect
    <3> QED
      BY <3>1 DEF SameStore, StoreKeys
  <2>2. CASE StoreBinding(c)
    BY <2>2, StoreBindingEffect
  <2> QED
    BY <2>1, <2>2
<1>2. CallOK(c)' /\ call'[c].op = "none"
  BY <1>1, FreeIsOK
<1>3. NoneBegins
  BY <1>1, <1>2, BeginsNone
<1>4. Excused \subseteq Excused' /\ gone' \cap record = {}
  BY <1>1 DEF OrphanInv, Excused
<1> QED
  BY <1>1, <1>2, <1>3, <1>4, OrphanQuiet

\* A new record is of a codespace there never was.
LEMMA OrphanStored ==
    ASSUME TypeInv, OrphanInv, NEW c \in Call, StoreRecord(c)
    PROVE  OrphanInv'
<1> DEFINE x == call[c].on
<1>1. /\ TypeInv' /\ OthersStay(c) /\ call'[c] = Free
      /\ call[c].op = "create" /\ call[c].at = "clone"
      /\ files' = files /\ raced' = raced /\ hidden' = hidden /\ gone' = gone
      /\ StoreKeys \subseteq StoreKeys'
      /\ \/ record' = record \cup {x} /\ made' = made \cup {x}
         \/ record' = record /\ made' = made
  BY StoreRecordEffect
<1>2. /\ x \notin made
      /\ \A d \in Call : call[d].op = "create" /\ call[d].on = x => d = c
  BY <1>1 DEF OrphanInv, CallOK, CreateOK
<1>3. CallOK(c)' /\ call'[c].op = "none"
  BY <1>1, FreeIsOK
<1>4. NoneBegins /\ NoDeletionBegins
  BY <1>1, <1>3, BeginsNone, NoneBeginsEffect
<1>5. record \subseteq made /\ gone \subseteq made
  BY DEF TypeInv, RegistryTypeOK
<1>6. record \subseteq record' /\ record' \cap made \subseteq record /\ Excused' = Excused
  BY <1>1, <1>2 DEF Excused
<1>7. ASSUME NEW d \in Call, d # c PROVE CallOK(d)'
  <2>1. call'[d] = call[d] /\ CallOK(d)
    BY <1>1, <1>7 DEF OthersStay, OrphanInv
  <2>2. call'[d].op = "create" => call[d].on \notin made'
    BY <1>1, <1>2, <1>7, <2>1 DEF CallOK, CreateOK
  <2>3. CreateOK(d)'
    BY <1>4, <2>1, <2>2, NoneBeginsEffect DEF CallOK
  <2>4. /\ \A f \in files' \ Excused' : f \in files \/ ~BeingDeleted(f[1])
        /\ Excused \subseteq Excused'
    BY <1>1, <1>6
  <2> QED
    BY <1>1, <1>4, <1>6, <2>1, <2>3, <2>4, StaysOK
<1>8. Deserted'
  BY <1>1, <1>2, <1>5, <1>6 DEF OrphanInv, Deserted
<1>9. gone' \cap record' = {}
  BY <1>1, <1>2, <1>5 DEF OrphanInv
<1> QED
  BY <1>3, <1>7, <1>8, <1>9 DEF OrphanInv

\* A file that is stored is about a codespace that has its record, or the put
\* has been marked.
LEMMA OrphanFile ==
    ASSUME TypeInv, OrphanInv, NEW c \in Call, StoreFile(c)
    PROVE  OrphanInv'
<1> DEFINE f == call[c].on
<1>1. /\ TypeInv' /\ OthersStay(c) /\ call'[c] = Free
      /\ call[c].op = "put" /\ call[c].at = "store"
      /\ files' = files \cup {f}
      /\ raced' = IF call[c].got.clash THEN raced \cup {f} ELSE raced
      /\ record' = record /\ made' = made /\ gone' = gone
      /\ hidden' = hidden /\ StoreKeys \subseteq StoreKeys'
  BY StoreFileEffect
<1>2. CallOK(c)' /\ call'[c].op = "none"
  BY <1>1, FreeIsOK
<1>3. NoneBegins /\ NoDeletionBegins
  BY <1>1, <1>2, BeginsNone, NoneBeginsEffect
<1>4. Excused \subseteq Excused'
  BY <1>1 DEF Excused
<1>5. f \in Excused' \/ (f[1] \in record /\ ~BeingDeleted(f[1]))
  BY <1>1 DEF OrphanInv, CallOK, PutOK, Excused
<1>6. \A e \in files' \ Excused' : e \in files \/ ~BeingDeleted(e[1])
  BY <1>1, <1>5
<1>7. ASSUME NEW d \in Call, d # c PROVE CallOK(d)'
  <2>1. call'[d] = call[d] /\ CallOK(d)
    BY <1>1, <1>7 DEF OthersStay, OrphanInv
  <2>2. CreateOK(d)'
    BY <1>1, <1>3, <2>1, NoneBeginsEffect DEF CallOK, CreateOK
  <2>3. record \subseteq record' /\ record' \cap made \subseteq record
    BY <1>1
  <2> QED
    BY <1>1, <1>3, <1>4, <1>6, <2>1, <2>2, <2>3, StaysOK
<1>8. Deserted'
  BY <1>1, <1>4, <1>5 DEF OrphanInv, Deserted
<1>9. gone' \cap record' = {}
  BY <1>1 DEF OrphanInv
<1> QED
  BY <1>2, <1>7, <1>8, <1>9 DEF OrphanInv
\* A put that begins knows of every deletion under way.
LEMMA OrphanPut ==
    ASSUME TypeInv, OrphanInv, NEW c \in Call, NEW f \in FileName, BeginPut(c, f)
    PROVE  OrphanInv'
<1>1. /\ TypeInv' /\ OthersStay(c) /\ SameStore
      /\ call'[c].op = "put" /\ call'[c].on = f
      /\ call'[c].got = NewListing(BeingDeleted(f[1]))
      /\ f[1] \in record
  BY BeginPutEffect
<1>2. /\ record' = record /\ made' = made /\ files' = files /\ gone' = gone
      /\ Excused' = Excused /\ StoreKeys' = StoreKeys
  BY <1>1 DEF SameStore, StoreKeys, Excused
<1>3. NoneBegins /\ NoDeletionBegins
  BY <1>1, BeginsNone, NoneBeginsEffect
<1>4. call'[c].got.clash = BeingDeleted(f[1])
  BY <1>1 DEF NewListing
<1>5. PutOK(c)'
  BY <1>1, <1>2, <1>3, <1>4 DEF PutOK, NoDeletionBegins
<1>6. CallOK(c)'
  BY <1>1, <1>5 DEF CallOK, DeleteOK, CreateOK
<1>7. Excused \subseteq Excused' /\ gone' \cap record = {} /\ StoreKeys \subseteq StoreKeys'
  BY <1>2 DEF OrphanInv
<1> QED
  BY <1>1, <1>2, <1>3, <1>6, <1>7, OrphanQuiet

LEMMA OrphanBind ==
    ASSUME TypeInv, OrphanInv, NEW c \in Call, NEW ch \in Channel,
           NEW x \in Codespace, BeginBind(c, ch, x)
    PROVE  OrphanInv'
<1>1. /\ TypeInv' /\ OthersStay(c) /\ SameStore /\ call'[c].op = "bind"
  BY BeginBindEffect
<1>2. /\ record' = record /\ made' = made /\ files' = files /\ gone' = gone
      /\ Excused' = Excused /\ StoreKeys' = StoreKeys
  BY <1>1 DEF SameStore, StoreKeys, Excused
<1>3. NoneBegins
  BY <1>1, BeginsNone
<1>4. CallOK(c)'
  BY <1>1 DEF CallOK, PutOK, DeleteOK, CreateOK
<1>5. Excused \subseteq Excused' /\ gone' \cap record = {} /\ StoreKeys \subseteq StoreKeys'
  BY <1>2 DEF OrphanInv
<1> QED
  BY <1>1, <1>2, <1>3, <1>4, <1>5, OrphanQuiet

\* A creation is of a name that nothing else is about to create.
LEMMA OrphanCreate ==
    ASSUME TypeInv, OrphanInv, NEW c \in Call, NEW x \in Codespace, BeginCreate(c, x)
    PROVE  OrphanInv'
<1>1. /\ TypeInv' /\ OthersStay(c) /\ SameStore
      /\ call'[c].op = "create" /\ call'[c].on = x
      /\ x \notin made
      /\ \A d \in Call : call[d].op = "create" => call[d].on # x
  BY BeginCreateEffect
<1>2. /\ record' = record /\ made' = made /\ files' = files /\ gone' = gone
      /\ Excused' = Excused /\ StoreKeys' = StoreKeys
  BY <1>1 DEF SameStore, StoreKeys, Excused
<1>3. NoDeletionBegins
  BY <1>1 DEF NoDeletionBegins, BeingDeleted, OthersStay
<1>4. CallOK(c)'
  BY <1>1, <1>2 DEF CallOK, PutOK, DeleteOK, CreateOK, OthersStay
<1>5. ASSUME NEW d \in Call, d # c PROVE CallOK(d)'
  <2>1. call'[d] = call[d] /\ CallOK(d)
    BY <1>1, <1>5 DEF OthersStay, OrphanInv
  <2>2. CreateOK(d)'
    BY <1>1, <1>2, <1>5, <2>1 DEF CallOK, CreateOK, OthersStay
  <2>3. /\ record \subseteq record' /\ record' \cap made \subseteq record
        /\ StoreKeys \subseteq StoreKeys' /\ Excused \subseteq Excused'
        /\ \A f \in files' \ Excused' : f \in files \/ ~BeingDeleted(f[1])
    BY <1>2
  <2> QED
    BY <1>1, <1>3, <2>1, <2>2, <2>3, StaysOK
<1>6. Deserted' /\ gone' \cap record' = {}
  BY <1>2 DEF OrphanInv, Deserted
<1> QED
  BY <1>4, <1>5, <1>6 DEF OrphanInv

\* A deletion that begins has every file ahead, and marks the puts it meets.
LEMMA OrphanDelete ==
    ASSUME TypeInv, OrphanInv, NEW c \in Call, NEW x \in Codespace, BeginDelete(c, x)
    PROVE  OrphanInv'
<1>1. /\ TypeInv' /\ SameStore
      /\ call'[c].op = "delete" /\ call'[c].at = "list" /\ call'[c].on = x
      /\ call'[c].got = NewListing(FALSE)
      /\ \A d \in Call \ {c} : call'[d] = Clashing(call[d], x)
  BY BeginDeleteEffect
<1>2. /\ record' = record /\ made' = made /\ files' = files /\ gone' = gone
      /\ Excused' = Excused /\ StoreKeys' = StoreKeys
  BY <1>1 DEF SameStore, StoreKeys, Excused
<1>3. CallOK(c)'
  <2>1. ASSUME NEW f \in files PROVE FileInHand(c, f)'
    <3>1. StoreKeys \in SUBSET Nat /\ FileKey[f] \in Nat
      BY StoreKeysType, RegistryOK DEF TypeInv, RegistryTypeOK
    <3>2. Place(FileKey[f], StoreKeys) \in Nat
      BY <3>1, PlaceType
    <3>3. Place(FileKey[f], StoreKeys) >= 0 * PageSize
      BY <3>2, PageSizeOK
    <3>4. call'[c].got.page = 0
      BY <1>1 DEF NewListing
    <3> QED
      BY <1>2, <3>3, <3>4 DEF FileInHand
  <2> QED
    BY <1>1, <1>2, <2>1 DEF CallOK, PutOK, DeleteOK, CreateOK
<1>4. ASSUME NEW d \in Call, d # c
      PROVE  /\ call'[d] = Clashing(call[d], x)
             /\ call'[d].op = call[d].op /\ call'[d].on = call[d].on
             /\ call[d].op # "put" => call'[d] = call[d]
             /\ call[d].op = "put" /\ call[d].got.clash => call'[d].got.clash
             /\ call[d].op = "put" /\ call[d].on[1] = x => call'[d].got.clash
  <2>1. IsRequest(call[d]) /\ (call[d].at # "free" => call[d].got \in KeyScan)
    BY TypeParts DEF TypeInv, CallsShape, ValidCall
  <2>2. call[d].op = "put" => call[d].at # "free"
    BY OnlyFreeIdles
  <2> QED
    BY <1>1, <1>4, <2>1, <2>2, ClashingEffect
<1>5. ASSUME NEW d \in Call, d # c PROVE CallOK(d)'
  <2>1. CallOK(d)
    BY DEF OrphanInv
  <2>2. PutOK(d)'
    <3> SUFFICES ASSUME call'[d].op = "put", ~call'[d].got.clash
                 PROVE  (call[d].on[1] \in record)' /\ ~BeingDeleted(call[d].on[1])'
      BY DEF PutOK
    <3>1. call[d].op = "put" /\ ~call[d].got.clash /\ call[d].on[1] # x
      BY <1>4, <1>5
    <3>2. call[d].on[1] \in record /\ ~BeingDeleted(call[d].on[1])
      BY <2>1, <3>1 DEF CallOK, PutOK
    <3>3. ASSUME NEW e \in Call, call'[e].op = "delete", call'[e].on = call[d].on[1]
          PROVE  FALSE
      <4>1. e # c
        BY <1>1, <3>1, <3>3
      <4>2. call[e].op = "delete" /\ call[e].on = call[d].on[1]
        BY <1>4, <3>3, <4>1
      <4> QED
        BY <3>2, <4>2 DEF BeingDeleted
    <3>4. call'[d].on = call[d].on
      BY <1>4, <1>5
    <3> QED
      BY <1>2, <3>2, <3>3, <3>4 DEF BeingDeleted
  <2>3. CreateOK(d)'
    <3>1. \A e \in Call : call'[e].op = "create" =>
             e # c /\ call[e].op = "create" /\ call'[e].on = call[e].on
      BY <1>1, <1>4
    <3> QED
      BY <1>2, <1>5, <2>1, <3>1 DEF CallOK, CreateOK
  <2>4. DeleteOK(d)'
    <3> SUFFICES ASSUME call'[d].op = "delete" PROVE DeleteOK(d)'
      BY DEF DeleteOK
    <3>1. call'[d] = call[d]
      BY <1>4, <1>5
    <3> QED
      BY <1>2, <2>1, <3>1 DEF CallOK, DeleteOK, FileInHand
  <2> QED
    BY <2>2, <2>3, <2>4 DEF CallOK
<1>6. Deserted' /\ gone' \cap record' = {}
  BY <1>2 DEF OrphanInv, Deserted
<1> QED
  BY <1>3, <1>5, <1>6 DEF OrphanInv

\* A complete listing has every file in hand; a torn one hides what it has not.
LEMMA OrphanListed ==
    ASSUME TypeInv, OrphanInv, NEW c \in Call, FilesListed(c)
    PROVE  OrphanInv'
<1>1. /\ TypeInv' /\ OthersStay(c)
      /\ call[c].op = "delete" /\ call[c].at = "list" /\ Complete(c)
      /\ call'[c].op = "delete" /\ call'[c].at = "files"
      /\ call'[c].on = call[c].on /\ call'[c].got = call[c].got
      /\ record' = record /\ files' = files /\ made' = made /\ gone' = gone
      /\ raced' = raced /\ StoreKeys' = StoreKeys
      /\ hidden \subseteq hidden'
      /\ call[c].got.torn =>
           \A f \in files : f[1] = call[c].on =>
               f \in hidden' \/ FileKey[f] \in call[c].got.keys
  BY FilesListedEffect
<1>2. NoneBegins
  BY <1>1, BeginsNone
<1>3. Excused \subseteq Excused' /\ gone' \cap record = {} /\ StoreKeys \subseteq StoreKeys'
  BY <1>1 DEF OrphanInv, Excused
<1>4. ASSUME NEW f \in files \ Excused', f[1] = call[c].on
      PROVE  FileKey[f] \in call[c].got.keys
  <2>1. CASE call[c].got.torn
    BY <1>1, <1>4, <2>1 DEF Excused
  <2>2. CASE ~call[c].got.torn
    <3> DEFINE n == call[c].got.page
               k == FileKey[f]
               q == Place(k, StoreKeys)
    <3>1. FileInHand(c, f)
      BY <1>1, <1>3, <1>4, <2>2 DEF OrphanInv, CallOK, DeleteOK
    <3>2. n \in Nat /\ StoreKeys \in SUBSET Nat /\ k \in StoreKeys /\ k \in Nat
      <4>1. n \in Nat
        BY <1>1, TypeFacts
      <4>2. k \in StoreKeys /\ StoreKeys \in SUBSET Nat
        BY <1>4, StoreKeysType DEF StoreKeys, TypeInv
      <4> QED
        BY <4>1, <4>2
    <3>3. Page(n, StoreKeys) = {}
      BY <1>1 DEF Complete
    <3>4. q \in Nat /\ n * PageSize \in Nat /\ q < n * PageSize
      <4>1. q \in Nat
        BY <3>2, PlaceType
      <4>2. n * PageSize \in Nat
        BY <3>2, PageSizeOK
      <4>3. q < n * PageSize
        <5> HIDE DEF n, k
        <5> QED
          BY <3>2, <3>3, EmptyPageIsLast
      <4> QED
        BY <4>1, <4>2, <4>3
    <3>5. ~(q >= n * PageSize)
      <4> DEFINE e == n * PageSize
      <4>1. q \in Nat /\ e \in Nat /\ q < e
        BY <3>4
      <4> HIDE DEF e, q
      <4> QED
        BY <4>1 DEF e
    <3> QED
      BY <3>1, <3>5 DEF FileInHand
  <2> QED
    BY <2>1, <2>2
<1>5. CallOK(c)'
  BY <1>1, <1>4 DEF CallOK, PutOK, DeleteOK, CreateOK
<1> QED
  BY <1>1, <1>2, <1>3, <1>5, OrphanQuiet
\* A listed file is deleted.
LEMMA OrphanFileDeleted ==
    ASSUME TypeInv, OrphanInv, NEW c \in Call, DeleteListed(c)
    PROVE  OrphanInv'
<1>1. /\ TypeInv' /\ OthersTorn(c)
      /\ call[c].op = "delete" /\ call[c].at = "files"
      /\ call'[c].op = "delete" /\ call'[c].at = "files"
      /\ call'[c].on = call[c].on
      /\ record' = record /\ made' = made /\ gone' = gone
      /\ raced' = raced /\ hidden' = hidden
  BY DeleteListedEffect
<1>2. PICK f \in FileName :
        files' = files \ {f} /\ call'[c].got.keys = call[c].got.keys \ {FileKey[f]}
  BY DeleteListedEffect
<1>3. NoneBegins
  BY <1>1, BeginsNone
<1>4. Excused' = Excused
  BY <1>1 DEF Excused
<1>5. Deserted'
  BY <1>1, <1>2, <1>4 DEF OrphanInv, Deserted
<1>6. ASSUME NEW e \in files' \ Excused', e[1] = call[c].on
      PROVE  FileKey[e] \in call'[c].got.keys
  <2>1. e \in files \ Excused /\ e # f /\ e \in FileName
    BY <1>2, <1>4, <1>6 DEF TypeInv, RegistryTypeOK
  <2>2. FileKey[e] # FileKey[f]
    BY <2>1, RegistryOK
  <2>3. FileKey[e] \in call[c].got.keys
    BY <1>1, <1>6, <2>1 DEF OrphanInv, CallOK, DeleteOK
  <2> QED
    BY <1>2, <2>2, <2>3
<1>7. CallOK(c)'
  BY <1>1, <1>6 DEF CallOK, PutOK, DeleteOK, CreateOK
<1>8. record' \subseteq record /\ files' \subseteq files
      /\ \A x \in record \ record' : BeingDeleted(x)
  BY <1>1, <1>2
<1> QED
  BY <1>1, <1>3, <1>4, <1>5, <1>7, <1>8, OrphanTorn

\* When the record is deleted, no file is left but those excused.
LEMMA OrphanRecordDeleted ==
    ASSUME TypeInv, OrphanInv, NEW c \in Call, DeleteRecord(c)
    PROVE  OrphanInv'
<1> DEFINE x == call[c].on
<1>1. /\ TypeInv' /\ OthersTorn(c)
      /\ call[c].op = "delete" /\ call[c].at = "files"
      /\ call'[c].op = "delete" /\ call'[c].at = "walk"
      /\ call'[c].on = x
      /\ FilesOf(x, call[c].got.keys) = {}
      /\ record' = record \ {x}
      /\ files' = files /\ made' = made /\ gone' = gone
      /\ raced' = raced /\ hidden' = hidden
  BY DeleteRecordEffect
<1>2. NoneBegins
  BY <1>1, BeginsNone
<1>3. Excused' = Excused
  BY <1>1 DEF Excused
<1>4. \A f \in files \ Excused : f[1] # x
  <2> SUFFICES ASSUME NEW f \in files \ Excused, f[1] = x PROVE FALSE
    OBVIOUS
  <2>1. FileKey[f] \in call[c].got.keys
    BY <1>1 DEF OrphanInv, CallOK, DeleteOK
  <2>2. f \in FileName
    BY DEF TypeInv, RegistryTypeOK
  <2> QED
    BY <1>1, <2>1, <2>2 DEF FilesOf
<1>5. Deserted'
  BY <1>1, <1>3, <1>4 DEF OrphanInv, Deserted
<1>6. CallOK(c)'
  BY <1>1 DEF CallOK, PutOK, DeleteOK, CreateOK
<1>7. /\ record' \subseteq record /\ files' \subseteq files
      /\ \A y \in record \ record' : BeingDeleted(y)
  BY <1>1 DEF BeingDeleted
<1> QED
  BY <1>1, <1>2, <1>3, <1>5, <1>6, <1>7, OrphanTorn

\* The walk goes on, or ends: the record has been deleted before.
LEMMA OrphanWalk ==
    ASSUME TypeInv, OrphanInv, NEW c \in Call, WalkPage(c) \/ WalkFails(c)
    PROVE  OrphanInv'
<1>1. /\ TypeInv' /\ OthersStay(c)
      /\ call[c].op = "delete" /\ call[c].at = "walk"
      /\ record' = record /\ files' = files /\ made' = made
      /\ raced' = raced /\ hidden' = hidden /\ StoreKeys' = StoreKeys
      /\ \/ /\ call'[c].op = "delete" /\ call'[c].at = "walk"
            /\ call'[c].on = call[c].on /\ gone' = gone
         \/ call'[c] = Free /\ gone' = gone \cup {call[c].on}
  BY WalkPageEffect
<1>2. call[c].on \notin record
  BY <1>1 DEF OrphanInv, CallOK, DeleteOK
<1>3. NoneBegins
  BY <1>1, FreeIsOK, BeginsNone
<1>4. CallOK(c)'
  <2>1. CASE call'[c] = Free
    BY <2>1, FreeIsOK
  <2>2. CASE /\ call'[c].op = "delete" /\ call'[c].at = "walk"
             /\ call'[c].on = call[c].on
    BY <1>1, <1>2, <2>2 DEF CallOK, PutOK, DeleteOK, CreateOK
  <2> QED
    BY <1>1, <2>1, <2>2
<1>5. /\ Excused \subseteq Excused' /\ gone' \cap record = {}
      /\ StoreKeys \subseteq StoreKeys'
  BY <1>1, <1>2 DEF OrphanInv, Excused
<1> QED
  BY <1>1, <1>3, <1>4, <1>5, OrphanQuiet

LEMMA OrphanWalkKey ==
    ASSUME TypeInv, OrphanInv, NEW c \in Call, WalkKey(c)
    PROVE  OrphanInv'
<1>1. /\ TypeInv'
      /\ call[c].op = "delete" /\ call[c].at = "walk"
      /\ call'[c].op = "delete" /\ call'[c].at = "walk"
      /\ call'[c].on = call[c].on
      /\ record' = record /\ files' = files /\ made' = made /\ gone' = gone
      /\ raced' = raced /\ hidden' = hidden
      /\ OthersTorn(c) \/ (OthersStay(c) /\ StoreKeys' = StoreKeys)
  BY WalkKeyEffect
<1>2. NoneBegins
  BY <1>1, BeginsNone
<1>3. CallOK(c)'
  BY <1>1 DEF OrphanInv, CallOK, PutOK, DeleteOK, CreateOK
<1>4. Deserted' /\ Excused' = Excused /\ gone' \cap record = {}
  BY <1>1 DEF OrphanInv, Deserted, Excused
<1>5. CASE OthersTorn(c)
  <2>1. /\ record' \subseteq record /\ files' \subseteq files
        /\ \A y \in record \ record' : BeingDeleted(y)
    BY <1>1
  <2> QED
    BY <1>1, <1>2, <1>3, <1>4, <1>5, <2>1, OrphanTorn
<1>6. CASE OthersStay(c) /\ StoreKeys' = StoreKeys
  <2>1. Excused \subseteq Excused' /\ StoreKeys \subseteq StoreKeys'
    BY <1>4, <1>6
  <2> QED
    BY <1>1, <1>2, <1>3, <1>4, <1>6, <2>1, OrphanQuiet
<1> QED
  BY <1>1, <1>5, <1>6

\* A member deletes a file.
LEMMA OrphanFileGone ==
    ASSUME TypeInv, OrphanInv, NEW f \in FileName, DeleteFile(f)
    PROVE  OrphanInv'
<1>1. /\ TypeInv' /\ \A d \in Call : call'[d] = Torn(call[d])
      /\ files' = files \ {f}
      /\ record' = record /\ made' = made /\ gone' = gone
      /\ raced' = raced /\ hidden' = hidden
  BY DeleteFileEffect
<1>2. \A d \in Call : call'[d].op = call[d].op /\ call'[d].on = call[d].on
  <2> SUFFICES ASSUME NEW d \in Call
               PROVE  call'[d].op = call[d].op /\ call'[d].on = call[d].on
    OBVIOUS
  <2>1. IsRequest(call[d]) /\ (call[d].at # "free" => call[d].got \in KeyScan)
    BY TypeParts DEF TypeInv, CallsShape, ValidCall
  <2> QED
    BY <1>1, <2>1, TornEffect
<1>3. NoneBegins
  BY <1>2 DEF NoneBegins
<1>4. Excused' = Excused
  BY <1>1 DEF Excused
<1>5. ASSUME NEW d \in Call PROVE CallOK(d)'
  <2>1. call'[d] = Torn(call[d]) /\ CallOK(d)
    BY <1>1 DEF OrphanInv
  <2>2. call'[d].op = "create" => call[d].on \notin made'
    BY <1>1, <1>2, <2>1 DEF CallOK, CreateOK
  <2>3. NoDeletionBegins /\ CreateOK(d)'
    BY <1>3, <2>1, <2>2, NoneBeginsEffect DEF CallOK
  <2>4. /\ record' \subseteq record /\ files' \subseteq files
        /\ \A x \in record \ record' : BeingDeleted(x)
    BY <1>1
  <2> QED
    BY <1>4, <2>1, <2>3, <2>4, TornOK
<1>6. Deserted' /\ gone' \cap record' = {}
  BY <1>1, <1>4 DEF OrphanInv, Deserted
<1> QED
  BY <1>5, <1>6 DEF OrphanInv

LEMMA OrphanStep ==
    TypeInv /\ OrphanInv /\ [RegistryNext]_<<callVars, registryVars>> => OrphanInv'
<1> SUFFICES ASSUME TypeInv, OrphanInv, [RegistryNext]_<<callVars, registryVars>>
             PROVE  OrphanInv'
  OBVIOUS
<1>1. ASSUME NEW c \in Call, ListKeys(c) \/ SkipKey(c) PROVE OrphanInv'
  BY <1>1, OrphanScan
<1>2. ASSUME NEW c \in Call, Counted(c) \/ PutCounted(c) PROVE OrphanInv'
  BY <1>2, OrphanCounted
<1>3. ASSUME NEW c \in Call, Fruitless(c) \/ StoreBinding(c) PROVE OrphanInv'
  BY <1>3, OrphanEnds
<1>4. ASSUME NEW c \in Call, StoreRecord(c) PROVE OrphanInv'
  BY <1>4, OrphanStored
<1>5. ASSUME NEW c \in Call, FilesListed(c) PROVE OrphanInv'
  BY <1>5, OrphanListed
<1>6. ASSUME NEW c \in Call, DeleteListed(c) PROVE OrphanInv'
  BY <1>6, OrphanFileDeleted
<1>7. ASSUME NEW c \in Call, DeleteRecord(c) PROVE OrphanInv'
  BY <1>7, OrphanRecordDeleted
<1>8. ASSUME NEW c \in Call, WalkPage(c) \/ WalkFails(c) PROVE OrphanInv'
  BY <1>8, OrphanWalk
<1>9. ASSUME NEW c \in Call, WalkKey(c) PROVE OrphanInv'
  BY <1>9, OrphanWalkKey
<1>10. ASSUME NEW c \in Call, StoreFile(c) PROVE OrphanInv'
  BY <1>10, OrphanFile
<1>11. ASSUME NEW c \in Call, NEW x \in Codespace, BeginCreate(c, x) PROVE OrphanInv'
  BY <1>11, OrphanCreate
<1>12. ASSUME NEW c \in Call, NEW x \in Codespace, BeginDelete(c, x) PROVE OrphanInv'
  BY <1>12, OrphanDelete
<1>13. ASSUME NEW c \in Call, NEW x \in Codespace, NEW ch \in Channel,
              BeginBind(c, ch, x)
       PROVE  OrphanInv'
  BY <1>13, OrphanBind
<1>14. ASSUME NEW c \in Call, NEW f \in FileName, BeginPut(c, f) PROVE OrphanInv'
  BY <1>14, OrphanPut
<1>15. ASSUME NEW f \in FileName, DeleteFile(f) PROVE OrphanInv'
  BY <1>15, OrphanFileGone
<1>16. CASE RegistryRestart
  <2>1. SameStore /\ \A d \in Call : call'[d] = Free
    BY <1>16, RestartEffect
  <2>2. \A d \in Call : CallOK(d)'
    BY <2>1, FreeIsOK
  <2>3. Deserted' /\ gone' \cap record' = {}
    BY <2>1 DEF OrphanInv, Deserted, Excused, SameStore
  <2> QED
    BY <2>2, <2>3 DEF OrphanInv
<1>17. CASE UNCHANGED <<callVars, registryVars>>
  <2>1. SameStore /\ call' = call /\ StoreKeys' = StoreKeys
    BY <1>17, StutterEffect
  <2>2. \A d \in Call : CallOK(d)'
    BY <2>1 DEF OrphanInv, CallOK, PutOK, DeleteOK, CreateOK, BeingDeleted,
                FileInHand, Excused, SameStore
  <2>3. Deserted' /\ gone' \cap record' = {}
    BY <2>1 DEF OrphanInv, Deserted, Excused, SameStore
  <2> QED
    BY <2>2, <2>3 DEF OrphanInv
<1> QED
  BY <1>1, <1>2, <1>3, <1>4, <1>5, <1>6, <1>7, <1>8, <1>9, <1>10, <1>11, <1>12,
     <1>13, <1>14, <1>15, <1>16, <1>17 DEF RegistryNext, Fruitless

\* Every file left of a codespace that was deleted was put by a request that
\* overlapped a deletion, or was hidden from its listing.
THEOREM OrphansAreExplained == RegistrySpec => []OrphansAreRaced
<1>1. RegistryInit => OrphanInv
  <2> SUFFICES ASSUME RegistryInit PROVE OrphanInv
    OBVIOUS
  <2>1. /\ record = {} /\ gone = {} /\ files = {}
        /\ \A c \in Call : call[c].op = "none"
    BY DEF RegistryInit, CallsInit, Free
  <2> QED
    BY <2>1 DEF OrphanInv, CallOK, PutOK, DeleteOK, CreateOK, Deserted
<1>2. TypeInv /\ OrphanInv => OrphansAreRaced
  <2> SUFFICES ASSUME TypeInv, OrphanInv, NEW f \in files, f[1] \in gone,
                      f \notin raced \cup hidden
               PROVE  FALSE
    BY DEF OrphansAreRaced
  <2>1. f[1] \in made \ record
    BY DEF OrphanInv, TypeInv, RegistryTypeOK
  <2> QED
    BY <2>1 DEF OrphanInv, Deserted, Excused
<1> QED
  BY <1>1, <1>2, OrphanStep, TypesHold, PTL DEF RegistrySpec
-----------------------------------------------------------------------------
(***************************************************************************)
(* The globs of the rules.  The table that matchSeg computes is fixed by   *)
(* its equation, because a row of it depends on the next one only; and the *)
(* table of the places from which there is a cut satisfies that equation.  *)
(***************************************************************************)
MatchRow(pat, name, i, next) ==
    IF i > Len(pat) THEN {Len(name) + 1}
    ELSE IF pat[i] = "**"
         THEN {j \in 1..(Len(name) + 1) : \E k \in next : j <= k}
         ELSE {j \in 1..Len(name) :
                  SegmentMatches(pat[i], name[j]) /\ j + 1 \in next}

MatchStep(pat, name, from) ==
    [i \in 1..(Len(pat) + 1) |-> MatchRow(pat, name, i, from[i + 1])]

\* The cut b gives the segment q of the glob the piece that it may have.
Fits(pat, name, b, q) ==
    IF pat[q] = "**" THEN b[q - 1] <= b[q]
    ELSE b[q] = b[q - 1] + 1 /\ SegmentMatches(pat[q], name[b[q]])

\* b cuts the path from j on into pieces for the segments from i on.
CutFrom(pat, name, b, i, j) ==
    /\ b \in [0..Len(pat) -> 0..Len(name)]
    /\ b[i - 1] = j - 1 /\ b[Len(pat)] = Len(name)
    /\ \A q \in i..Len(pat) : Fits(pat, name, b, q)

CutTable(pat, name) ==
    [i \in 1..(Len(pat) + 1) |->
        {j \in 1..(Len(name) + 1) : \E b : CutFrom(pat, name, b, i, j)}]

\* After the last segment only the end of the path can be cut.
LEMMA CutsAtTheEnd ==
    ASSUME NEW pat, NEW name, Len(pat) \in Nat, Len(name) \in Nat
    PROVE  CutTable(pat, name)[Len(pat) + 1] = {Len(name) + 1}
<1> DEFINE P == Len(pat)
           N == Len(name)
<1> P \in Nat /\ N \in Nat
  OBVIOUS
<1>1. CutTable(pat, name)[P + 1]
        = {j \in 1..(N + 1) : \E b : CutFrom(pat, name, b, P + 1, j)}
  BY DEF CutTable
<1>2. ASSUME NEW j \in 1..(N + 1), NEW b, CutFrom(pat, name, b, P + 1, j)
      PROVE  j = N + 1
  BY <1>2 DEF CutFrom
<1>3. CutFrom(pat, name, [q \in 0..P |-> N], P + 1, N + 1)
  BY DEF CutFrom
<1>4. N + 1 \in 1..(N + 1)
  OBVIOUS
<1> HIDE DEF P, N
<1>5. CutTable(pat, name)[P + 1] = {N + 1}
  BY <1>1, <1>2, <1>3, <1>4
<1> QED
  BY <1>5 DEF P, N

\* A ** takes up any number of segments.
LEMMA CutsAtAnyLength ==
    ASSUME NEW pat, NEW name, Len(pat) \in Nat, Len(name) \in Nat,
           NEW i \in 1..Len(pat), pat[i] = "**"
    PROVE  CutTable(pat, name)[i]
             = {j \in 1..(Len(name) + 1) :
                    \E k \in CutTable(pat, name)[i + 1] : j <= k}
<1> DEFINE P == Len(pat)
           N == Len(name)
           C == CutTable(pat, name)
<1> P \in Nat /\ N \in Nat /\ i \in 1..P /\ i + 1 \in 1..(P + 1)
  OBVIOUS
<1>1. /\ C[i] = {j \in 1..(N + 1) : \E b : CutFrom(pat, name, b, i, j)}
      /\ C[i + 1] = {j \in 1..(N + 1) : \E b : CutFrom(pat, name, b, i + 1, j)}
  BY DEF CutTable
<1>2. ASSUME NEW j \in 1..(N + 1), NEW b, CutFrom(pat, name, b, i, j)
      PROVE  \E k \in C[i + 1] : j <= k
  <2>1. /\ b \in [0..P -> 0..N] /\ b[i - 1] = j - 1 /\ b[P] = N
        /\ \A q \in i..P : Fits(pat, name, b, q)
    BY <1>2 DEF CutFrom
  <2>2. b[i] \in 0..N /\ b[i - 1] <= b[i]
    BY <2>1 DEF Fits
  <2>3. b[i] + 1 \in 1..(N + 1) /\ (b[i] + 1) - 1 = b[i] /\ (i + 1) - 1 = i
    BY <2>2
  <2>4. \A q \in (i + 1)..P : q \in i..P
    OBVIOUS
  <2>5. CutFrom(pat, name, b, i + 1, b[i] + 1)
    BY <2>1, <2>3, <2>4 DEF CutFrom
  <2>6. b[i] + 1 \in C[i + 1]
    BY <1>1, <2>3, <2>5
  <2>7. j <= b[i] + 1
    BY <2>1, <2>2
  <2> QED
    BY <2>6, <2>7
<1>3. ASSUME NEW j \in 1..(N + 1), NEW k \in C[i + 1], j <= k
      PROVE  \E b : CutFrom(pat, name, b, i, j)
  <2>1. PICK a : CutFrom(pat, name, a, i + 1, k)
    BY <1>1
  <2>2. /\ k \in 1..(N + 1) /\ a \in [0..P -> 0..N] /\ a[(i + 1) - 1] = k - 1
        /\ a[P] = N /\ \A q \in (i + 1)..P : Fits(pat, name, a, q)
    BY <1>1, <2>1 DEF CutFrom
  <2> DEFINE b == [a EXCEPT ![i - 1] = j - 1]
  <2>3. /\ b \in [0..P -> 0..N] /\ b[i - 1] = j - 1
        /\ \A q \in i..P : b[q] = a[q]
    <3>1. i - 1 \in 0..P /\ j - 1 \in 0..N
      OBVIOUS
    <3>2. \A q \in i..P : q \in 0..P /\ q # i - 1
      OBVIOUS
    <3>3. a \in [0..P -> 0..N]
      BY <2>2
    <3> QED
      BY <3>1, <3>2, <3>3
  <2>4. ASSUME NEW q \in (i + 1)..P PROVE Fits(pat, name, b, q)
    <3>1. b[q] = a[q] /\ b[q - 1] = a[q - 1] /\ Fits(pat, name, a, q)
      <4>1. q \in i..P /\ q - 1 \in i..P
        OBVIOUS
      <4> HIDE DEF b
      <4> QED
        BY <2>2, <2>3, <4>1
    <3> QED
      BY <3>1 DEF Fits
  <2>5. Fits(pat, name, b, i)
    <3>1. b[i - 1] <= b[i]
      BY <1>3, <2>2, <2>3
    <3> QED
      BY <3>1 DEF Fits
  <2>6. \A q \in i..P : Fits(pat, name, b, q)
    <3>1. \A q \in i..P : q = i \/ q \in (i + 1)..P
      OBVIOUS
    <3> HIDE DEF b
    <3> QED
      BY <2>4, <2>5, <3>1
  <2>7. b[P] = N
    BY <2>2, <2>3
  <2> HIDE DEF b
  <2> QED
    BY <2>3, <2>6, <2>7 DEF CutFrom
<1> HIDE DEF P, N, C
<1>4. C[i] = {j \in 1..(N + 1) : \E k \in C[i + 1] : j <= k}
  BY <1>1, <1>2, <1>3
<1> QED
  BY <1>4 DEF P, N, C

\* Another segment takes up one that it matches.
LEMMA CutsOneSegment ==
    ASSUME NEW pat, NEW name, Len(pat) \in Nat, Len(name) \in Nat,
           NEW i \in 1..Len(pat), pat[i] # "**"
    PROVE  CutTable(pat, name)[i]
             = {j \in 1..Len(name) : /\ SegmentMatches(pat[i], name[j])
                                     /\ j + 1 \in CutTable(pat, name)[i + 1]}
<1> DEFINE P == Len(pat)
           N == Len(name)
           C == CutTable(pat, name)
<1> P \in Nat /\ N \in Nat /\ i \in 1..P /\ i + 1 \in 1..(P + 1)
  OBVIOUS
<1>1. /\ C[i] = {j \in 1..(N + 1) : \E b : CutFrom(pat, name, b, i, j)}
      /\ C[i + 1] = {j \in 1..(N + 1) : \E b : CutFrom(pat, name, b, i + 1, j)}
  BY DEF CutTable
<1>2. ASSUME NEW j \in 1..(N + 1), NEW b, CutFrom(pat, name, b, i, j)
      PROVE  /\ j \in 1..N /\ SegmentMatches(pat[i], name[j])
             /\ j + 1 \in C[i + 1]
  <2>1. /\ b \in [0..P -> 0..N] /\ b[i - 1] = j - 1 /\ b[P] = N
        /\ \A q \in i..P : Fits(pat, name, b, q)
    BY <1>2 DEF CutFrom
  <2>2. /\ b[i] \in 0..N /\ b[i] = b[i - 1] + 1
        /\ SegmentMatches(pat[i], name[b[i]])
    BY <2>1 DEF Fits
  <2>3. b[i] = j /\ j \in 1..N /\ j + 1 \in 1..(N + 1)
        /\ (j + 1) - 1 = j /\ (i + 1) - 1 = i
    BY <2>1, <2>2
  <2>4. \A q \in (i + 1)..P : q \in i..P
    OBVIOUS
  <2>5. CutFrom(pat, name, b, i + 1, j + 1)
    BY <2>1, <2>3, <2>4 DEF CutFrom
  <2> QED
    BY <1>1, <2>2, <2>3, <2>5
<1>3. ASSUME NEW j \in 1..N, SegmentMatches(pat[i], name[j]), j + 1 \in C[i + 1]
      PROVE  j \in 1..(N + 1) /\ \E b : CutFrom(pat, name, b, i, j)
  <2>1. PICK a : CutFrom(pat, name, a, i + 1, j + 1)
    BY <1>1, <1>3
  <2>2. /\ a \in [0..P -> 0..N] /\ a[(i + 1) - 1] = (j + 1) - 1
        /\ a[P] = N /\ \A q \in (i + 1)..P : Fits(pat, name, a, q)
    BY <2>1 DEF CutFrom
  <2> DEFINE b == [a EXCEPT ![i - 1] = j - 1]
  <2>3. /\ b \in [0..P -> 0..N] /\ b[i - 1] = j - 1
        /\ \A q \in i..P : b[q] = a[q]
    <3>1. i - 1 \in 0..P /\ j - 1 \in 0..N
      OBVIOUS
    <3>2. \A q \in i..P : q \in 0..P /\ q # i - 1
      OBVIOUS
    <3>3. a \in [0..P -> 0..N]
      BY <2>2
    <3> QED
      BY <3>1, <3>2, <3>3
  <2>4. ASSUME NEW q \in (i + 1)..P PROVE Fits(pat, name, b, q)
    <3>1. b[q] = a[q] /\ b[q - 1] = a[q - 1] /\ Fits(pat, name, a, q)
      <4>1. q \in i..P /\ q - 1 \in i..P
        OBVIOUS
      <4> HIDE DEF b
      <4> QED
        BY <2>2, <2>3, <4>1
    <3> QED
      BY <3>1 DEF Fits
  <2>5. Fits(pat, name, b, i)
    <3>1. b[i] = j /\ b[i] = b[i - 1] + 1
      BY <2>2, <2>3
    <3> QED
      BY <1>3, <3>1 DEF Fits
  <2>6. \A q \in i..P : Fits(pat, name, b, q)
    <3>1. \A q \in i..P : q = i \/ q \in (i + 1)..P
      OBVIOUS
    <3> HIDE DEF b
    <3> QED
      BY <2>4, <2>5, <3>1
  <2>7. b[P] = N
    BY <2>2, <2>3
  <2> HIDE DEF b
  <2> QED
    BY <2>3, <2>6, <2>7 DEF CutFrom
<1> HIDE DEF P, N, C
<1>4. C[i] = {j \in 1..N : SegmentMatches(pat[i], name[j]) /\ j + 1 \in C[i + 1]}
  BY <1>1, <1>2, <1>3
<1> QED
  BY <1>4 DEF P, N, C

LEMMA CutTableSatisfiesIt ==
    ASSUME NEW pat, NEW name, Len(pat) \in Nat, Len(name) \in Nat
    PROVE  CutTable(pat, name) = MatchStep(pat, name, CutTable(pat, name))
<1> DEFINE P == Len(pat)
           C == CutTable(pat, name)
           M == MatchStep(pat, name, C)
<1> P \in Nat
  OBVIOUS
<1>1. C = [i \in 1..(P + 1) |-> C[i]] /\ M = [i \in 1..(P + 1) |-> M[i]]
  BY DEF CutTable, MatchStep
<1>2. ASSUME NEW i \in 1..(P + 1) PROVE C[i] = M[i]
  <2>0. M[i] = MatchRow(pat, name, i, C[i + 1])
    BY DEF MatchStep
  <2>1. CASE i > P
    <3>1. i = P + 1
      BY <2>1
    <3>2. C[P + 1] = {Len(name) + 1}
      BY CutsAtTheEnd
    <3>3. MatchRow(pat, name, i, C[i + 1]) = {Len(name) + 1}
      BY <2>1 DEF MatchRow
    <3> HIDE DEF C, M
    <3> QED
      BY <2>0, <3>1, <3>2, <3>3
  <2>2. CASE ~(i > P) /\ pat[i] = "**"
    <3>1. i \in 1..P
      BY <2>2
    <3>2. C[i] = {j \in 1..(Len(name) + 1) : \E k \in C[i + 1] : j <= k}
      BY <2>2, <3>1, CutsAtAnyLength
    <3>3. MatchRow(pat, name, i, C[i + 1])
            = {j \in 1..(Len(name) + 1) : \E k \in C[i + 1] : j <= k}
      BY <2>2 DEF MatchRow
    <3> HIDE DEF C, M
    <3> QED
      BY <2>0, <3>2, <3>3
  <2>3. CASE ~(i > P) /\ pat[i] # "**"
    <3>1. i \in 1..P
      BY <2>3
    <3>2. C[i] = {j \in 1..Len(name) :
                      SegmentMatches(pat[i], name[j]) /\ j + 1 \in C[i + 1]}
      BY <2>3, <3>1, CutsOneSegment
    <3>3. MatchRow(pat, name, i, C[i + 1])
            = {j \in 1..Len(name) :
                   SegmentMatches(pat[i], name[j]) /\ j + 1 \in C[i + 1]}
      BY <2>3 DEF MatchRow
    <3> HIDE DEF C, M
    <3> QED
      BY <2>0, <3>2, <3>3
  <2> QED
    BY <2>1, <2>2, <2>3
<1> HIDE DEF C, M
<1>3. C = M
  BY <1>1, <1>2
<1> QED
  BY <1>3 DEF C, M

\* The row i of the table depends on the row i + 1 only.
LEMMA NextRowDecides ==
    ASSUME NEW pat, NEW name, Len(pat) \in Nat, NEW F, NEW G,
           F = MatchStep(pat, name, F), G = MatchStep(pat, name, G),
           NEW i \in 1..(Len(pat) + 1), i <= Len(pat) => F[i + 1] = G[i + 1]
    PROVE  F[i] = G[i]
<1>1. /\ F[i] = MatchRow(pat, name, i, F[i + 1])
      /\ G[i] = MatchRow(pat, name, i, G[i + 1])
  BY DEF MatchStep
<1>2. CASE i > Len(pat)
  BY <1>1, <1>2 DEF MatchRow
<1>3. CASE ~(i > Len(pat))
  <2>1. F[i + 1] = G[i + 1]
    BY <1>3
  <2> QED
    BY <1>1, <2>1
<1> QED
  BY <1>2, <1>3

LEMMA OneTableOnly ==
    ASSUME NEW pat, NEW name, Len(pat) \in Nat, NEW F, NEW G,
           F = MatchStep(pat, name, F), G = MatchStep(pat, name, G)
    PROVE  F[1] = G[1]
<1> DEFINE P == Len(pat)
           D == {d \in 0..P : F[P + 1 - d] # G[P + 1 - d]}
<1> P \in Nat
  OBVIOUS
<1>1. SUFFICES ASSUME D # {} PROVE FALSE
  <2>1. P \in 0..P /\ P + 1 - P = 1
    OBVIOUS
  <2> QED
    BY <1>1, <2>1
<1>2. PICK d \in D : \A e \in D : d <= e
  <2>1. D \in SUBSET Nat
    OBVIOUS
  <2> HIDE DEF D
  <2> QED
    BY <1>1, <2>1, LeastMember
<1> DEFINE i == P + 1 - d
<1>3. d \in 0..P /\ i \in 1..(P + 1) /\ F[i] # G[i]
  BY <1>2
<1>4. ASSUME i <= P PROVE F[i + 1] = G[i + 1]
  <2>1. d - 1 \in 0..P /\ P + 1 - (d - 1) = i + 1 /\ ~(d <= d - 1)
    BY <1>3, <1>4
  <2>2. d - 1 \notin D
    BY <1>2, <2>1
  <2> QED
    BY <2>1, <2>2
<1> HIDE DEF i, D
<1> QED
  BY <1>3, <1>4, NextRowDecides DEF P

\* matchSeg (server/codespace_rules.go) finds a match exactly when the path can
\* be cut into one piece per segment of the glob, whatever the segments are and
\* however many ** the glob has.
THEOREM GlobsMatchByCuts ==
    ASSUME NEW Segment, NEW pat \in Seq(Segment), NEW name \in Seq(Segment)
    PROVE  GlobIsCut(pat, name)
<1> DEFINE P == Len(pat)
           N == Len(name)
           F == CHOOSE from : from = MatchStep(pat, name, from)
           C == CutTable(pat, name)
<1>1. P \in Nat /\ N \in Nat
  OBVIOUS
<1>2. C = MatchStep(pat, name, C)
  BY <1>1, CutTableSatisfiesIt
<1>3. F = MatchStep(pat, name, F)
  BY <1>2
<1>4. MatchSeg(pat, name) = (1 \in F[1])
  BY DEF MatchSeg, MatchStep, MatchRow
<1>5. F[1] = C[1]
  <2> HIDE DEF F, C
  <2> QED
    BY <1>1, <1>2, <1>3, OneTableOnly
<1>6. 1 \in C[1] <=> \E b : CutFrom(pat, name, b, 1, 1)
  <2>1. 1 \in 1..(P + 1) /\ 1 \in 1..(N + 1)
    BY <1>1
  <2> QED
    BY <2>1 DEF CutTable
<1>7. \A b : CutFrom(pat, name, b, 1, 1) <=> b \in Cuts(pat, name)
  BY <1>1 DEF CutFrom, Cuts, Fits
<1> HIDE DEF F, C
<1> QED
  BY <1>4, <1>5, <1>6, <1>7 DEF GlobIsCut

\* In the instance that TLC explores: the glob and the path are the input of the
\* whole behaviour, and each is a sequence of segments.
THEOREM GlobsAreCut == SafetySpec => []GlobMatchesCut
<1> DEFINE Segment == {"a", "b", "*", "**"}
           Input == part = "rules" => glob \in Seq(Segment) /\ path \in Seq(Segment)
<1>1. SafetyInit => Input
  <2>1. ASSUME NEW g \in Globs PROVE g \in Seq(Segment)
    <3>1. PICK n \in 1..4 : g \in [1..n -> {"a", "*", "**"}]
      BY DEF Globs
    <3> QED
      BY <3>1
  <2>2. ASSUME NEW p \in Paths PROVE p \in Seq(Segment)
    <3>1. PICK n \in 1..4 : p \in [1..n -> {"a", "b"}]
      BY DEF Paths
    <3> QED
      BY <3>1
  <2> HIDE DEF Segment
  <2> QED
    BY <2>1, <2>2 DEF SafetyInit
<1>2. Input /\ [SafetyNext]_safetyVars => Input'
  <2>1. SafetyNext => UNCHANGED <<part, glob, path>>
    BY DEF SafetyNext, VoiceStep, HubStep, GateStep, TasksStep, ClaimsStep, FactsStep,
           CoAuthorsStep, RegistryStep
  <2> QED
    BY <2>1 DEF safetyVars
<1>3. Input => GlobMatchesCut
  BY GlobsMatchByCuts DEF GlobMatchesCut
<1> QED
  BY <1>1, <1>2, <1>3, PTL DEF SafetySpec
=============================================================================
