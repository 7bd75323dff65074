------------------------------ MODULE Registry ------------------------------
(***************************************************************************)
(* The registry of codespaces (server/codespace.go): records, files and    *)
(* the bindings of channels, as keys of the plugin's store.  Creating      *)
(* counts the records, may have the host clone a repository for minutes,   *)
(* and stores one more.  Deleting removes the files that a listing found,  *)
(* then the record, then walks the pages of all keys and removes the       *)
(* bindings it meets.  A file or a binding is put by a request that has    *)
(* seen the codespace exist.  Every listing goes page by page.             *)
(***************************************************************************)
EXTENDS Requests, KeyPages

CONSTANTS
    Codespace,      \* codespaces that may be created
    Path,           \* paths of files
    Channel,        \* channels that may be bound
    RecordKey,      \* the key of each codespace's record,
    FileKey,        \* of each of its files,
    BindingKey,     \* and of each channel's binding
    MaxCodespaces,  \* maxCodespaces, 50 in the code
    MaxFiles        \* maxFilesPerCs, 500 in the code

FileName == Codespace \X Path

Unbound == "unbound"

ASSUME RegistryOK ==
    /\ MaxCodespaces \in Nat \ {0} /\ MaxFiles \in Nat \ {0}
    /\ RecordKey \in [Codespace -> Nat] /\ FileKey \in [FileName -> Nat]
    /\ BindingKey \in [Channel -> Nat]
    /\ \A f, g \in FileName : FileKey[f] = FileKey[g] => f = g
    /\ IsFiniteSet(Call) /\ IsFiniteSet(Codespace) /\ Unbound \notin Codespace

VARIABLES
    record,     \* the codespaces that have a cs_ key
    files,      \* the csfile_ keys: a codespace and a path
    bound,      \* per channel: the codespace its wschan_ key names
    made,       \* history: codespaces ever created
    gone,       \* history: codespaces whose deletion was answered with ok
    raced,      \* history: files put by a request that overlapped a deletion
    hidden,     \* history: files that a torn listing passed over
    blind       \* history: creations let pass by a failed or torn count

registryVars == <<record, files, bound, made, gone, raced, hidden, blind>>

KeyScan == [page : Nat, keys : SUBSET Nat, clash : BOOLEAN, torn : BOOLEAN]

RegistryTypeOK ==
    /\ record \subseteq made /\ made \subseteq Codespace /\ gone \subseteq made
    /\ files \subseteq FileName
    /\ bound \in [Channel -> Codespace \cup {Unbound}]
    /\ raced \subseteq FileName /\ hidden \subseteq FileName /\ blind \in Nat
    /\ \A c \in Call : call[c].at # "free" =>
         /\ call[c].op \in {"create", "delete", "put", "bind"}
         /\ call[c].at \in {"list", "clone", "files", "record", "walk", "store"}
         /\ call[c].got \in KeyScan
         /\ call[c].op = "create" => call[c].on \in Codespace
         /\ call[c].op = "delete" => call[c].on \in made
         /\ call[c].op = "put" => call[c].on \in FileName
         /\ call[c].op = "bind" => call[c].on \in Channel \X Codespace

RegistryInit ==
    /\ CallsInit
    /\ record = {} /\ files = {} /\ bound = [ch \in Channel |-> Unbound]
    /\ made = {} /\ gone = {} /\ raced = {} /\ hidden = {} /\ blind = 0

StoreKeys ==
    {RecordKey[x] : x \in record} \cup {FileKey[f] : f \in files}
        \cup {BindingKey[ch] : ch \in {b \in Channel : bound[b] # Unbound}}

NewListing(clash) == [page |-> 0, keys |-> {}, clash |-> clash, torn |-> FALSE]

\* A listing is torn by deletions under it, or by a key it could not read.
Torn(r) == IF r.at = "list" THEN [r EXCEPT !.got.torn = TRUE] ELSE r

-----------------------------------------------------------------------------
\* Listing the keys of a prefix (kvListByPrefix), for every operation.

\* The scan is one page on.
Paged(g, keys, torn) ==
    [page |-> g.page + 1, keys |-> keys, clash |-> g.clash, torn |-> torn]

ListKeys(c) ==
    /\ call[c].at = "list"
    /\ LET g == call[c].got
       IN  /\ Page(g.page, StoreKeys) # {}
           /\ Goes(c, "list",
                   Paged(g, g.keys \cup Page(g.page, StoreKeys), g.torn))
    /\ UNCHANGED <<ncalls, lapses, registryVars>>

\* A key whose value cannot be read is passed over.
SkipKey(c) ==
    /\ call[c].at = "list" /\ Lapse
    /\ LET g == call[c].got
           ks == Page(g.page, StoreKeys)
       IN  \E k \in ks : Goes(c, "list", Paged(g, g.keys \cup (ks \ {k}), TRUE))
    /\ UNCHANGED <<ncalls, registryVars>>

\* The page after the last one is empty: the listing is complete.
Complete(c) ==
    call[c].at = "list" /\ Page(call[c].got.page, StoreKeys) = {}

FilesOf(x, keys) == {f \in FileName : f[1] = x /\ FileKey[f] \in keys}

RecordsIn(keys) == {x \in Codespace : RecordKey[x] \in keys}

-----------------------------------------------------------------------------
\* handleCreateCodespace.

BeginCreate(c, x) ==
    /\ x \notin made
    /\ \A d \in Call : call[d].op = "create" => call[d].on # x
    /\ Arrive(c, "create", "list", x, "user", NewListing(FALSE))
    /\ UNCHANGED <<lapses, registryVars>>

UnderCap_OffByOne(n) == n <= MaxCodespaces   \* mutant

UnderCap(n) == n < MaxCodespaces

\* The count; a listing that fails is not held against the request.
Counted(c) ==
    /\ At(c, "create", "list")
    /\ \/ /\ Complete(c) /\ UnderCap(Cardinality(RecordsIn(call[c].got.keys)))
          /\ blind' = IF call[c].got.torn THEN blind + 1 ELSE blind
          /\ UNCHANGED lapses
       \/ Lapse /\ blind' = blind + 1
    /\ Goes(c, "clone", call[c].got)
    /\ UNCHANGED <<ncalls, record, files, bound, made, gone, raced, hidden>>

LimitReached(c) ==
    /\ At(c, "create", "list") /\ Complete(c)
    /\ ~UnderCap(Cardinality(RecordsIn(call[c].got.keys)))
    /\ Ends(c)
    /\ UNCHANGED <<ncalls, lapses, registryVars>>

\* After the clone, if one was asked for, the record is stored; or the clone
\* or the store has failed.
StoreRecord(c) ==
    /\ At(c, "create", "clone")
    /\ Ends(c)
    /\ \/ /\ record' = record \cup {call[c].on}
          /\ made' = made \cup {call[c].on}
          /\ UNCHANGED lapses
       \/ Lapse /\ UNCHANGED <<record, made>>
    /\ UNCHANGED <<ncalls, files, bound, gone, raced, hidden, blind>>

-----------------------------------------------------------------------------
\* handleDeleteCodespace.

\* A put of the same codespace and its deletion overlap from here on.
Clashing(r, x) ==
    IF r.op = "put" /\ r.at # "free" /\ r.on[1] = x
    THEN [r EXCEPT !.got.clash = TRUE] ELSE r

BeginDelete(c, x) ==
    /\ x \in made
    /\ call[c].at = "free" /\ ncalls < MaxCalls
    /\ ncalls' = ncalls + 1
    /\ call' = [d \in Call |->
                 IF d = c
                 THEN [op |-> "delete", at |-> "list", on |-> x, by |-> "user",
                       got |-> NewListing(FALSE)]
                 ELSE Clashing(call[d], x)]
    /\ UNCHANGED <<lapses, registryVars>>

\* The files listed are those that will be deleted.
FilesListed(c) ==
    /\ At(c, "delete", "list") /\ Complete(c)
    /\ LET g == call[c].got
           x == call[c].on
           missed == {f \in files : f[1] = x} \ FilesOf(x, g.keys)
       IN  /\ Goes(c, "files", g)
           /\ hidden' = IF g.torn THEN hidden \cup missed ELSE hidden
    /\ UNCHANGED <<ncalls, lapses, record, files, bound, made, gone, raced, blind>>

\* One of the files listed is deleted; it may be gone already.
DeleteListed(c) ==
    /\ At(c, "delete", "files")
    /\ \E f \in FilesOf(call[c].on, call[c].got.keys) :
         /\ files' = files \ {f}
         /\ call' = [d \in Call |->
                       IF d = c THEN [call[c] EXCEPT !.got.keys = @ \ {FileKey[f]}]
                       ELSE Torn(call[d])]
    /\ UNCHANGED <<ncalls, lapses, record, bound, made, gone, raced, hidden, blind>>

DeleteRecord(c) ==
    /\ At(c, "delete", "files")
    /\ FilesOf(call[c].on, call[c].got.keys) = {}
    /\ record' = record \ {call[c].on}
    /\ call' = [d \in Call |->
                  IF d = c
                  THEN [op |-> "delete", at |-> "walk", on |-> call[c].on,
                        by |-> call[c].by, got |-> NewListing(FALSE)]
                  ELSE Torn(call[d])]
    /\ UNCHANGED <<ncalls, lapses, files, bound, made, gone, raced, hidden, blind>>

\* A failing KV call ends the deletion half way ...
DeleteFails(c) ==
    /\ At(c, "delete", "list") \/ At(c, "delete", "files")
    /\ Lapse /\ Ends(c)
    /\ UNCHANGED <<ncalls, registryVars>>

\* The next page of the walk that clears bindings; the keys of the page are
\* looked at one by one before the next page is asked for.
WalkPage(c) ==
    /\ At(c, "delete", "walk") /\ call[c].got.keys = {}
    /\ LET g == call[c].got
           ks == Page(g.page, StoreKeys)
       IN  \/ /\ ks # {}
              /\ Goes(c, "walk", Paged(g, ks, g.torn))
              /\ UNCHANGED gone
           \/ /\ ks = {}
              /\ Ends(c)
              /\ gone' = gone \cup {call[c].on}
    /\ UNCHANGED <<ncalls, lapses, record, files, bound, made, raced, hidden, blind>>

NamedBy(k) == {ch \in Channel : BindingKey[ch] = k}

\* The binding is deleted when it names the codespace.
WalkKey(c) ==
    /\ At(c, "delete", "walk")
    /\ \E k \in call[c].got.keys :
         LET hit == {ch \in NamedBy(k) : bound[ch] = call[c].on}
         IN  /\ bound' = [ch \in Channel |->
                            IF ch \in hit THEN Unbound ELSE bound[ch]]
             /\ call' = [d \in Call |->
                           IF d = c THEN [call[c] EXCEPT !.got.keys = @ \ {k}]
                           ELSE IF hit = {} THEN call[d] ELSE Torn(call[d])]
    /\ UNCHANGED <<ncalls, lapses, record, files, made, gone, raced, hidden, blind>>

\* ... but not the walk: a page that cannot be listed ends it with success, and
\* a binding that cannot be read or deleted stays.
WalkFails(c) ==
    /\ At(c, "delete", "walk") /\ Lapse
    /\ IF call[c].got.keys = {}
       THEN Ends(c) /\ gone' = gone \cup {call[c].on}
       ELSE /\ \E k \in call[c].got.keys :
                 Goes(c, "walk", [call[c].got EXCEPT !.keys = @ \ {k}])
            /\ UNCHANGED gone
    /\ UNCHANGED <<ncalls, record, files, bound, made, raced, hidden, blind>>

-----------------------------------------------------------------------------
\* handlePutFile, handleDeleteFile, handleBindWorkspace.

BeingDeleted(x) == \E d \in Call : call[d].op = "delete" /\ call[d].on = x

BeginPut_NoCheck(c, f) ==   \* mutant: the codespace need not exist
    /\ f[1] \in made
    /\ Arrive(c, "put", "list", f, "user", NewListing(BeingDeleted(f[1])))
    /\ UNCHANGED <<lapses, registryVars>>

\* csExists holds.
BeginPut(c, f) ==
    /\ f[1] \in record
    /\ Arrive(c, "put", "list", f, "user", NewListing(BeingDeleted(f[1])))
    /\ UNCHANGED <<lapses, registryVars>>

\* The cap counts for a new path only.
FileFits(c) ==
    LET there == FilesOf(call[c].on[1], call[c].got.keys)
    IN  call[c].on \in there \/ Cardinality(there) < MaxFiles

\* A listing that fails is taken for empty.
PutCounted(c) ==
    /\ At(c, "put", "list")
    /\ \/ Complete(c) /\ FileFits(c) /\ UNCHANGED lapses
       \/ Lapse
    /\ Goes(c, "store", call[c].got)
    /\ UNCHANGED <<ncalls, registryVars>>

FileLimitReached(c) ==
    /\ At(c, "put", "list") /\ Complete(c) /\ ~FileFits(c)
    /\ Ends(c)
    /\ UNCHANGED <<ncalls, lapses, registryVars>>

StoreFile(c) ==
    /\ At(c, "put", "store")
    /\ files' = files \cup {call[c].on}
    /\ raced' = IF call[c].got.clash THEN raced \cup {call[c].on} ELSE raced
    /\ Ends(c)
    /\ UNCHANGED <<ncalls, lapses, record, bound, made, gone, hidden, blind>>

DeleteFile(f) ==
    /\ f \in files
    /\ files' = files \ {f}
    /\ call' = [d \in Call |-> Torn(call[d])]
    /\ UNCHANGED <<ncalls, lapses, record, bound, made, gone, raced, hidden, blind>>

\* getCodespace finds the record.
BeginBind(c, ch, x) ==
    /\ x \in record
    /\ Arrive(c, "bind", "store", <<ch, x>>, "user", NewListing(FALSE))
    /\ UNCHANGED <<lapses, registryVars>>

StoreBinding(c) ==
    /\ At(c, "bind", "store")
    /\ bound' = [bound EXCEPT ![call[c].on[1]] = call[c].on[2]]
    /\ Ends(c)
    /\ UNCHANGED <<ncalls, lapses, record, files, made, gone, raced, hidden, blind>>

\* The file or the binding cannot be stored.
StoreFails(c) ==
    /\ At(c, "put", "store") \/ At(c, "bind", "store")
    /\ Lapse /\ Ends(c)
    /\ UNCHANGED <<ncalls, registryVars>>

RegistryRestart == CallsCutOff /\ UNCHANGED registryVars

RegistryNext ==
    \/ \E c \in Call :
         \/ ListKeys(c) \/ SkipKey(c) \/ Counted(c) \/ LimitReached(c) \/ StoreRecord(c)
         \/ FilesListed(c) \/ DeleteListed(c) \/ DeleteRecord(c) \/ DeleteFails(c)
         \/ WalkPage(c) \/ WalkKey(c) \/ WalkFails(c)
         \/ PutCounted(c) \/ FileLimitReached(c) \/ StoreFile(c) \/ StoreBinding(c) \/ StoreFails(c)
         \/ \E x \in Codespace :
              \/ BeginCreate(c, x) \/ BeginDelete(c, x)
              \/ \E ch \in Channel : BeginBind(c, ch, x)
         \/ \E f \in FileName : BeginPut(c, f)
    \/ \E f \in FileName : DeleteFile(f)
    \/ RegistryRestart

RegistrySpec == RegistryInit /\ [][RegistryNext]_<<callVars, registryVars>>

-----------------------------------------------------------------------------
(* The cap is checked before a clone of minutes, so it can be exceeded, by *)
(* no more than the other creations under way at one time, and those that  *)
(* a failed or torn count let pass.                                        *)
CapOvershoot ==
    Cardinality(record) < MaxCodespaces + Cardinality(Call) + blind

(* A file whose codespace has been deleted was put by a request that       *)
(* overlapped a deletion, or was hidden from its listing by a key deleted  *)
(* or unreadable: no request that begins later leaves an orphan.           *)
OrphansAreRaced ==
    \A f \in files : f[1] \in gone => f \in raced \cup hidden

(* codespace.go:343 says of the walk over the keys "Clear any channel      *)
(* bindings that pointed at this codespace (no dangling workspace)".  But  *)
(* it deletes from the pages it walks, and steps over as many keys of the  *)
(* next page as it deleted from this one.                                  *)
NoDanglingWorkspace == \A ch \in Channel : bound[ch] \notin gone
=============================================================================
