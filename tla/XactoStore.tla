----------------------------- MODULE XactoStore -----------------------------
(***************************************************************************)
(* Who owns what in the store of hw5: the reference counts of data.c, and *)
(* the client service threads of server.c that create keys and values,    *)
(* hand them to store_put and store_get, and drop what they still own.    *)
(* The store and the transactions are the course's library (lib/xacto.a); *)
(* its operators below say what it does to the counts, as far as the      *)
(* threads of server.c depend on it, and are external.                    *)
(*                                                                        *)
(* A thread serves one client and owns one transaction, so both are named *)
(* by the number of the transaction.  A blob is named by the thread that  *)
(* made it and a number, which is used again once nothing points to the   *)
(* blob; a KEY structure by the blob in it.  What a blob contains is left *)
(* out, but for the key a request is about.                               *)
(***************************************************************************)
EXTENDS Integers, FiniteSets, SequencesExt

CONSTANTS
    NTrans,     \* how many clients are served
    Keys,       \* the keys, as far as key_compare tells them apart
    MaxBlobs,   \* bound: the blobs of one thread in use at a time
    MaxOps,     \* bound: PUT and GET requests of all clients together
    MaxServing  \* bound: threads in the middle of one at a time

ASSUME XactoAssumption ==
    /\ {NTrans, MaxBlobs, MaxOps, MaxServing} \subseteq Nat
    /\ IsFiniteSet(Keys)

Trans == 1 .. NTrans
Blobs == Trans \X (1 .. MaxBlobs)
NoBlob == <<>>                                    \* the NULL pointer

VARIABLES
    refcnt,     \* the references counted in each blob, 0 once it is freed
    keys,       \* the KEY structures allocated
    entries,    \* the map: the KEY and the versions of each entry
    status,     \* of each transaction
    trefs,      \* the references counted in each transaction
    depends,    \* the dependency set of each transaction
    pc,         \* where each service thread is
    ops,        \* how many requests the threads have read
    want,       \* the key the request of each thread is about
    tmp_blob,   \* its local tmp_blob, or tmp_blob2, during a request
    value,      \* its local value, or value2
    undefined   \* some thread has used memory that is freed, or NULL

transactions == <<status, trefs, depends>>
request == <<ops, want>>
locals == <<tmp_blob, value>>
vars == <<refcnt, keys, entries, transactions, pc, request, locals, undefined>>

(* A map entry before any request named its key. *)
Absent == [key |-> NoBlob, versions |-> <<>>]

(* The next name of a blob thread t makes. *)
Unused(t) == {i \in 1 .. MaxBlobs : LET b == <<t, i>> IN
    /\ refcnt[b] = 0 /\ b \notin keys
    /\ \A k \in Keys : /\ entries[k].key # b
                       /\ \A v \in ToSet(entries[k].versions) : v.blob # b}
Fresh(t) == <<t, Min(Unused(t))>>

-----------------------------------------------------------------------------
(* Counting *)

Ref(rc, b) == [rc EXCEPT ![b] = @ + 1]
Unref(rc, b) == [rc EXCEPT ![b] = @ - 1]
UnrefIfAny(rc, b) == IF b = NoBlob THEN rc ELSE Unref(rc, b)

blob_create(rc, b) == [rc EXCEPT ![b] = 1]

(* A key takes a reference of its own, although data.h says that it       *)
(* inherits the caller's.                                                 *)
key_create(rc, b) == Ref(rc, b)

(* What key_dispose does to the KEY; it also gives back its reference.    *)
key_dispose(b) == keys' = keys \ {b}

(* A version that takes over the caller's reference, as data.h says. *)
version_inherits(rc, b) == rc

(* What version_create counts for a blob: a reference of its own, though  *)
(* data.h again says that the caller's is inherited.                      *)
version_create(rc, b) == IF b = NoBlob THEN rc ELSE Ref(rc, b)

(* The counts of the blobs and of the transactions once the versions dvs  *)
(* of one list are disposed of: each gives back both its references.      *)
version_dispose(rc, dvs) ==
    [b \in Blobs |-> rc[b] - Cardinality({v \in dvs : v.blob = b})]
CreatorsDropped(tr, dvs) ==
    [t \in Trans |-> tr[t] - Cardinality({v \in dvs : v.creator = t})]

(* A transaction whose count falls to 0 is freed, and gives back its      *)
(* references to the transactions it depends on, which are older.         *)
Settled(tr) ==
    LET left[t \in Trans] ==
          tr[t] - Cardinality({u \in t + 1 .. NTrans :
                                 left[u] = 0 /\ t \in depends[u]})
    IN  left

(* Every action that counts transactions ends here. *)
CountTransactions(tr, deps) ==
    LET left == Settled(tr)
    IN  /\ trefs' = left
        /\ depends' = [t \in Trans |-> IF left[t] = 0 THEN {} ELSE deps[t]]

-----------------------------------------------------------------------------
(* The store: one operation, which holds the mutex of the map throughout. *)

StatusOf(v) == status[v.creator]
Dangling(v) ==
    trefs[v.creator] = 0 \/ (v.blob # NoBlob /\ refcnt[v.blob] = 0)

(* The garbage collection: the versions from the first aborted one on are *)
(* removed and their creators aborted, and of the committed versions only *)
(* the last is kept.                                                      *)
Standing(vs) ==
    SubSeq(vs, 1, Min({i - 1 : i \in {j \in 1 .. Len(vs) :
                            StatusOf(vs[j]) = "aborted"}} \cup {Len(vs)}))
Collected(vs) ==
    LET st == Standing(vs)
        committed == {i \in 1 .. Len(st) : StatusOf(st[i]) = "committed"}
    IN  SubSeq(st, Max({1} \cup committed), Len(st))
Cascade(vs) ==
    {v.creator : v \in ToSet(SubSeq(vs, Len(Standing(vs)) + 1, Len(vs)))}

Aborting(ts) == [t \in Trans |->
    IF t \in ts /\ status[t] = "pending" THEN "aborted" ELSE status[t]]

(* The pending creators an operation of t makes t depend on.              *)
Older(t, vs) == {v.creator : v \in {x \in ToSet(vs) :
                     StatusOf(x) = "pending" /\ x.creator < t}}

Versions(t) == entries[want[t]].versions
Kept(t) == Collected(Versions(t))

(* An operation that comes after one of a younger transaction is refused. *)
Refused(t) == Kept(t) # <<>> /\ t < Last(Kept(t)).creator

(* What find_entry does with the key it is given: the key becomes the new *)
(* entry's, or is disposed of when there is an entry for it.              *)
IsNew(t) == entries[want[t]].key = NoBlob
CountsWhenFound(t) == IF IsNew(t) THEN refcnt ELSE Unref(refcnt, tmp_blob[t])
KeysWhenFound(t) == IF IsNew(t) THEN keys ELSE keys \ {tmp_blob[t]}
EntryKey(t) == IF IsNew(t) THEN tmp_blob[t] ELSE entries[want[t]].key

(* Nothing the operation reads is freed. *)
Sound(t) ==
    /\ IsNew(t) \/ entries[want[t]].key \in keys
    /\ \A v \in ToSet(Versions(t)) : ~Dangling(v)

(* The operation makes a version of blob b, which replaces the last one   *)
(* if that is the transaction's own; rc has the counts with the new       *)
(* version's references in it.                                            *)
Grant(t, b, rc) ==
    LET kept == Kept(t)
        own == kept # <<>> /\ Last(kept).creator = t
        base == IF own THEN Front(kept) ELSE kept
        dropped == ToSet(Versions(t)) \ ToSet(base)
        older == Older(t, kept)
        new == [creator |-> t, blob |-> b]
    IN  /\ ~Refused(t)
        /\ entries' = [entries EXCEPT ![want[t]] =
                         [key |-> EntryKey(t), versions |-> Append(base, new)]]
        /\ refcnt' = version_dispose(rc, dropped)
        /\ CountTransactions(
               CreatorsDropped([u \in Trans |-> trefs[u]
                   + (IF u = t \/ u \in older THEN 1 ELSE 0)], dropped),
               [depends EXCEPT ![t] = @ \cup older])
        /\ status' = Aborting(Cascade(Versions(t)))

(* The operation is refused: the transaction is aborted, and the counts   *)
(* are rc but for the versions collected.                                 *)
Refuse(t, rc) ==
    LET kept == Kept(t)
        older == Older(t, kept)
        dropped == ToSet(Versions(t)) \ ToSet(kept)
    IN  /\ Refused(t)
        /\ entries' = [entries EXCEPT ![want[t]] =
                         [key |-> EntryKey(t), versions |-> kept]]
        /\ refcnt' = version_dispose(rc, dropped)
        /\ CountTransactions(
               CreatorsDropped([u \in Trans |-> trefs[u]
                   + (IF u \in older THEN 1 ELSE 0)], dropped),
               [depends EXCEPT ![t] = @ \cup older])
        /\ status' = Aborting(Cascade(Versions(t)) \cup {t})

-----------------------------------------------------------------------------
(* The service thread of one client: xacto_client_service *)

(* A thread at label, in a program that has not gone astray. *)
At(t, label) == ~undefined /\ pc[t] = label
Goto(t, label) == pc' = [pc EXCEPT ![t] = label]

(* Freed memory or NULL is used: the program may do anything. *)
GoAstray ==
    /\ undefined' = TRUE
    /\ UNCHANGED <<refcnt, keys, entries, transactions, pc, request, locals>>

(* The end of a request, after which its locals are not looked at. *)
Forget(t) == /\ tmp_blob' = [tmp_blob EXCEPT ![t] = NoBlob]
             /\ value' = [value EXCEPT ![t] = NoBlob]

(* The client is gone, or the server shuts its connection down, before a  *)
(* request or before the key it is about: the thread's own reference goes *)
(* with the transaction.                                                  *)
trans_abort(t) ==
    /\ status' = Aborting({t})
    /\ CountTransactions([trefs EXCEPT ![t] = @ - 1], depends)

ReceiveFails(t) ==
    /\ At(t, "receive")
    /\ trans_abort(t)
    /\ Goto(t, "done")
    /\ UNCHANGED <<refcnt, keys, entries, request, locals, undefined>>

Serving == {t \in Trans : tmp_blob[t] # NoBlob}

(* A PUT or a GET packet and the key after it: a blob, and a key of it.   *)
Receive(t, k, label) ==
    LET b == Fresh(t)
    IN  /\ At(t, "receive")
        /\ ops < MaxOps /\ Cardinality(Serving) < MaxServing /\ Unused(t) # {}
        /\ ops' = ops + 1
        /\ want' = [want EXCEPT ![t] = k]
        /\ tmp_blob' = [tmp_blob EXCEPT ![t] = b]
        /\ refcnt' = key_create(blob_create(refcnt, b), b)
        /\ keys' = keys \cup {b}
        /\ Goto(t, label)
        /\ UNCHANGED <<entries, transactions, value, undefined>>

ReceivePut(t, k) == Receive(t, k, "put_value")
ReceiveGet(t, k) == Receive(t, k, "get")

(* The value of a PUT never comes: key and blob are dropped. *)
PutValueFails(t) ==
    /\ At(t, "put_value")
    /\ key_dispose(tmp_blob[t])
    /\ refcnt' = Unref(Unref(refcnt, tmp_blob[t]), tmp_blob[t])
    /\ trans_abort(t)
    /\ Forget(t)
    /\ Goto(t, "done")
    /\ UNCHANGED <<entries, request, undefined>>

PutValue(t) ==
    /\ At(t, "put_value")
    /\ Unused(t) # {}
    /\ refcnt' = blob_create(refcnt, Fresh(t))
    /\ value' = [value EXCEPT ![t] = Fresh(t)]
    /\ Goto(t, "put")
    /\ UNCHANGED <<keys, entries, transactions, request, tmp_blob, undefined>>

StorePut(t) ==
    /\ At(t, "put")
    /\ Sound(t)
    /\ Grant(t, value[t], version_create(CountsWhenFound(t), value[t]))
    /\ keys' = KeysWhenFound(t)
    /\ Goto(t, "put_status")
    /\ UNCHANGED <<request, locals, undefined>>

(* A refused PUT drops the value, too. *)
StorePutRefused(t) ==
    /\ At(t, "put")
    /\ Sound(t)
    /\ Refuse(t, Unref(CountsWhenFound(t), value[t]))
    /\ keys' = KeysWhenFound(t)
    /\ Goto(t, "put_refused")
    /\ UNCHANGED <<request, locals, undefined>>

(* The reply to a PUT with the key_dispose that is commented out. *)
PutReplyDisposes(t) ==
    /\ At(t, "put_status")
    /\ status[t] # "aborted"
    /\ key_dispose(tmp_blob[t])
    /\ refcnt' = Unref(Unref(Unref(refcnt, value[t]), tmp_blob[t]), tmp_blob[t])
    /\ Forget(t)
    /\ Goto(t, "receive")
    /\ UNCHANGED <<entries, transactions, request, undefined>>

(* The status is read once the map is unlocked.  As long as it is         *)
(* pending, the thread replies and drops its references.                  *)
PutReply(t) ==
    /\ At(t, "put_status")
    /\ status[t] # "aborted"
    /\ refcnt' = Unref(Unref(refcnt, value[t]), tmp_blob[t])
    /\ Forget(t)
    /\ Goto(t, "receive")
    /\ UNCHANGED <<keys, entries, transactions, request, undefined>>

(* Otherwise it disposes of the key, which the store has taken over, and  *)
(* drops both blobs: harmless at once only if an entry now holds the key. *)
(* The thread leaves without giving its transaction back.                 *)
PutAborted(t) ==
    /\ At(t, "put_status") \/ At(t, "put_refused")
    /\ status[t] = "aborted"
    /\ tmp_blob[t] \in keys
    /\ key_dispose(tmp_blob[t])
    /\ refcnt' = Unref(Unref(Unref(refcnt, tmp_blob[t]), tmp_blob[t]), value[t])
    /\ Forget(t)
    /\ Goto(t, "gone")
    /\ UNCHANGED <<entries, transactions, request, undefined>>

PutDisposesTwice(t) ==
    /\ At(t, "put_status") \/ At(t, "put_refused")
    /\ status[t] = "aborted"
    /\ tmp_blob[t] \notin keys
    /\ GoAstray

(* A GET makes a version of the last value, with a reference of its own   *)
(* before version_create takes one, and one for the caller.               *)
StoreGet(t) ==
    LET b == IF Kept(t) = <<>> THEN NoBlob ELSE Last(Kept(t)).blob
        found == CountsWhenFound(t)
    IN  /\ At(t, "get")
        /\ Sound(t)
        /\ Grant(t, b, IF b = NoBlob THEN found
                       ELSE Ref(version_create(Ref(found, b), b), b))
        /\ keys' = KeysWhenFound(t)
        /\ value' = [value EXCEPT ![t] = b]
        /\ Goto(t, "get_status")
        /\ UNCHANGED <<request, tmp_blob, undefined>>

StoreGetRefused(t) ==
    /\ At(t, "get")
    /\ Sound(t)
    /\ Refuse(t, CountsWhenFound(t))
    /\ keys' = KeysWhenFound(t)
    /\ Goto(t, "get_status")
    /\ UNCHANGED <<request, locals, undefined>>

(* The reply, then one reference to the value, the value packet, and the  *)
(* other reference.                                                       *)
GetReply(t) ==
    /\ At(t, "get_status")
    /\ status[t] # "aborted"
    /\ refcnt' = UnrefIfAny(refcnt, value[t])
    /\ Goto(t, "get_value")
    /\ UNCHANGED <<keys, entries, transactions, request, locals, undefined>>

GetValue(t) ==
    /\ At(t, "get_value")
    /\ refcnt' = UnrefIfAny(Unref(refcnt, tmp_blob[t]), value[t])
    /\ Forget(t)
    /\ Goto(t, "receive")
    /\ UNCHANGED <<keys, entries, transactions, request, undefined>>

(* An aborted GET drops one of its references to the value, if there is   *)
(* one, and keeps the other for ever; without a value it uses NULL.       *)
GetAborted(t) ==
    /\ At(t, "get_status")
    /\ status[t] = "aborted"
    /\ value[t] # NoBlob
    /\ refcnt' = Unref(Unref(refcnt, tmp_blob[t]), value[t])
    /\ tmp_blob' = [tmp_blob EXCEPT ![t] = NoBlob]
    /\ Goto(t, "gone")
    /\ UNCHANGED <<keys, entries, transactions, request, value, undefined>>

GetUnrefsNull(t) ==
    /\ At(t, "get_status")
    /\ status[t] = "aborted"
    /\ value[t] = NoBlob
    /\ GoAstray

(* The store reads a key, a version's blob or its creator that is freed:  *)
(* a key of any entry of the same bucket, or the entry's own versions.    *)
StoreTouchesFreed(t) ==
    /\ At(t, "put") \/ At(t, "get")
    /\ \/ \E k \in Keys : entries[k].key # NoBlob /\ entries[k].key \notin keys
       \/ \E v \in ToSet(Versions(t)) : Dangling(v)
    /\ GoAstray

(* COMMIT: at once for a transaction that is aborted, else once every     *)
(* transaction it depends on is over; waiting for them changes nothing.   *)
CommitAborted(t) ==
    /\ At(t, "receive")
    /\ status[t] = "aborted"
    /\ CountTransactions([trefs EXCEPT ![t] = @ - 1], depends)
    /\ Goto(t, "done")
    /\ UNCHANGED <<refcnt, keys, entries, status, request, locals, undefined>>

Commit(t) ==
    LET over(s) == \A u \in depends[t] : status[u] \in s
    IN  /\ At(t, "receive")
        /\ status[t] # "aborted"
        /\ over({"committed", "aborted"})
        /\ status' = IF over({"committed"})
                     THEN [status EXCEPT ![t] = "committed"]
                     ELSE Aborting({t})
        /\ CountTransactions([trefs EXCEPT ![t] = @ - 1], depends)
        /\ Goto(t, "done")
        /\ UNCHANGED <<refcnt, keys, entries, request, locals, undefined>>

-----------------------------------------------------------------------------
(* Each thread has registered and created its transaction; one that has   *)
(* not is like one whose client is silent.                                *)
Init ==
    /\ refcnt = [b \in Blobs |-> 0]
    /\ keys = {}
    /\ entries = [k \in Keys |-> Absent]
    /\ status = [t \in Trans |-> "pending"]
    /\ trefs = [t \in Trans |-> 1]
    /\ depends = [t \in Trans |-> {}]
    /\ pc = [t \in Trans |-> "receive"]
    /\ ops = 0
    /\ tmp_blob = [t \in Trans |-> NoBlob]
    /\ want = [t \in Trans |-> "none"]
    /\ value = [t \in Trans |-> NoBlob]
    /\ undefined = FALSE

(* Every client is served, or the program has gone astray. *)
Terminated ==
    /\ undefined \/ \A t \in Trans : pc[t] \in {"done", "gone"}
    /\ UNCHANGED vars

Next ==
    \/ \E t \in Trans : \/ ReceiveFails(t)
                        \/ \E k \in Keys : ReceivePut(t, k) \/ ReceiveGet(t, k)
                        \/ PutValueFails(t) \/ PutValue(t)
                        \/ StorePut(t) \/ StorePutRefused(t)
                        \/ PutReply(t) \/ PutAborted(t) \/ PutDisposesTwice(t)
                        \/ StoreGet(t) \/ StoreGetRefused(t)
                        \/ GetReply(t) \/ GetValue(t)
                        \/ GetAborted(t) \/ GetUnrefsNull(t)
                        \/ StoreTouchesFreed(t)
                        \/ CommitAborted(t) \/ Commit(t)
    \/ Terminated

Spec == Init /\ [][Next]_vars

-----------------------------------------------------------------------------
(* What the counts are for *)

(* The threads that hold a reference to b themselves: as the blob of a    *)
(* key, as a value, and as the value of a GET, which they hold twice.     *)
Holders(b) == {t \in Trans : tmp_blob[t] = b}
HoldersOfValue(b) == {t \in Trans : value[t] = b /\
    pc[t] \in {"put", "put_status", "get_status", "get_value", "gone"}}
HoldersTwice(b) == {t \in HoldersOfValue(b) : pc[t] = "get_status"}

(* Where the store points to a blob, and where it points to a transaction *)
(* or is depended on.                                                     *)
VersionsWith(b) == {p \in Keys \X (1 .. NTrans) :
    /\ p[2] <= Len(entries[p[1]].versions)
    /\ entries[p[1]].versions[p[2]].blob = b}
VersionsBy(t) == {k \in Keys : \E v \in ToSet(entries[k].versions) :
                                 v.creator = t}

(* The count of each blob is exactly the number of its references: those  *)
(* of the versions in the store, of the keys, and of the threads at their *)
(* requests, whatever the clients do at once and whichever transactions   *)
(* abort, as long as nothing freed was used.  It takes both the extra     *)
(* reference of version_create and the second blob_unref of a GET.        *)
RefcntsAreExact ==
    \A b \in Blobs : refcnt[b] =
        Cardinality(VersionsWith(b)) + (IF b \in keys THEN 1 ELSE 0)
        + Cardinality(Holders(b)) + Cardinality(HoldersOfValue(b))
        + Cardinality(HoldersTwice(b))

(* A transaction is not freed while its thread, a version in the store or *)
(* a younger transaction refers to it.                                    *)
TransactionsAreHeld ==
    \A t \in Trans : trefs[t] >=
        Cardinality(VersionsBy(t))
        + Cardinality({u \in Trans : t \in depends[u]})
        + (IF pc[t] = "done" THEN 0 ELSE 1)

CountsAreRight == ~undefined => RefcntsAreExact /\ TransactionsAreHeld

(* Nothing freed, and no NULL, is ever used but on the two paths a PUT or *)
(* a GET takes when it finds its transaction aborted, or later through    *)
(* the entry whose key the first of them has disposed of.                 *)
UndefinedOnlyOnAbort ==
    undefined => \E t \in Trans : /\ status[t] = "aborted"
                                  /\ pc[t] \in {"put_status", "put_refused",
                                                "get_status", "gone"}

(* Each entry of the map has a key that is still allocated.  data.h says  *)
(* of key_dispose that a key "must be disposed of only once and must not  *)
(* be referred to again after it has been disposed", and store.h that     *)
(* store_put "inherits the key".                                          *)
KeysOutliveTheirEntries ==
    \A k \in Keys : entries[k].key # NoBlob => entries[k].key \in keys
=============================================================================
