------------------------------ MODULE Registry ------------------------------
(***************************************************************************)
(* The registries of package sqlite.  Go objects (functions, aggregates,   *)
(* auxiliary data, collations, modules, virtual tables, cursors, streams   *)
(* and conflict handlers) cannot be passed to C: SQLite gets a number from *)
(* an idGen, and each callback looks the object up by it.  All connections *)
(* share the registries; goroutines use a connection each.                 *)
(***************************************************************************)
EXTENDS Naturals, Sequences

CONSTANTS
    Users,      \* goroutines, each with its connection
    IdBits,     \* bits of a word of idGen (64)
    MaxObjs,    \* objects created in a run
    Kinds       \* the registries that are in use

\* Registered by a call of the application and handed to SQLite.
Passed == {"func", "factory", "coll", "module", "aux"}
\* In use for the length of a call; a sync.Map and a mutex for the idGen only.
Streams == {"reader", "writer", "apply"}
\* Made by a callback; Go must tell the object when SQLite has done with it.
Made == {"vtab", "cursor", "agg"}

ASSUME RegistryAssumption ==
    /\ IdBits \in Nat \ {0} /\ MaxObjs \in Nat
    /\ Kinds \subseteq Passed \cup Streams \cup Made

VARIABLES
    bits,      \* idGen.bitset of each registry
    m,         \* the map of each registry: id -> object
    holds,     \* who has which id: the ids that SQLite, or a call, still uses
    nobj,      \* objects created so far
    made,      \* the tables, cursors and aggregates among them
    released,  \* how often Finalize, Disconnect, Destroy or Close was called
    called     \* the last callback: the object it is for and the one it found

regvars == <<bits, m, holds, nobj, made, released, called>>

Objs == 1 .. MaxObjs
NoCall == [want |-> 0, got |-> 0, res |-> "none"]

\* phase "id": the id is taken and nothing stored; "stored": not yet with
\* SQLite; "held"; "failed": SQLite has refused it; "deleted": the id is still
\* taken.  of: the virtual table of a cursor.
Hold == [g : Users, k : Kinds, id : Nat, obj : Objs, of : Objs \cup {0},
         phase : {"id", "stored", "held", "failed", "deleted"}]

RegistryTypeOK ==
    /\ bits \in [Kinds -> Seq(SUBSET (0 .. IdBits - 1))]
    /\ \A k \in Kinds : m[k] \in [DOMAIN m[k] -> Objs]
    /\ holds \subseteq Hold
    /\ nobj \in 0 .. MaxObjs /\ made \subseteq 1 .. nobj
    /\ released \in [Objs -> Nat]

RegistryInit ==
    /\ bits = [k \in Kinds |-> <<>>]
    /\ m = [k \in Kinds |-> [i \in {} |-> 0]]
    /\ holds = {}
    /\ nobj = 0 /\ made = {}
    /\ released = [o \in Objs |-> 0]
    /\ called = NoCall
-----------------------------------------------------------------------------
(***************************************************************************)
(* idGen.                                                                  *)
(***************************************************************************)

Word == 0 .. IdBits - 1

\* The ids whose bit is set.
UsedIds(b) ==
    {id \in 1 .. Len(b) * IdBits : (id - 1) % IdBits \in b[(id - 1) \div IdBits + 1]}

\* idGen.next returns the lowest id that is free (this set has one element), and
\* sets its bit, for which it may append a word.
nextId(b) ==
    {id \in 1 .. Len(b) * IdBits + 1 : id \notin UsedIds(b) /\ 1 .. id - 1 \subseteq UsedIds(b)}
setId(b, id) ==
    IF id > Len(b) * IdBits THEN Append(b, {0})
    ELSE [b EXCEPT ![(id - 1) \div IdBits + 1] = @ \cup {(id - 1) % IdBits}]

\* idGen.reclaim.
reclaim(b, id) ==
    [b EXCEPT ![(id - 1) \div IdBits + 1] = @ \ {(id - 1) % IdBits}]
-----------------------------------------------------------------------------
Store(k, id, o) ==
    [m EXCEPT ![k] = [i \in DOMAIN m[k] \cup {id} |-> IF i = id THEN o ELSE m[k][i]]]
Delete(k, id) == [m EXCEPT ![k] = [i \in DOMAIN m[k] \ {id} |-> m[k][i]]]

\* A module's key is the address of its C structure and no idGen's: any that is
\* not in use.
Keys(k) == IF k = "module" THEN Objs \ DOMAIN m[k] ELSE nextId(bits[k])

\* The destroy functions: delete the entry and reclaim the id, in one critical
\* section.
Forget(h) ==
    /\ m' = Delete(h.k, h.id)
    /\ bits' = IF h.k = "module" THEN bits
               ELSE [bits EXCEPT ![h.k] = reclaim(@, h.id)]
    /\ holds' = holds \ {h}

Phase(h, p) == holds' = (holds \ {h}) \cup {[h EXCEPT !.phase = p]}

NewHold(g, k, id, o, of, p) ==
    [g |-> g, k |-> k, id |-> id, obj |-> o, of |-> of, phase |-> p]

\* Take an id, and store the object under it, in one critical section.
Add(g, k, id, o, of, p) ==
    /\ bits' = IF k = "module" THEN bits ELSE [bits EXCEPT ![k] = setId(@, id)]
    /\ m' = Store(k, id, o)
    /\ holds' = holds \cup {NewHold(g, k, id, o, of, p)}

\* An object made by a callback.  It is registered, or what comes before that
\* fails and it is released at once.
Make(g, k, of) ==
    /\ \/ /\ \E id \in Keys(k) : Add(g, k, id, nobj + 1, of, "held")
          /\ UNCHANGED released
       \/ /\ released' = [released EXCEPT ![nobj + 1] = @ + 1]
          /\ UNCHANGED <<bits, m, holds>>
    /\ nobj' = nobj + 1
    /\ made' = made \cup {nobj + 1}
    /\ called' = NoCall

\* A goroutine is in one call at a time.
Idle(g) == \A h \in holds : h.g = g => h.phase = "held"
Has(g, k) == \E h \in holds : h.g = g /\ h.k = k
Fresh == nobj < MaxObjs
-----------------------------------------------------------------------------
(***************************************************************************)
(* CreateFunction, SetCollation, SetModule and SetAuxData.                 *)
(***************************************************************************)

RegisterObject(g, k) ==
    /\ k \in Kinds /\ Idle(g) /\ Fresh
    /\ \E id \in Keys(k) : Add(g, k, id, nobj + 1, 0, "stored")
    /\ nobj' = nobj + 1
    /\ called' = NoCall
    /\ UNCHANGED <<made, released>>

CreateFunction(g) == RegisterObject(g, "func") \/ RegisterObject(g, "factory")
SetCollation(g) == RegisterObject(g, "coll")
SetModule(g) == RegisterObject(g, "module")
SetAuxData(g) == Has(g, "func") /\ RegisterObject(g, "aux")

\* SQLite keeps it; what had the same name is dropped before (Drop).
SqliteTakes(h) ==
    /\ h.k \in Passed /\ h.phase = "stored"
    /\ Phase(h, "held")
    /\ called' = NoCall
    /\ UNCHANGED <<bits, m, nobj, made, released>>

\* SQLite returns an error.  It has called the destroy function itself, but for
\* a collation; auxiliary data may be dropped in the call that sets it.
SqliteRefuses(h) ==
    /\ h.k \in Passed /\ h.phase = "stored"
    /\ IF h.k = "coll" THEN Phase(h, "failed") /\ UNCHANGED <<bits, m>>
       ELSE Forget(h)
    /\ called' = NoCall
    /\ UNCHANGED <<nobj, made, released>>

\* SetCollation calls destroyCollation.
CleanUp(h) ==
    /\ h.k = "coll" /\ h.phase = "failed"
    /\ Forget(h)
    /\ called' = NoCall
    /\ UNCHANGED <<nobj, made, released>>

\* SQLite calls the destroy function: the name is defined again, the statement
\* with the auxiliary data ends, the connection is closed.  A function is not
\* dropped while it is evaluated, nor a module that has tables.
Drop(h) ==
    /\ h.k \in Passed /\ h.phase = "held" /\ Idle(h.g)
    /\ h.k = "factory" => ~Has(h.g, "agg")
    /\ h.k = "module" => ~Has(h.g, "vtab")
    /\ Forget(h)
    /\ called' = NoCall
    /\ UNCHANGED <<nobj, made, released>>
-----------------------------------------------------------------------------
(***************************************************************************)
(* Virtual tables, cursors and aggregates.                                 *)
(***************************************************************************)

\* Mutant: a declaration that SQLite refuses leaves the table connected.
ConnectLeaks(g) ==
    /\ {"module", "vtab"} \subseteq Kinds /\ Idle(g) /\ Fresh
    /\ Has(g, "module")
    /\ \/ \E id \in Keys("vtab") : Add(g, "vtab", id, nobj + 1, 0, "held")
       \/ UNCHANGED <<bits, m, holds>>
    /\ nobj' = nobj + 1
    /\ made' = made \cup {nobj + 1}
    /\ called' = NoCall
    /\ UNCHANGED released

\* callConnectFunc: connect has returned a table (when it fails nothing has
\* happened); declare_vtab and the allocation may fail, and then the deferred
\* function disconnects it.
Connect(g) ==
    /\ {"module", "vtab"} \subseteq Kinds /\ Idle(g) /\ Fresh
    /\ Has(g, "module")
    /\ Make(g, "vtab", 0)

\* vtabOpenTrampoline: the allocation may fail.
OpenCursor(h) ==
    /\ h.k = "vtab" /\ "cursor" \in Kinds /\ Idle(h.g) /\ Fresh
    /\ Make(h.g, "cursor", h.obj)

\* The object is looked up, removed and told.  SQLite forgets it whatever the
\* method returns.
Release(h) ==
    /\ Idle(h.g)
    /\ released' = [released EXCEPT ![m[h.k][h.id]] = @ + 1]
    /\ Forget(h)
    /\ called' = NoCall
    /\ UNCHANGED <<nobj, made>>

\* vtabDisconnect and vtabDestroy.  SQLite closes the cursors first.
DisconnectTable(h) ==
    /\ h.k = "vtab" /\ \A c \in holds : c.k = "cursor" => c.of # h.obj
    /\ Release(h)

\* vtabCloseTrampoline.
CloseCursor(h) == h.k = "cursor" /\ Release(h)

\* finalTrampoline.
FinalizeAggregate(h) == h.k = "agg" /\ Release(h)

\* makeAggregate: the first call of an evaluation makes the aggregate, unless
\* the factory fails.  If that call is finalTrampoline's it is the only one.
NewAggregate(g) ==
    /\ {"factory", "agg"} \subseteq Kinds /\ Idle(g) /\ Fresh
    /\ Has(g, "factory")
    /\ Make(g, "agg", 0)
-----------------------------------------------------------------------------
(***************************************************************************)
(* Streams and conflict handlers of the session extension.                 *)
(***************************************************************************)

\* The id comes first, in a critical section of its own.
TakeId(g, k) ==
    /\ k \in Kinds /\ Idle(g) /\ Fresh
    /\ \E id \in nextId(bits[k]) :
          /\ bits' = [bits EXCEPT ![k] = setId(@, id)]
          /\ holds' = holds \cup {NewHold(g, k, id, nobj + 1, 0, "id")}
    /\ nobj' = nobj + 1
    /\ called' = NoCall
    /\ UNCHANGED <<m, made, released>>

registerStreamReader(g) == TakeId(g, "reader")
registerStreamWriter(g) == TakeId(g, "writer")
ApplyChangeset(g) == TakeId(g, "apply")

StoreStream(h) ==
    /\ h.phase = "id"
    /\ m' = Store(h.k, h.id, h.obj)
    /\ Phase(h, "held")
    /\ called' = NoCall
    /\ UNCHANGED <<bits, nobj, made, released>>

\* Mutant: the id is reclaimed before the entry is deleted.
DeleteStreamLate(h) ==
    /\ h.k \in Streams /\ h.phase = "held" /\ Idle(h.g)
    /\ bits' = [bits EXCEPT ![h.k] = reclaim(@, h.id)]
    /\ Phase(h, "failed")
    /\ called' = NoCall
    /\ UNCHANGED <<m, nobj, made, released>>

\* unregisterStreamReader and the others, when the call returns.
DeleteStream(h) ==
    /\ h.k \in Streams /\ h.phase = "held" /\ Idle(h.g)
    /\ m' = Delete(h.k, h.id)
    /\ Phase(h, "deleted")
    /\ called' = NoCall
    /\ UNCHANGED <<bits, nobj, made, released>>

ReclaimStream(h) ==
    /\ h.phase = "deleted"
    /\ bits' = [bits EXCEPT ![h.k] = reclaim(@, h.id)]
    /\ holds' = holds \ {h}
    /\ called' = NoCall
    /\ UNCHANGED <<m, nobj, made, released>>
-----------------------------------------------------------------------------
(***************************************************************************)
(* The callbacks look the object up and call a method of it.               *)
(***************************************************************************)

Found(h) == IF h.id \in DOMAIN m[h.k] THEN m[h.k][h.id] ELSE 0
Callback(h, results) ==
    /\ h.phase = "held" /\ Idle(h.g)
    /\ \E r \in results : called' = [want |-> h.obj, got |-> Found(h), res |-> r]
    /\ UNCHANGED <<bits, m, holds, nobj, made, released>>

\* funcTrampoline, AuxData and the aggregates; an error becomes the result.
CallFunction(h) == h.k \in {"func", "aux"} /\ Callback(h, {"ok", "error"})
CallAggregate(h) == h.k = "agg" /\ Callback(h, {"ok", "error"})
CallCollation(h) == h.k = "coll" /\ Callback(h, {"ok"})
\* vtabFilterTrampoline to vtabRowIDTrampoline.
CallCursor(h) == h.k = "cursor" /\ Callback(h, {"ok", "error"})
CallBestIndex(h) == h.k = "vtab" /\ Callback(h, {"ok", "misuse", "error"})
\* A table that does not implement Write or Rename is read-only; one that does
\* not implement the others is not called.
CallUpdate(h) == h.k = "vtab" /\ Callback(h, {"ok", "error", "readonly"})
CallRename(h) == h.k = "vtab" /\ Callback(h, {"ok", "error", "readonly"})
CallTransaction(h) == h.k = "vtab" /\ Callback(h, {"ok", "error"})
CallSavepoint(h) == h.k = "vtab" /\ Callback(h, {"ok", "error"})
\* A stream that is not there is MISUSE.
CallReader(h) == h.k = "reader" /\ Callback(h, {"ok", "error"})
CallWriter(h) == h.k = "writer" /\ Callback(h, {"ok", "error"})
CallApply(h) == h.k = "apply" /\ Callback(h, {"ok"})

RegistryNext ==
    \/ \E g \in Users : \/ CreateFunction(g) \/ SetCollation(g) \/ SetModule(g)
                        \/ SetAuxData(g) \/ Connect(g) \/ NewAggregate(g)
                        \/ registerStreamReader(g) \/ registerStreamWriter(g)
                        \/ ApplyChangeset(g)
    \/ \E h \in holds : \/ SqliteTakes(h) \/ SqliteRefuses(h) \/ CleanUp(h) \/ Drop(h)
                        \/ OpenCursor(h) \/ CloseCursor(h) \/ DisconnectTable(h)
                        \/ FinalizeAggregate(h)
                        \/ StoreStream(h) \/ DeleteStream(h) \/ ReclaimStream(h)
                        \/ CallFunction(h) \/ CallAggregate(h) \/ CallCollation(h)
                        \/ CallCursor(h) \/ CallBestIndex(h) \/ CallUpdate(h)
                        \/ CallRename(h) \/ CallTransaction(h) \/ CallSavepoint(h)
                        \/ CallReader(h) \/ CallWriter(h) \/ CallApply(h)

RegistrySpec == RegistryInit /\ [][RegistryNext]_regvars
-----------------------------------------------------------------------------
HoldsOf(k) == {h \in holds : h.k = k}

\* The registries and SQLite agree, whatever calls of other connections come in
\* between and however calls fail: no two users of a registry have the same id,
\* the ids that are taken are those that are used (none leaks, none is handed
\* out again too early), each of them finds the object it was made for, and the
\* maps have no other entry.
RegistryMirrorsSqlite ==
    /\ \A h1, h2 \in holds : (h1.k = h2.k /\ h1.id = h2.id) => h1 = h2
    /\ \A k \in Kinds :
          /\ k # "module" => UsedIds(bits[k]) = {h.id : h \in HoldsOf(k)}
          /\ DOMAIN m[k] = {h.id : h \in {x \in HoldsOf(k) : x.phase \notin {"id", "deleted"}}}
    /\ \A h \in holds : h.phase \notin {"id", "deleted"} => Found(h) = h.obj
    /\ called.got = called.want

\* Each table is disconnected or destroyed, each cursor closed and each
\* aggregate finalized exactly once, when SQLite no longer has it, also when the
\* call that made it fails halfway.
ReleasedOnce ==
    \A o \in Objs :
       released[o] = IF o \in made /\ \A h \in holds : h.obj # o THEN 1 ELSE 0
=============================================================================
