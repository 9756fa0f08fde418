------------------------------ MODULE Session -------------------------------
(***************************************************************************)
(* The objects of the session extension (session.go) and what they hold in *)
(* C: a Session holds a session object, a ChangesetIterator an iterator, a *)
(* thread state (TLS) and a registered reader, a Changegroup, from its     *)
(* first use, a group and a thread state.  Calls fail at every point where *)
(* the code handles an error.                                              *)
(***************************************************************************)
EXTENDS Naturals, FiniteSets

CONSTANT Handles    \* the Go objects the application has

ASSUME SessionAssumption == IsFiniteSet(Handles)

VARIABLES
    handle,     \* the Go objects
    inC,        \* C objects, thread states and readers that exist
    recording,  \* the sessions that record changes
    panicked    \* a method has panicked

sessionvars == <<handle, inC, recording, panicked>>

Resources == {"ptr", "tls", "pIn"}

\* kind "none": not created.  has: the fields that are not zero.
NoHandle == [kind |-> "none", has |-> {}]
InUse(x, kind) == handle[x].kind = kind /\ ~panicked

SessionTypeOK ==
    /\ handle \in [Handles -> [kind : {"none", "session", "iter", "group"},
                               has : SUBSET Resources]]
    /\ inC \in [Handles -> [Resources -> Nat]]
    /\ recording \subseteq Handles
    /\ panicked \in BOOLEAN

SessionInit ==
    /\ handle = [x \in Handles |-> NoHandle]
    /\ inC = [x \in Handles |-> [r \in Resources |-> 0]]
    /\ recording = {}
    /\ panicked = FALSE

\* What a call allocates and frees, and the fields it leaves set.
Alloc(x, new, old) ==
    inC' = [inC EXCEPT ![x] = [r \in Resources |->
               (@[r] + (IF r \in new THEN 1 ELSE 0)) - (IF r \in old THEN 1 ELSE 0)]]
Fields(x, kind, fields) == handle' = [handle EXCEPT ![x] = [kind |-> kind, has |-> fields]]
NoEffect == UNCHANGED <<handle, inC, recording, panicked>>
-----------------------------------------------------------------------------
(***************************************************************************)
(* Session: it uses the connection's thread state.                         *)
(***************************************************************************)

\* CreateSession.  New sessions start enabled.
CreateSession(x) ==
    /\ InUse(x, "none")
    /\ Fields(x, "session", {"ptr"}) /\ Alloc(x, {"ptr"}, {})
    /\ recording' = recording \cup {x}
    /\ UNCHANGED panicked

\* Session.Delete; the second time it panics.
DeleteSession(x) ==
    /\ InUse(x, "session")
    /\ IF "ptr" \in handle[x].has
       THEN /\ Fields(x, "session", {}) /\ Alloc(x, {}, {"ptr"})
            /\ recording' = recording \ {x}
            /\ UNCHANGED panicked
       ELSE panicked' = TRUE /\ UNCHANGED <<handle, inC, recording>>

\* Session.Enable and Session.Disable.
SetEnabled(x, on) ==
    /\ InUse(x, "session")
    /\ IF "ptr" \in handle[x].has
       THEN /\ recording' = IF on THEN recording \cup {x} ELSE recording \ {x}
            /\ UNCHANGED panicked
       ELSE panicked' = TRUE /\ UNCHANGED recording
    /\ UNCHANGED <<handle, inC>>

\* Session.Attach, Diff, WriteChangeset and WritePatchset: an error when the
\* session is deleted; what they register or allocate ends with the call.
UseSession(x) == InUse(x, "session") /\ NoEffect
-----------------------------------------------------------------------------
(***************************************************************************)
(* ChangesetIterator.                                                      *)
(***************************************************************************)

\* NewChangesetIterator: on an error the reader is unregistered and the thread
\* state closed.
NewChangesetIterator(x) ==
    /\ InUse(x, "none")
    /\ \/ Fields(x, "iter", Resources) /\ Alloc(x, Resources, {})
       \/ UNCHANGED handle /\ Alloc(x, {"tls", "pIn"}, {"tls", "pIn"})
    /\ UNCHANGED <<recording, panicked>>

\* ChangesetIterator.Next.
NextChange(x) == InUse(x, "iter") /\ "ptr" \in handle[x].has /\ NoEffect

\* ChangesetIterator.Close: everything is released, also when finalize fails;
\* the second time it returns an error.
CloseIterator(x) ==
    /\ InUse(x, "iter")
    /\ IF "ptr" \in handle[x].has
       THEN Fields(x, "iter", {}) /\ Alloc(x, {}, handle[x].has)
       ELSE UNCHANGED <<handle, inC>>
    /\ UNCHANGED <<recording, panicked>>
-----------------------------------------------------------------------------
(***************************************************************************)
(* Changegroup.                                                            *)
(***************************************************************************)

\* Changegroup.init: what it makes is kept, or all of it is given back.
InitGroup(x, ok) ==
    LET missing == {"tls", "ptr"} \ handle[x].has
    IN  IF ok \/ missing = {} THEN [new |-> missing, has |-> {"tls", "ptr"}]
        ELSE [new |-> {}, has |-> {}]

\* NewChangegroup, or new(Changegroup), which has nothing in C yet.
NewGroup(x) ==
    /\ InUse(x, "none")
    /\ \/ Fields(x, "group", {}) /\ UNCHANGED inC
       \/ Fields(x, "group", {"tls", "ptr"}) /\ Alloc(x, {"tls", "ptr"}, {})
    /\ UNCHANGED <<recording, panicked>>

\* Changegroup.Add; what it adds may fail after init, and the group stays.
AddToGroup(x) ==
    /\ InUse(x, "group")
    /\ \E ok \in BOOLEAN :
          Fields(x, "group", InitGroup(x, ok).has) /\ Alloc(x, InitGroup(x, ok).new, {})
    /\ UNCHANGED <<recording, panicked>>

\* Changegroup.Clear may be called any number of times.
ClearGroup(x) ==
    /\ InUse(x, "group")
    /\ Fields(x, "group", {}) /\ Alloc(x, {}, handle[x].has)
    /\ UNCHANGED <<recording, panicked>>

\* Mutant: the group made for the call is not cleared.
WriteGroupKeeps(x) ==
    /\ InUse(x, "group")
    /\ \E ok \in BOOLEAN :
          /\ Fields(x, "group", handle[x].has)
          /\ Alloc(x, InitGroup(x, ok).new, {})
    /\ UNCHANGED <<recording, panicked>>

\* Changegroup.WriteTo: a group without a C object gets one for the call.
WriteGroup(x) ==
    /\ InUse(x, "group")
    /\ \E ok \in BOOLEAN :
          LET i == InitGroup(x, ok)
          IN  IF "ptr" \in handle[x].has THEN UNCHANGED <<handle, inC>>
              ELSE Fields(x, "group", {}) /\ Alloc(x, i.new, i.has)
    /\ UNCHANGED <<recording, panicked>>
-----------------------------------------------------------------------------
SessionNext ==
    \E x \in Handles :
       \/ CreateSession(x) \/ DeleteSession(x) \/ UseSession(x)
       \/ \E on \in BOOLEAN : SetEnabled(x, on)
       \/ NewChangesetIterator(x) \/ NextChange(x) \/ CloseIterator(x)
       \/ NewGroup(x) \/ AddToGroup(x) \/ ClearGroup(x) \/ WriteGroup(x)

SessionSpec == SessionInit /\ [][SessionNext]_sessionvars

\* Whatever fails, what exists in C is what the fields of the Go objects name,
\* once each: nothing leaks when a constructor fails or a changegroup is only
\* written, nothing is freed twice, and no field names what is gone.
NothingLeaks ==
    \A x \in Handles, r \in Resources :
       inC[x][r] = IF r \in handle[x].has THEN 1 ELSE 0
=============================================================================
